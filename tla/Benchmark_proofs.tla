-------------------------- MODULE Benchmark_proofs --------------------------
(***************************************************************************)
(* Proofs about what the benchmarks report: the cold start, the analysis of *)
(* a load sweep, and a load test against a running server, for every number *)
(* of rows, requests, workers and replies.                                 *)
(***************************************************************************)
EXTENDS LoadTest, ServerStartup, ResultAnalysis, WellFoundedInduction,
        FiniteSetTheorems, TLAPS

-----------------------------------------------------------------------------
(***************************************************************************)
(* The cold start.                                                         *)
(***************************************************************************)
StartupSpec == StartupInit /\ [][StartupNext]_startupVars

Launched == pc \in {"top", "health", "models", "stop", "abandon", "report", "raise"}

\* While it polls the program knows of no error and has not seen the models;
\* when it has stopped polling, it has seen them or has an error. The process it
\* started has exited before it reports. Without a stranger, whoever showed its
\* models is the launched server or serves for it.
StartupInv ==
    /\ server \in Alive \cup {"none", "exited"}
    /\ server = "none" => reached = "nothing" /\ ~workers
    /\ server = "loading" => reached = "nothing"
    /\ server = "healthy" => reached = "healthy"
    /\ server = "ready" => reached = "ready"
    /\ workers \in BOOLEAN
    /\ outcome = "running" <=> pc # "ended"
    /\ pc \in {"precheck", "ended"} \/ Launched
    /\ pc = "precheck" => server = "none" /\ ~modelsSeen /\ error = "none"
    /\ graceful # "unset" => pc \in {"report", "raise", "ended"}
    /\ pc \in {"top", "health", "models"} => ~modelsSeen /\ error = "none"
    /\ pc = "models" => healthSeen
    /\ modelsSeen \in BOOLEAN /\ healthSeen \in BOOLEAN /\ (modelsSeen => healthSeen)
    /\ pc \in {"stop", "report"} => ((error = "none") <=> modelsSeen)
    /\ pc \in {"report", "raise"} => server = "exited" /\ graceful # "unset"
    /\ StartupIsHonest

\* A report of a cold start is about the server that was started if no other one
\* listens at its URL, ready exactly if models were seen. The launched process is
\* gone unless SIGKILL cannot end it, and after SIGKILL so is its group.
THEOREM ColdStartsAreHonest == StartupSpec => []StartupIsHonest
<1>1. StartupInit => StartupInv
  BY DEF StartupInit, StartupInv, StartupIsHonest, Launched
<1>2. StartupInv /\ [StartupNext]_startupVars => StartupInv'
  <2> SUFFICES ASSUME StartupInv, [StartupNext]_startupVars PROVE StartupInv'
    OBVIOUS
  <2>1. CASE UNCHANGED startupVars
    BY <2>1 DEF startupVars, worldVars, StartupInv, StartupIsHonest, Launched
  <2>2. CASE ServerStep
    BY <2>2 DEF ServerStep, Alive, StartupInv, StartupIsHonest, Launched
  <2>11. CASE WorkersStep
    <3>1. server \in Alive \/ ~workers'
      BY <2>11 DEF WorkersStep
    <3>2. workers' \in BOOLEAN
      BY <2>11 DEF WorkersStep
    <3>3. UNCHANGED <<server, reached, stranger, pc, healthSeen, modelsSeen, error, graceful, outcome>>
      BY <2>11 DEF WorkersStep
    <3>4. server \in Alive => server # "none" /\ server # "exited"
      BY DEF Alive
    <3>5. QED
      BY ZenonT(40), <3>1, <3>2, <3>3, <3>4 DEF StartupInv, StartupIsHonest, Launched
  <2>12. CASE StrangerStep
    BY <2>12 DEF StrangerStep, Alive, StartupInv, StartupIsHonest, Launched
  <2>3. CASE Precheck
    BY <2>3 DEF Precheck, EndAs, Alive, StartupInv, StartupIsHonest, Launched, worldVars
  <2>4. CASE LoopHead
    BY <2>4 DEF LoopHead, Goto, StartupInv, StartupIsHonest, Launched, worldVars
  <2>5. CASE ProbeHealth
    BY <2>5 DEF ProbeHealth, ProbeEscapes, StartupInv, StartupIsHonest, Launched, worldVars
  <2>6. CASE ProbeModels
    <3>1. CASE modelsSeen' = TRUE /\ pc' = "stop"
      BY <2>6, <3>1 DEF ProbeModels, Answers, StartupInv, StartupIsHonest, Launched, worldVars
    <3>2. CASE UNCHANGED modelsSeen /\ pc' \in {"top", "abandon"}
      BY <2>6, <3>2 DEF ProbeModels, Answers, StartupInv, StartupIsHonest, Launched, worldVars
    <3>3. QED
      BY <2>6, <3>1, <3>2 DEF ProbeModels, ProbeEscapes
  <2>7. CASE StopProcessGroup
    BY <2>7 DEF StopProcessGroup, Stopping, Alive, StartupInv, StartupIsHonest, Launched
  <2>8. CASE Unkillable
    BY <2>8 DEF Unkillable, Stopping, EndAs, Alive, StartupInv, StartupIsHonest, Launched, worldVars
  <2>9. CASE WriteReport
    BY <2>9 DEF WriteReport, EndAs, StartupInv, StartupIsHonest, Launched, worldVars
  <2>10. QED
    BY <2>1, <2>2, <2>3, <2>4, <2>5, <2>6, <2>7, <2>8, <2>9, <2>11, <2>12 DEF StartupNext
<1>3. StartupInv => StartupIsHonest
  BY DEF StartupInv
<1>4. QED
  BY <1>1, <1>2, <1>3, PTL DEF StartupSpec
-----------------------------------------------------------------------------
(***************************************************************************)
(* Induction and recursion over data, in set form.                         *)
(***************************************************************************)
\* A set of numbers that has an element has a least one.
LEMMA LeastNumber ==
    ASSUME NEW T \in SUBSET Nat, T # {}
    PROVE  \E n \in T : \A m \in T : n <= m
<1> DEFINE R == OpToRel(<, Nat)
<1>1. IsWellFoundedOn(R, Nat)
  BY NatLessThanWellFounded
<1>2. \A x, y \in Nat : <<x, y>> \in R <=> x < y
  BY DEF OpToRel
<1> HIDE DEF R
<1>3. PICK n \in T : \A m \in T : ~ (<<m, n>> \in R)
  BY <1>1, WFMin
<1>4. \A m \in T : ~(m < n)
  BY <1>2, <1>3
<1>5. QED
  BY <1>4

\* A set with 0, and with n + 1 for each n in it, has every number.
LEMMA Inductive ==
    ASSUME NEW S, 0 \in S, \A n \in Nat : n \in S => n + 1 \in S
    PROVE  Nat \subseteq S
<1> SUFFICES ASSUME ~(Nat \subseteq S) PROVE FALSE
  OBVIOUS
<1>1. PICK n \in Nat \ S : \A m \in Nat \ S : n <= m
  BY LeastNumber
<1>2. n # 0 /\ n - 1 \in Nat
  BY <1>1
<1>3. n - 1 \in S
  BY <1>1, <1>2
<1>4. QED
  BY <1>1, <1>2, <1>3

\* The steps of a computation on V that takes n of them, and what it computes.
StepFunctions(n, V) == [(1 .. n) \X V -> V]

\* f holds the values of such a computation: start, then a step at a time.
Computes(f, n, V, start, step) ==
    /\ f \in [0 .. n -> V] /\ f[0] = start
    /\ \A k \in 1 .. n : f[k] = step[<<k, f[k - 1]>>]

\* Such a computation has its values: a step is defined whatever the last gave.
LEMMA RecursionExists ==
    ASSUME NEW V, NEW start \in V, NEW n \in Nat, NEW step \in StepFunctions(n, V)
    PROVE  \E f : Computes(f, n, V, start, step)
<1>0. step \in [(1 .. n) \X V -> V]
  BY DEF StepFunctions
<1> DEFINE Runs(m) == {f \in [0 .. m -> V] : f[0] = start /\ \A k \in 1 .. m : f[k] = step[<<k, f[k - 1]>>]}
           S == {m \in Nat : m <= n => Runs(m) # {}}
<1>1. 0 \in S
  <2>1. [k \in 0 .. 0 |-> start] \in Runs(0)
    OBVIOUS
  <2>2. QED
    BY <2>1
<1>2. ASSUME NEW m \in Nat, m \in S
      PROVE  m + 1 \in S
  <2>1. CASE m + 1 <= n
    <3>1. PICK f \in [0 .. m -> V] : f[0] = start /\ \A k \in 1 .. m : f[k] = step[<<k, f[k - 1]>>]
      BY <1>2, <2>1
    <3> DEFINE g == [k \in 0 .. m + 1 |-> IF k <= m THEN f[k] ELSE step[<<k, f[k - 1]>>]]
    <3>2. m \in 0 .. m /\ m + 1 \in 1 .. n /\ f[m] \in V /\ m + 1 - 1 = m
      BY <2>1, <3>1
    <3>3. g \in [0 .. m + 1 -> V]
      <4>1. ASSUME NEW k \in 0 .. m + 1 PROVE g[k] \in V
        <5>1. CASE k <= m
          BY <3>1, <5>1
        <5>2. CASE k = m + 1
          BY <1>0, <3>2, <5>2
        <5>3. QED
          BY <5>1, <5>2
      <4>2. QED
        BY <4>1
    <3>4. g[0] = start
      BY <3>1
    <3>5. ASSUME NEW k \in 1 .. m + 1 PROVE g[k] = step[<<k, g[k - 1]>>]
      <4>1. g[k - 1] = f[k - 1]
        OBVIOUS
      <4>2. CASE k <= m
        <5>1. g[k] = f[k]
          BY <4>2
        <5>2. k \in 1 .. m
          BY <4>2
        <5>3. f[k] = step[<<k, f[k - 1]>>]
          <6> HIDE DEF g
          <6>1. QED
            BY <3>1, <5>2
        <5>4. QED
          <6> HIDE DEF g
          <6>1. QED
            BY Zenon, <4>1, <5>1, <5>3
      <4>3. CASE k = m + 1
        <5>1. g[k] = step[<<k, f[k - 1]>>]
          BY <4>3
        <5>2. QED
          <6> HIDE DEF g
          <6>1. QED
            BY Zenon, <4>1, <5>1
      <4>4. k <= m \/ k = m + 1
        BY <1>0
      <4>5. QED
        BY Zenon, <4>2, <4>3, <4>4
    <3> HIDE DEF g
    <3>6. g \in Runs(m + 1)
      BY <3>3, <3>4, <3>5
    <3>7. QED
      BY <3>6
  <2>2. CASE ~(m + 1 <= n)
    BY <2>2
  <2>3. QED
    BY <2>1, <2>2
<1>3. n \in S
  <2> HIDE DEF S
  <2>1. QED
    BY <1>1, <1>2, Inductive
<1>4. QED
  BY <1>3 DEF Computes
-----------------------------------------------------------------------------
(***************************************************************************)
(* The analysis of a sweep.                                                *)
(***************************************************************************)
\* What is read: a finite sequence of rows.
Rows == results \in Seq(Row) /\ Len(results) <= MaxRows

\* The values the analysis compares.
LEMMA RowFacts ==
    ASSUME Rows
    PROVE  /\ MaxValue \in Nat /\ Len(results) \in Nat
           /\ DOMAIN results = 1 .. Len(results)
           /\ \A i \in DOMAIN results :
                 /\ results[i] \in Row
                 /\ results[i].throughput \in 1 .. MaxValue /\ results[i].p99 \in 0 .. MaxValue
<1>1. MaxValue \in Nat
  BY AnalysisAssumption
<1>2. /\ Len(results) \in Nat /\ DOMAIN results = 1 .. Len(results)
      /\ \A i \in DOMAIN results : results[i] \in Row
  BY DEF Rows
<1>3. QED
  BY <1>1, <1>2 DEF Row

\* A set of rows is finite, and has a first one.
LEMMA RowSets ==
    ASSUME Rows, NEW T \in SUBSET DOMAIN results
    PROVE  /\ IsFiniteSet(T) /\ Cardinality(T) \in Nat
           /\ T # {} => \E i \in T : \A j \in T : i <= j
<1>1. Len(results) \in Int /\ 1 \in Int /\ DOMAIN results = 1 .. Len(results)
  BY RowFacts
<1>2. IsFiniteSet(DOMAIN results)
  <2>1. IsFiniteSet(1 .. Len(results))
    BY <1>1, FS_Interval
  <2>2. QED
    BY <1>1, <2>1
<1>3. IsFiniteSet(T)
  BY <1>2, FS_Subset
<1>4. T \in SUBSET Nat
  BY <1>1
<1>5. T # {} => \E i \in T : \A j \in T : i <= j
  BY <1>4, LeastNumber
<1>6. QED
  BY <1>3, <1>5, FS_CardinalityType

\* Of some numbered rows, one has the least number.
LEMMA LeastRow ==
    ASSUME NEW T, T # {}, NEW weight \in [T -> Nat]
    PROVE  \E i \in T : \A j \in T : weight[i] <= weight[j]
<1> DEFINE W == {weight[i] : i \in T}
<1>1. W \in SUBSET Nat /\ W # {}
  OBVIOUS
<1> HIDE DEF W
<1>2. PICK w \in W : \A v \in W : w <= v
  BY <1>1, LeastNumber
<1>3. QED
  BY <1>2 DEF W

\* Whoever a usable row is beaten by, some undominated row beats it as well.
LEMMA Covered ==
    ASSUME Rows, NEW i \in Usable
    PROVE  \E k \in Undominated : /\ results[k].throughput >= results[i].throughput
                                  /\ results[k].p99 <= results[i].p99
<1> DEFINE T == {j \in Usable : /\ results[j].throughput >= results[i].throughput
                                /\ results[j].p99 <= results[i].p99}
           weight == [j \in T |-> results[j].p99 - results[j].throughput + MaxValue]
<1>1. \A j \in Usable : /\ results[j].throughput \in 1 .. MaxValue
                        /\ results[j].p99 \in 0 .. MaxValue
  BY RowFacts DEF Usable
<1>2. MaxValue \in Nat
  BY AnalysisAssumption
<1>3. i \in T
  BY <1>1
<1>4. weight \in [T -> Nat]
  <2>1. \A j \in T : results[j].p99 - results[j].throughput + MaxValue \in Nat
    BY <1>1, <1>2
  <2>2. QED
    BY <2>1
<1> HIDE DEF weight
<1>5. PICK k \in T : \A j \in T : weight[k] <= weight[j]
  BY <1>3, <1>4, LeastRow
<1>6. k \in Undominated
  <2>1. SUFFICES ASSUME NEW j \in Usable, Dominates(results[j], results[k]) PROVE FALSE
    BY DEF Undominated
  <2>2. j \in T
    BY <1>1, <2>1 DEF Dominates
  <2>3. results[j].p99 - results[j].throughput + MaxValue
          < results[k].p99 - results[k].throughput + MaxValue
    BY <1>1, <1>2, <2>1 DEF Dominates
  <2>4. weight[j] < weight[k]
    BY <2>2, <2>3 DEF weight
  <2>5. QED
    BY <1>4, <1>5, <2>2, <2>4
<1>7. QED
  BY <1>6

\* The undominated rows that come up to a row in the order of the frontier.
UpTo(i) == {j \in Undominated : \/ results[j].p99 < results[i].p99
                                \/ results[j].p99 = results[i].p99 /\ j <= i}

\* A row's place is one of the frontier's, no two rows share one, and a smaller
\* place means no larger latency.
LEMMA PlacesInOrder ==
    ASSUME Rows
    PROVE  /\ Cardinality(Undominated) \in Nat
           /\ \A i \in Undominated : Place(i) \in 1 .. Cardinality(Undominated)
           /\ \A i, j \in Undominated :
                 Place(i) <= Place(j) => i = j \/ results[i].p99 < results[j].p99
                                         \/ (results[i].p99 = results[j].p99 /\ i < j)
<1>1. /\ Undominated \subseteq DOMAIN results
      /\ \A i \in Undominated : UpTo(i) \subseteq Undominated /\ Place(i) = Cardinality(UpTo(i))
  BY DEF Undominated, Usable, UpTo, Place
<1>2. \A i \in Undominated : results[i].p99 \in Nat /\ i \in Nat
  BY <1>1, RowFacts
<1>3. IsFiniteSet(Undominated) /\ Cardinality(Undominated) \in Nat
  BY <1>1, RowSets
<1>4. \A i \in Undominated : IsFiniteSet(UpTo(i)) /\ Place(i) \in Nat
  <2> TAKE i \in Undominated
  <2>1. UpTo(i) \subseteq DOMAIN results
    BY <1>1
  <2>2. QED
    BY <1>1, <2>1, RowSets
<1>5. ASSUME NEW i \in Undominated
      PROVE  Place(i) \in 1 .. Cardinality(Undominated)
  <2>1. Cardinality(UpTo(i)) <= Cardinality(Undominated)
    BY <1>1, <1>3, FS_Subset
  <2>2. UpTo(i) # {}
    BY <1>2 DEF UpTo
  <2>3. Cardinality(UpTo(i)) # 0
    BY <1>4, <2>2, FS_EmptySet
  <2>4. QED
    BY <1>1, <1>3, <1>4, <2>1, <2>3
<1>6. ASSUME NEW i \in Undominated, NEW j \in Undominated, Place(i) <= Place(j),
             i # j, ~(results[i].p99 < results[j].p99), ~(results[i].p99 = results[j].p99 /\ i < j)
      PROVE  FALSE
  <2>1. UpTo(j) \subseteq UpTo(i) /\ i \in UpTo(i) /\ i \notin UpTo(j)
    BY <1>2, <1>6 DEF UpTo
  <2>2. Cardinality(UpTo(j)) <= Cardinality(UpTo(i))
    BY <1>4, <2>1, FS_Subset
  <2>3. Cardinality(UpTo(i)) = Cardinality(UpTo(j)) => UpTo(i) = UpTo(j)
    BY <1>4, <2>1, FS_Subset
  <2>4. QED
    BY <1>1, <1>4, <1>6, <2>1, <2>2, <2>3
<1>7. QED
  BY <1>3, <1>5, <1>6

\* Every place is some undominated row's: the frontier is those rows, each once.
LEMMA FrontierRows ==
    ASSUME Rows
    PROVE  /\ DOMAIN Frontier = 1 .. Cardinality(Undominated)
           /\ \A k \in DOMAIN Frontier :
                 \E i \in Undominated : Place(i) = k /\ Frontier[k] = results[i]
           /\ \A i \in Undominated : Place(i) \in DOMAIN Frontier /\ Frontier[Place(i)] = results[i]
<1> DEFINE n == Cardinality(Undominated)
           f == [i \in Undominated |-> Place(i)]
           T == {Place(i) : i \in Undominated}
<1>1. n \in Nat /\ \A i \in Undominated : Place(i) \in 1 .. n
  BY PlacesInOrder
<1>2. IsFiniteSet(Undominated)
  <2>1. Undominated \subseteq DOMAIN results
    BY DEF Undominated, Usable
  <2>2. QED
    BY <2>1, RowSets
<1>3. \A i, j \in Undominated : Place(i) = Place(j) => i = j
  <2> SUFFICES ASSUME NEW i \in Undominated, NEW j \in Undominated, Place(i) = Place(j)
               PROVE  i = j
    OBVIOUS
  <2>1. Place(i) <= Place(j) /\ Place(j) <= Place(i)
    BY <1>1
  <2>2. results[i].p99 \in Nat /\ results[j].p99 \in Nat /\ i \in Nat /\ j \in Nat
    BY RowFacts DEF Undominated, Usable
  <2>3. \/ i = j \/ results[i].p99 < results[j].p99 \/ (results[i].p99 = results[j].p99 /\ i < j)
    BY <2>1, PlacesInOrder
  <2>4. \/ i = j \/ results[j].p99 < results[i].p99 \/ (results[j].p99 = results[i].p99 /\ j < i)
    BY <2>1, PlacesInOrder
  <2>5. QED
    BY <2>2, <2>3, <2>4
<1>4. ExistsBijection(Undominated, T)
  <2>1. f \in [Undominated -> T]
    OBVIOUS
  <2>2. f \in Injection(Undominated, T)
    BY <1>3, <2>1, Zenon DEF Injection, IsInjective
  <2>3. f \in Surjection(Undominated, T)
    BY <2>1 DEF Surjection
  <2>4. QED
    BY <2>2, <2>3 DEF Bijection, ExistsBijection
<1>5. T = 1 .. n
  <2>1. Cardinality(T) = n
    BY <1>2, <1>4, FS_Bijection
  <2>2. n \in Int /\ 1 \in Int
    BY <1>1
  <2>3. T \subseteq 1 .. n
    BY <1>1
  <2> HIDE DEF n, T
  <2>4. IsFiniteSet(1 .. n) /\ Cardinality(1 .. n) = n
    BY <1>1, <2>2, FS_Interval
  <2>5. QED
    BY <2>1, <2>3, <2>4, FS_Subset
<1>6. DOMAIN Frontier = 1 .. n
  BY DEF Frontier
<1>7. ASSUME NEW i \in Undominated
      PROVE  Place(i) \in DOMAIN Frontier /\ Frontier[Place(i)] = results[i]
  <2>1. (CHOOSE j \in Undominated : Place(j) = Place(i)) = i
    BY <1>3
  <2>2. QED
    BY <1>1, <2>1 DEF Frontier
<1>8. ASSUME NEW k \in DOMAIN Frontier
      PROVE  \E i \in Undominated : Place(i) = k /\ Frontier[k] = results[i]
  <2>1. PICK i \in Undominated : Place(i) = k
    BY <1>5, <1>6
  <2>2. QED
    BY <1>7, <2>1
<1>9. QED
  BY <1>6, <1>7, <1>8

\* The frontier holds what it should, in order, and everything else is matched.
LEMMA FrontierIsSound ==
    ASSUME Rows
    PROVE  /\ \A i, j \in DOMAIN Frontier :
                 /\ Frontier[i].p99 # 0 /\ ~Frontier[i].failed
                 /\ ~Dominates(Frontier[i], Frontier[j])
                 /\ i < j => Frontier[i].p99 <= Frontier[j].p99
           /\ \A i \in DOMAIN results : (results[i].p99 # 0 /\ ~results[i].failed) =>
                 \E k \in DOMAIN Frontier : /\ Frontier[k].throughput >= results[i].throughput
                                            /\ Frontier[k].p99 <= results[i].p99
<1>1. ASSUME NEW k \in DOMAIN Frontier, NEW l \in DOMAIN Frontier
      PROVE  /\ Frontier[k].p99 # 0 /\ ~Frontier[k].failed
             /\ ~Dominates(Frontier[k], Frontier[l])
             /\ k < l => Frontier[k].p99 <= Frontier[l].p99
  <2>1. PICK i \in Undominated : Place(i) = k /\ Frontier[k] = results[i]
    BY FrontierRows
  <2>2. PICK j \in Undominated : Place(j) = l /\ Frontier[l] = results[j]
    BY FrontierRows
  <2>3. results[i].p99 # 0 /\ ~results[i].failed
    BY DEF Undominated, Usable
  <2>4. ~Dominates(results[i], results[j])
    BY DEF Undominated
  <2>5. results[i].p99 \in Nat /\ results[j].p99 \in Nat
    BY RowFacts DEF Undominated, Usable
  <2>6. k \in Nat /\ l \in Nat
    BY <2>1, <2>2, PlacesInOrder
  <2>7. k < l => results[i].p99 <= results[j].p99
    BY <2>1, <2>2, <2>5, <2>6, PlacesInOrder
  <2>8. QED
    BY <2>1, <2>2, <2>3, <2>4, <2>7
<1>2. ASSUME NEW i \in DOMAIN results, results[i].p99 # 0, ~results[i].failed
      PROVE  \E k \in DOMAIN Frontier : /\ Frontier[k].throughput >= results[i].throughput
                                        /\ Frontier[k].p99 <= results[i].p99
  <2>1. i \in Usable
    BY <1>2 DEF Usable
  <2>2. PICK j \in Undominated : /\ results[j].throughput >= results[i].throughput
                                 /\ results[j].p99 <= results[i].p99
    BY <2>1, Covered
  <2>3. QED
    BY <2>2, FrontierRows
<1>3. QED
  BY <1>1, <1>2

\* The saturation point is the first of the fastest failure-free rows.
LEMMA SaturationIsSound ==
    ASSUME Rows, NEW i \in DOMAIN results, ~results[i].failed
    PROVE  \E r \in Saturation : ~r.failed /\ r.throughput >= results[i].throughput
<1> DEFINE good == {k \in DOMAIN results : ~results[k].failed}
           best == {k \in good : \A j \in good : results[j].throughput <= results[k].throughput}
           weight == [k \in good |-> MaxValue - results[k].throughput]
<1>1. weight \in [good -> Nat] /\ i \in good
  BY RowFacts
<1>2. PICK k \in good : \A j \in good : weight[k] <= weight[j]
  <2> HIDE DEF weight, good
  <2>1. QED
    BY <1>1, LeastRow
<1>3. best # {}
  <2>1. \A j \in good : results[j].throughput <= results[k].throughput
    <3> TAKE j \in good
    <3>1. MaxValue - results[k].throughput <= MaxValue - results[j].throughput
      BY <1>2
    <3>2. QED
      BY <3>1, RowFacts
  <2>2. QED
    BY <2>1
<1>4. PICK m \in best : \A j \in best : m <= j
  <2>1. best \subseteq DOMAIN results
    OBVIOUS
  <2> HIDE DEF best
  <2>2. QED
    BY <1>3, <2>1, RowSets
<1>5. results[m] \in Saturation
  BY <1>4 DEF Saturation
<1>6. ~results[m].failed /\ results[m].throughput >= results[i].throughput
  BY <1>1, <1>4, RowFacts
<1>7. QED
  BY <1>5, <1>6

\* The extremes of some rows are the least and the largest latency of them.
LEMMA Extremes ==
    ASSUME Rows, NEW T \in SUBSET DOMAIN results, T # {}
    PROVE  /\ Extreme(T, 1).p99 \in Nat /\ Extreme(T, -1).p99 \in Nat
           /\ \A i \in T : Extreme(T, 1).p99 <= results[i].p99 /\ results[i].p99 <= Extreme(T, -1).p99
<1>1. ASSUME NEW sign \in {1, -1}
      PROVE  \E m \in T : /\ Extreme(T, sign) = results[m]
                          /\ \A j \in T : sign * results[m].p99 <= sign * results[j].p99
  <2> DEFINE weight == [i \in T |-> MaxValue + sign * results[i].p99]
             best == {i \in T : \A j \in T : sign * results[i].p99 <= sign * results[j].p99}
  <2>1. MaxValue \in Nat /\ \A i \in T : results[i].p99 \in 0 .. MaxValue /\ sign * results[i].p99 \in Int
                                         /\ MaxValue + sign * results[i].p99 \in Nat
    BY <1>1, RowFacts
  <2>2. weight \in [T -> Nat]
    BY <2>1
  <2>3. PICK k \in T : \A j \in T : weight[k] <= weight[j]
    <3> HIDE DEF weight
    <3>1. QED
      BY <2>2, LeastRow
  <2>4. best # {}
    <3>1. \A j \in T : sign * results[k].p99 <= sign * results[j].p99
      <4> TAKE j \in T
      <4>1. MaxValue + sign * results[k].p99 <= MaxValue + sign * results[j].p99
        BY <2>3
      <4>2. QED
        BY <2>1, <4>1
    <3>2. QED
      BY <3>1
  <2>5. \E m \in best : \A j \in best : m <= j
    <3>1. best \subseteq DOMAIN results
      OBVIOUS
    <3> HIDE DEF best
    <3>2. QED
      BY <2>4, <3>1, RowSets
  <2> DEFINE m == CHOOSE i \in best : \A j \in best : i <= j
  <2>6. m \in best
    BY <2>5
  <2>7. Extreme(T, sign) = results[m]
    BY DEF Extreme
  <2> HIDE DEF m
  <2>8. QED
    BY <2>6, <2>7
<1>2. PICK a \in T : Extreme(T, 1) = results[a] /\ \A j \in T : 1 * results[a].p99 <= 1 * results[j].p99
  BY <1>1
<1>3. PICK b \in T : Extreme(T, -1) = results[b] /\ \A j \in T : (-1) * results[b].p99 <= (-1) * results[j].p99
  BY <1>1
<1>4. \A j \in T : results[j].p99 \in Nat
  BY RowFacts
<1>5. QED
  BY <1>2, <1>3, <1>4

\* A ratio of two latencies of a group is at most that of its extremes.
LEMMA FairnessIsSound ==
    ASSUME Rows, NEW f \in LengthFairness, NEW i \in Group(f.load), NEW j \in Group(f.load)
    PROVE  results[i].p99 * f.fastest.p99 <= f.slowest.p99 * results[j].p99
<1>1. f.fastest = Extreme(Group(f.load), 1) /\ f.slowest = Extreme(Group(f.load), -1)
  <2>1. PICK c \in {results[k].load : k \in DOMAIN results} :
           f = [load |-> c, fastest |-> Extreme(Group(c), 1), slowest |-> Extreme(Group(c), -1)]
    BY DEF LengthFairness
  <2>2. QED
    BY <2>1
<1>2. Group(f.load) \subseteq DOMAIN results /\ Group(f.load) # {}
  BY DEF Group
<1>3. /\ f.fastest.p99 \in Nat /\ f.slowest.p99 \in Nat
      /\ f.fastest.p99 <= results[j].p99 /\ results[i].p99 <= f.slowest.p99
  BY <1>1, <1>2, Extremes
<1>4. results[i].p99 \in Nat /\ results[j].p99 \in Nat
  BY <1>2, RowFacts
<1>5. \A a, b, c, d \in Nat : a <= b /\ c <= d => a * c <= b * d
  <2> SUFFICES ASSUME NEW a \in Nat, NEW b \in Nat, NEW c \in Nat, NEW d \in Nat, a <= b, c <= d
               PROVE  a * c <= b * d
    OBVIOUS
  <2>1. a * c <= b * c
    OBVIOUS
  <2>2. b * c <= b * d
    OBVIOUS
  <2>3. a * c \in Nat /\ b * c \in Nat /\ b * d \in Nat
    OBVIOUS
  <2>4. QED
    BY <2>1, <2>2, <2>3
<1>6. QED
  BY <1>3, <1>4, <1>5

\* The analysis of any result files names the right rows.
THEOREM AnalysesAreSound == AnalysisSpec => []AnalysisIsSound
<1>1. AnalysisInit => Rows
  <2> SUFFICES ASSUME AnalysisInit PROVE Rows
    OBVIOUS
  <2>1. PICK m \in 0 .. MaxRows : results \in [1 .. m -> Row]
    BY DEF AnalysisInit, BoundedSeq, SeqOf
  <2>2. m \in Nat /\ m <= MaxRows
    BY AnalysisAssumption
  <2>3. QED
    BY <2>1, <2>2 DEF Rows
<1>2. Rows /\ [UNCHANGED results]_results => Rows'
  BY DEF Rows
<1>3. Rows => AnalysisIsSound
  BY FrontierIsSound, SaturationIsSound, FairnessIsSound DEF AnalysisIsSound
<1>4. QED
  BY <1>1, <1>2, <1>3, PTL DEF AnalysisSpec
-----------------------------------------------------------------------------
(***************************************************************************)
(* A load test: the inductive invariant.                                   *)
(***************************************************************************)
\* The lengths of a request, the ways a request goes wrong, and what a worker
\* keeps of one.
Labels == {"plain", "short", "long"}

Errors == {"none", "transport", "multi", "count", "untouched"}

Sample == [id : Nat \X Nat, label : Labels, tokens : Nat, error : Errors]

\* The number of stages of the program.
LastStage == Len(Stages(setting))

\* The types of the variables.
LoadTypeOK ==
    /\ setting \in Settings
    /\ stage \in 0 .. LastStage + 1
    /\ begun \in Nat /\ open \subseteq 1 .. begun
    /\ group \in Seq(Sample) /\ samples \in Seq(Sample)
    /\ escaped \in BOOLEAN /\ cheated \in BOOLEAN
    /\ exit \in {Running, 0, 1, 2} /\ status \in {Running, 0, 1, 2}

\* Requests are in flight only in a stage.
StageInv ==
    /\ stage \in 1 .. LastStage /\ exit = Running => begun <= Len(Current.labels)
    /\ ~(stage \in 1 .. LastStage /\ exit = Running) => begun = 0 /\ open = {} /\ group = <<>>

\* What a sample says of the request i of stage k: its label, and whether it was
\* answered, with all its tokens, as asked.
Tells(sample, k, i) ==
    /\ i \in DOMAIN Stages(setting)[k].labels
    /\ sample.label = Stages(setting)[k].labels[i]
    /\ Stages(setting)[k].kind = "measured" => (~Failed(sample) <=> <<k, i>> \in clean)
    /\ ~Failed(sample) /\ setting.prog # "cancel" => sample.tokens = OutputTokens

\* The requests of the running stage that ended.
Ended == (1 .. begun) \ open

\* The stage has a sample of every request that ended, unless an exception of
\* one went through.
GroupInv ==
    /\ \A j \in DOMAIN group : \E i \in Ended : group[j].id = <<1, i>> /\ Tells(group[j], stage, i)
    /\ \A j, k \in DOMAIN group : group[j].id = group[k].id => j = k
    /\ ~escaped => \A i \in Ended : \E j \in DOMAIN group : group[j].id = <<1, i>>

\* Answers are counted for requests that have ended.
CleanInv ==
    /\ clean \subseteq MeasuredIds
    /\ exit = Running => \A id \in clean : id[1] < stage \/ (id[1] = stage /\ id[2] \in Ended)

\* The samples are those of the measured requests of the finished stages.
SamplesInv ==
    /\ \A j \in DOMAIN samples : /\ samples[j].id \in MeasuredIds /\ samples[j].id[1] < stage
                                 /\ Tells(samples[j], samples[j].id[1], samples[j].id[2])
    /\ \A j, k \in DOMAIN samples : samples[j].id = samples[k].id => j = k
    /\ \A id \in MeasuredIds : id[1] < stage => \E j \in DOMAIN samples : samples[j].id = id

\* Past the last stage no exception and no required request is pending: a stage
\* that had one gave up.
DoomInv ==
    /\ escaped \/ cheated => stage \in 1 .. LastStage
    /\ stage \in 1 .. LastStage /\ exit = Running /\ cheated => GivesUp

\* The file is this run's once it is past its stages.
DiskInv ==
    /\ \/ disk \in {NoFile, OldFile}
       \/ disk = TornFile /\ stage = LastStage + 1
       \/ disk = Report(setting) /\ stage = LastStage + 1 /\ exit = ExitCode
    /\ exit = 0 => disk = Report(setting) /\ exit = ExitCode /\ stage = LastStage + 1
    /\ setting.shell = "dry" => stage = 0 /\ exit = Running /\ disk \in {NoFile, OldFile}

\* The caller's status comes from the program's.
StatusInv ==
    status # Running /\ setting.shell # "dry" =>
        /\ exit # Running
        /\ status = 0 => exit = 0 /\ (setting.shell = "kernellab" => ValidFile(disk))

\* The inductive invariant of a load test.
LoadInv == /\ LoadTypeOK /\ StageInv /\ GroupInv /\ CleanInv /\ SamplesInv
           /\ DoomInv /\ DiskInv /\ StatusInv

\* What consume_sse has of a response.
Read == [tokens : Nat, multi : BOOLEAN, error : {"none", "transport"}, stop : BOOLEAN]

\* A line takes what was read to something that can be read.
LEMMA ConsumeLineType ==
    ASSUME NEW line \in Lines, NEW read \in Read
    PROVE  ConsumeLine(line, read) \in Read
<1>1. CASE read.stop
  BY <1>1 DEF ConsumeLine
<1>2. CASE ~read.stop /\ line = Done
  BY <1>2 DEF ConsumeLine, Read
<1>3. CASE ~read.stop /\ line = Malformed
  BY <1>3 DEF ConsumeLine, Read, Done, Malformed
<1>4. CASE ~read.stop /\ line = Comment
  BY <1>4 DEF ConsumeLine, Read, Done, Malformed, Comment
<1>5. CASE ~read.stop /\ line \notin {Done, Malformed, Comment}
  <2>1. line \in Nat /\ (line > 1) \in BOOLEAN
    BY <1>5 DEF Lines, Done, Malformed, Comment
  <2>2. ConsumeLine(line, read) = [read EXCEPT !.tokens = @ + line, !.multi = @ \/ line > 1]
    BY <1>5 DEF ConsumeLine
  <2>3. read.tokens + line \in Nat /\ (read.multi \/ line > 1) \in BOOLEAN
    BY <2>1 DEF Read
  <2>4. QED
    BY <2>2, <2>3 DEF Read
<1>6. QED
  BY <1>1, <1>2, <1>3, <1>4, <1>5

\* The recursion that reads a response line by line is well defined.
LEMMA ReadUpToDefined ==
    ASSUME NEW lines \in Seq(Lines)
    PROVE  /\ ReadUpTo(lines) \in [0 .. Len(lines) -> Read]
           /\ ReadUpTo(lines)[0] = Unread
           /\ \A k \in 1 .. Len(lines) :
                 ReadUpTo(lines)[k] = ConsumeLine(lines[k], ReadUpTo(lines)[k - 1])
<1> DEFINE n == Len(lines)
           step == [x \in (1 .. n) \X Read |-> ConsumeLine(lines[x[1]], x[2])]
           Equation(f) == f = [k \in 0 .. n |-> IF k = 0 THEN Unread ELSE ConsumeLine(lines[k], f[k - 1])]
<1>1. n \in Nat /\ Unread \in Read
  BY DEF Unread, Read
<1>2. step \in StepFunctions(n, Read)
  <2>1. ASSUME NEW x \in (1 .. n) \X Read
        PROVE  ConsumeLine(lines[x[1]], x[2]) \in Read
    <3>1. x[1] \in 1 .. n /\ x[2] \in Read
      OBVIOUS
    <3>2. lines[x[1]] \in Lines
      BY <3>1
    <3>3. QED
      BY <3>1, <3>2, ConsumeLineType
  <2>2. QED
    BY <2>1 DEF StepFunctions
<1>3. PICK f \in [0 .. n -> Read] : f[0] = Unread /\ \A k \in 1 .. n : f[k] = step[<<k, f[k - 1]>>]
  <2> HIDE DEF step, n
  <2>1. \E f : Computes(f, n, Read, Unread, step)
    BY <1>1, <1>2, RecursionExists
  <2>2. QED
    BY <2>1 DEF Computes
<1>4. \A k \in 1 .. n : f[k] = ConsumeLine(lines[k], f[k - 1])
  <2> TAKE k \in 1 .. n
  <2>1. f[k - 1] \in Read
    BY <1>1, <1>3
  <2>2. <<k, f[k - 1]>> \in (1 .. n) \X Read
    BY <2>1
  <2>3. QED
    BY <1>3, <2>2
<1>5. Equation(f)
  <2>1. \A k \in 0 .. n : f[k] = IF k = 0 THEN Unread ELSE ConsumeLine(lines[k], f[k - 1])
    BY <1>1, <1>3, <1>4
  <2>2. QED
    BY <2>1
<1>6. ReadUpTo(lines) = CHOOSE g : Equation(g)
  BY DEF ReadUpTo
<1>7. Equation(ReadUpTo(lines))
  <2> HIDE DEF Equation
  <2>1. QED
    BY <1>5, <1>6
<1> DEFINE g == ReadUpTo(lines)
<1>8. g[0] = Unread /\ \A k \in 1 .. n : g[k] = ConsumeLine(lines[k], g[k - 1])
  <2> HIDE DEF g
  <2>1. g = [k \in 0 .. n |-> IF k = 0 THEN Unread ELSE ConsumeLine(lines[k], g[k - 1])]
    BY <1>7 DEF g
  <2>2. QED
    BY <1>1, <2>1
<1>9. g \in [0 .. n -> Read]
  <2> DEFINE S == {k \in Nat : k <= n => g[k] \in Read}
  <2>1. 0 \in S
    BY <1>1, <1>8
  <2>2. ASSUME NEW k \in Nat, k \in S PROVE k + 1 \in S
    <3>1. CASE k + 1 <= n
      <4>1. g[k] \in Read /\ lines[k + 1] \in Lines /\ k + 1 \in 1 .. n /\ (k + 1) - 1 = k
        BY <1>1, <2>2, <3>1
      <4>2. g[k + 1] = ConsumeLine(lines[k + 1], g[k])
        BY <1>8, <4>1
      <4>3. QED
        BY <4>1, <4>2, ConsumeLineType
    <3>2. CASE ~(k + 1 <= n)
      BY <3>2
    <3>3. QED
      BY <3>1, <3>2
  <2>3. Nat \subseteq S
    <3> HIDE DEF S
    <3>1. QED
      BY <2>1, <2>2, Inductive
  <2>4. \A k \in 0 .. n : g[k] \in Read
    BY <1>1, <2>3
  <2>5. DOMAIN g = 0 .. n /\ g = [k \in 0 .. n |-> g[k]]
    <3> HIDE DEF g
    <3>1. g = [k \in 0 .. n |-> IF k = 0 THEN Unread ELSE ConsumeLine(lines[k], g[k - 1])]
      BY <1>7 DEF g
    <3>2. QED
      BY <3>1
  <2>6. QED
    BY <2>4, <2>5
<1>10. QED
  BY <1>8, <1>9

\* The lines up to k that carry one token.
Singles(lines, k) == {i \in 1 .. k : lines[i] = 1}

\* No response is over before line k.
Runs(lines, k) == \A i \in 1 .. k : lines[i] \notin {Done, Malformed}

\* One more line is at most one more of them.
LEMMA SinglesFinite ==
    ASSUME NEW lines, NEW k \in Nat
    PROVE  /\ IsFiniteSet(Singles(lines, k)) /\ Cardinality(Singles(lines, k)) \in Nat
           /\ Cardinality(Singles(lines, 0)) = 0
           /\ Cardinality(Singles(lines, k + 1))
                = Cardinality(Singles(lines, k)) + IF lines[k + 1] = 1 THEN 1 ELSE 0
<1>1. k \in Int /\ 1 \in Int
  OBVIOUS
<1>2. IsFiniteSet(1 .. k)
  BY <1>1, FS_Interval
<1>3. IsFiniteSet(Singles(lines, k)) /\ Cardinality(Singles(lines, k)) \in Nat
  <2>1. Singles(lines, k) \subseteq 1 .. k
    BY DEF Singles
  <2>2. IsFiniteSet(Singles(lines, k))
    BY <1>2, <2>1, FS_Subset
  <2>3. QED
    BY <2>2, FS_CardinalityType
<1>4. Cardinality(Singles(lines, 0)) = 0
  <2>1. Singles(lines, 0) = {}
    BY DEF Singles
  <2>2. QED
    BY <2>1, FS_EmptySet
<1>5. CASE lines[k + 1] = 1
  <2>1. Singles(lines, k + 1) = Singles(lines, k) \cup {k + 1} /\ k + 1 \notin Singles(lines, k)
    BY <1>5 DEF Singles
  <2>2. Cardinality(Singles(lines, k) \cup {k + 1}) = Cardinality(Singles(lines, k)) + 1
    BY <1>3, <2>1, FS_AddElement
  <2>3. QED
    BY <1>3, <1>4, <1>5, <2>1, <2>2
<1>6. CASE lines[k + 1] # 1
  <2>1. Singles(lines, k + 1) = Singles(lines, k)
    BY <1>6 DEF Singles
  <2>2. QED
    BY <1>3, <1>4, <1>6, <2>1
<1>7. QED
  BY <1>5, <1>6

\* What reading k lines has come to: all of them, or those before the one that
\* ended it.
ReadSoFar(lines, k) ==
    LET read == ReadUpTo(lines)[k]
    IN \/ /\ ~read.stop /\ read.error = "none" /\ Runs(lines, k)
          /\ read.multi <=> \E i \in 1 .. k : lines[i] > 1
          /\ ~read.multi => read.tokens = Cardinality(Singles(lines, k))
       \/ /\ read.stop
          /\ \E d \in 1 .. k :
                /\ Runs(lines, d - 1) /\ lines[d] \in {Done, Malformed}
                /\ read.error = "none" <=> lines[d] = Done
                /\ read.multi <=> \E i \in 1 .. d - 1 : lines[i] > 1
                /\ lines[d] = Done /\ ~read.multi =>
                      read.tokens = Cardinality(Singles(lines, d - 1))

\* The recursion keeps count: tokens of single-token lines, up to the end.
LEMMA ReadingTells ==
    ASSUME NEW lines \in Seq(Lines)
    PROVE  \A k \in 0 .. Len(lines) : ReadSoFar(lines, k)
<1> DEFINE n == Len(lines)
           g == ReadUpTo(lines)
           S == {k \in Nat : k <= n => ReadSoFar(lines, k)}
<1>1. /\ g \in [0 .. n -> Read] /\ g[0] = Unread /\ n \in Nat
      /\ \A k \in 1 .. n : g[k] = ConsumeLine(lines[k], g[k - 1])
  BY ReadUpToDefined
<1>2. 0 \in S
  <2>1. Cardinality(Singles(lines, 0)) = 0
    BY SinglesFinite
  <2>2. Runs(lines, 0) /\ ~\E i \in 1 .. 0 : lines[i] > 1
    BY DEF Runs
  <2>3. ReadSoFar(lines, 0)
    BY <1>1, <2>1, <2>2 DEF ReadSoFar, Unread
  <2>4. QED
    BY <2>3
<1>3. ASSUME NEW k \in Nat, k \in S, k + 1 <= n
      PROVE  ReadSoFar(lines, k + 1)
  <2> DEFINE line == lines[k + 1]
             old == g[k]
             new == g[k + 1]
  <2>1. /\ k + 1 \in 1 .. n /\ (k + 1) - 1 = k /\ line \in Lines /\ old \in Read
        /\ ReadSoFar(lines, k) /\ new = ConsumeLine(line, old)
    BY <1>1, <1>3
  <2>2. CASE old.stop
    <3>1. new = old
      BY <2>1, <2>2 DEF ConsumeLine
    <3>2. PICK d \in 1 .. k :
                /\ Runs(lines, d - 1) /\ lines[d] \in {Done, Malformed}
                /\ old.error = "none" <=> lines[d] = Done
                /\ old.multi <=> \E i \in 1 .. d - 1 : lines[i] > 1
                /\ lines[d] = Done /\ ~old.multi =>
                      old.tokens = Cardinality(Singles(lines, d - 1))
      BY <2>1, <2>2 DEF ReadSoFar
    <3>3. d \in 1 .. k + 1
      OBVIOUS
    <3> HIDE DEF old, new, line
    <3>4. QED
      BY <2>2, <3>1, <3>2, <3>3 DEF ReadSoFar, old, new
  <2>3. CASE ~old.stop
    <3>1. /\ old.error = "none" /\ Runs(lines, k)
          /\ old.multi <=> \E i \in 1 .. k : lines[i] > 1
          /\ ~old.multi => old.tokens = Cardinality(Singles(lines, k))
      BY <2>1, <2>3 DEF ReadSoFar
    <3>2. CASE line = Done
      <4>1. new = [old EXCEPT !.stop = TRUE]
        BY <2>1, <2>3, <3>2 DEF ConsumeLine
      <4>2. new.stop /\ new.error = old.error /\ new.multi = old.multi /\ new.tokens = old.tokens
        BY <2>1, <4>1 DEF Read
      <4>3. QED
        BY <2>1, <3>1, <3>2, <4>2 DEF ReadSoFar
    <3>3. CASE line = Malformed
      <4>1. new = [old EXCEPT !.stop = TRUE, !.error = "transport", !.tokens = 0]
        BY <2>1, <2>3, <3>3 DEF ConsumeLine, Done, Malformed
      <4>2. new.stop /\ new.error = "transport" /\ new.multi = old.multi
        BY <2>1, <4>1 DEF Read
      <4>3. lines[k + 1] # Done
        BY <3>3 DEF Done, Malformed
      <4>4. QED
        BY <2>1, <3>1, <3>3, <4>2, <4>3 DEF ReadSoFar
    <3>4. CASE line \notin {Done, Malformed}
      <4>1. Runs(lines, k + 1)
        BY <3>1, <3>4 DEF Runs
      <4>2. Cardinality(Singles(lines, k + 1)) = Cardinality(Singles(lines, k)) + IF line = 1 THEN 1 ELSE 0
        BY SinglesFinite
      <4>3. Cardinality(Singles(lines, k)) \in Nat
        BY SinglesFinite
      <4>4. (\E i \in 1 .. k + 1 : lines[i] > 1) <=> (\E i \in 1 .. k : lines[i] > 1) \/ line > 1
        OBVIOUS
      <4>5. CASE line = Comment
        <5>1. new = old
          BY <2>1, <2>3, <3>4, <4>5 DEF ConsumeLine
        <5>2. ~(line > 1) /\ line # 1
          BY <4>5 DEF Comment
        <5>3. QED
          BY <2>3, <3>1, <4>1, <4>2, <4>3, <4>4, <5>1, <5>2 DEF ReadSoFar
      <4>6. CASE line # Comment
        <5>1. new = [old EXCEPT !.tokens = @ + line, !.multi = @ \/ line > 1]
          BY <2>1, <2>3, <3>4, <4>6 DEF ConsumeLine
        <5>2. /\ ~new.stop /\ new.error = "none" /\ new.tokens = old.tokens + line
              /\ new.multi <=> old.multi \/ line > 1
          BY <2>1, <2>3, <3>1, <5>1 DEF Read
        <5>3. line \in 0 .. 2
          BY <2>1, <3>4, <4>6 DEF Lines, Done, Malformed, Comment
        <5>4. ~new.multi => new.tokens = Cardinality(Singles(lines, k + 1))
          BY <3>1, <4>2, <4>3, <5>2, <5>3
        <5>5. QED
          BY <3>1, <4>1, <4>4, <5>2, <5>4 DEF ReadSoFar
      <4>7. QED
        BY <4>5, <4>6
    <3>5. QED
      BY <3>2, <3>3, <3>4
  <2>4. QED
    BY <2>2, <2>3
<1>4. Nat \subseteq S
  <2>1. \A k \in Nat : k \in S => k + 1 \in S
    <3>1. SUFFICES ASSUME NEW k \in Nat, k \in S, k + 1 <= n PROVE ReadSoFar(lines, k + 1)
      OBVIOUS
    <3>2. QED
      BY <1>3, <3>1
  <2> HIDE DEF S
  <2>2. QED
    BY <1>2, <2>1, Inductive
<1>5. QED
  BY <1>4

\* A streamed request is a success exactly if the server answered it perfectly,
\* and then has all its tokens.
LEMMA StreamTells ==
    ASSUME NEW stream \in Streams
    PROVE  /\ StreamRequest(stream).error \in Errors \cup {"escapes"}
           /\ StreamRequest(stream).tokens \in Nat
           /\ StreamRequest(stream).error = "none" <=> Perfect(stream)
           /\ StreamRequest(stream).error = "none" => StreamRequest(stream).tokens = OutputTokens
<1> DEFINE lines == stream.lines
           n == Len(lines)
           got == ReadUpTo(lines)[n]
           read == ConsumeSSE(stream)
           body == {i \in 1 .. n : \A j \in 1 .. i : lines[j] # Done}
           singles == {i \in body : lines[i] = 1}
<1>1. lines \in Seq(Lines) /\ n \in Nat /\ stream.end \in {"eof", "lost", "reset"}
  <2>1. lines \in BoundedSeq(Lines, OutputTokens + 1) /\ stream.end \in {"eof", "lost", "reset"}
    BY DEF Streams
  <2>2. PICK m \in 0 .. OutputTokens + 1 : lines \in [1 .. m -> Lines]
    BY <2>1 DEF BoundedSeq, SeqOf
  <2>3. m \in Nat
    BY LoadAssumption
  <2>4. QED
    BY <2>1, <2>2, <2>3
<1>2. got \in Read /\ ReadSoFar(lines, n) /\ OutputTokens \in Nat
  <2> HIDE DEF lines
  <2>1. ReadUpTo(lines) \in [0 .. n -> Read] /\ n \in 0 .. n
    BY <1>1, ReadUpToDefined
  <2>2. ReadSoFar(lines, n)
    BY <1>1, ReadingTells
  <2>3. QED
    BY <2>1, <2>2, LoadAssumption
<1>3. \A i \in 1 .. n : lines[i] \in -3 .. 2
  BY <1>1 DEF Lines
<1>4. read = IF got.stop \/ stream.end = "eof" THEN got
             ELSE [got EXCEPT !.tokens = 0,
                              !.error = IF stream.end = "lost" THEN "transport" ELSE "escapes"]
  BY DEF ConsumeSSE
<1>5. /\ read.tokens \in Nat /\ read.multi = got.multi
      /\ got.stop \/ stream.end = "eof" => read.error = got.error /\ read.tokens = got.tokens
      /\ ~(got.stop \/ stream.end = "eof") => read.error \in {"transport", "escapes"}
  BY <1>2, <1>4 DEF Read
<1>6. read.error \in {"none", "transport", "escapes"} /\ got.error \in {"none", "transport"} /\ got.multi \in BOOLEAN
  BY <1>2, <1>5 DEF Read
<1>7. /\ StreamRequest(stream).tokens = read.tokens
      /\ StreamRequest(stream).error = IF read.error # "none" THEN read.error
                                       ELSE IF read.tokens # OutputTokens THEN "count"
                                       ELSE IF read.multi THEN "multi" ELSE "none"
  BY DEF StreamRequest
<1> HIDE DEF read, got
<1>8. /\ StreamRequest(stream).error \in Errors \cup {"escapes"}
      /\ StreamRequest(stream).error = "none"
            <=> read.error = "none" /\ read.tokens = OutputTokens /\ ~got.multi
  BY <1>5, <1>6, <1>7 DEF Errors
<1>9. Perfect(stream) <=> /\ Cardinality(body) < n \/ stream.end = "eof"
                          /\ \A i \in body : lines[i] \in {Comment, 0, 1}
                          /\ Cardinality(singles) = OutputTokens
  BY DEF Perfect
<1>10. CASE ~got.stop
  <2>1. /\ got.error = "none" /\ Runs(lines, n)
        /\ got.multi <=> \E i \in 1 .. n : lines[i] > 1
        /\ ~got.multi => got.tokens = Cardinality(Singles(lines, n))
    BY <1>2, <1>10 DEF ReadSoFar, got
  <2>2. body = 1 .. n /\ singles = Singles(lines, n)
    BY <2>1 DEF Runs, Singles
  <2>3. Cardinality(body) = n
    <3>1. n \in Int /\ 1 \in Int
      BY <1>1
    <3> HIDE DEF n, body
    <3>2. Cardinality(1 .. n) = n
      BY <1>1, <3>1, FS_Interval
    <3>3. QED
      BY <2>2, <3>2
  <2>4. (\A i \in body : lines[i] \in {Comment, 0, 1}) <=> ~got.multi
    <3>1. \A i \in 1 .. n : lines[i] \in {Comment, 0, 1} <=> ~(lines[i] > 1)
      BY <1>3, <2>1 DEF Runs, Comment, Done, Malformed
    <3>2. QED
      BY <2>1, <2>2, <3>1
  <2>5. Perfect(stream) <=> /\ stream.end = "eof" /\ ~got.multi
                            /\ Cardinality(Singles(lines, n)) = OutputTokens
    <3> HIDE DEF body, singles, n
    <3>1. ~(Cardinality(body) < n)
      BY <1>1, <2>3
    <3>2. QED
      BY <1>9, <2>2, <2>4, <3>1
  <2>6. read.error = "none" <=> stream.end = "eof"
    BY <1>5, <1>10, <2>1
  <2>7. stream.end = "eof" => read.tokens = got.tokens
    BY <1>5
  <2>8. QED
    BY <1>5, <1>7, <1>8, <2>1, <2>5, <2>6, <2>7
<1>11. CASE got.stop
  <2>1. PICK d \in 1 .. n :
                /\ Runs(lines, d - 1) /\ lines[d] \in {Done, Malformed}
                /\ got.error = "none" <=> lines[d] = Done
                /\ got.multi <=> \E i \in 1 .. d - 1 : lines[i] > 1
                /\ lines[d] = Done /\ ~got.multi =>
                      got.tokens = Cardinality(Singles(lines, d - 1))
    BY <1>2, <1>11 DEF ReadSoFar, got
  <2>2. read.error = got.error /\ read.tokens = got.tokens
    BY <1>5, <1>11
  <2>3. CASE lines[d] = Malformed
    <3>1. d \in body
      BY <2>1, <2>3 DEF Runs, Done, Malformed
    <3>2. lines[d] \notin {Comment, 0, 1}
      BY <2>3 DEF Malformed, Comment
    <3>3. ~Perfect(stream)
      BY <1>9, <3>1, <3>2
    <3>4. got.error # "none"
      BY <2>1, <2>3 DEF Done, Malformed
    <3>5. QED
      BY <1>5, <1>7, <1>8, <2>2, <3>3, <3>4
  <2>4. CASE lines[d] = Done
    <3>1. body = 1 .. d - 1
      <4>1. \A i \in 1 .. n : i \in body <=> i < d
        BY <1>1, <2>1, <2>4 DEF Runs
      <4>2. QED
        BY <1>1, <4>1
    <3>2. Cardinality(body) < n
      <4>1. d - 1 \in Int /\ 1 \in Int /\ d - 1 \in Nat /\ d - 1 < n
        BY <1>1
      <4> HIDE DEF body, n
      <4>2. Cardinality(1 .. (d - 1)) = d - 1
        <5> DEFINE m == d - 1
        <5>1. m \in Int /\ m \in Nat
          BY <4>1
        <5> HIDE DEF m
        <5>2. Cardinality(1 .. m) = m
          BY <4>1, <5>1, FS_Interval
        <5>3. QED
          BY <5>2 DEF m
      <4>3. QED
        BY <3>1, <4>1, <4>2
    <3>3. singles = Singles(lines, d - 1)
      BY <3>1 DEF Singles
    <3>4. (\A i \in body : lines[i] \in {Comment, 0, 1}) <=> ~got.multi
      <4>1. \A i \in 1 .. d - 1 : lines[i] \in {Comment, 0, 1} <=> ~(lines[i] > 1)
        BY <1>1, <1>3, <2>1 DEF Runs, Comment, Done, Malformed
      <4>2. QED
        BY <2>1, <3>1, <4>1
    <3>5. Perfect(stream) <=> ~got.multi /\ Cardinality(Singles(lines, d - 1)) = OutputTokens
      BY <1>9, <3>2, <3>3, <3>4
    <3>6. QED
      BY <1>5, <1>7, <1>8, <2>1, <2>2, <2>4, <3>5
  <2>5. QED
    BY <2>1, <2>3, <2>4
<1>12. QED
  BY <1>10, <1>11

\* A probe that does not raise saw a token or the server sent none.
LEMMA ProbeTells ==
    ASSUME NEW reply \in ProbeReplies
    PROVE  /\ reply.got.error \in Errors \cup {"escapes"} /\ reply.got.tokens \in Nat
           /\ reply.perfect \in BOOLEAN
           /\ reply.got.error # "escapes" => (reply.perfect <=> reply.got.error = "none")
<1>1. PICK s \in Streams :
         reply = [got |-> [tokens |-> 0, error |-> FirstToken(s)],
                  perfect |-> \E i \in DOMAIN s.lines : s.lines[i] > 0]
  BY DEF ProbeReplies
<1> DEFINE hits == {i \in DOMAIN s.lines : s.lines[i] > 0}
           bad == {i \in DOMAIN s.lines : s.lines[i] = Malformed}
<1>2. CASE \E i \in hits : \A j \in bad : i < j
  <2>1. FirstToken(s) = "none"
    BY <1>2 DEF FirstToken
  <2>2. QED
    BY <1>1, <1>2, <2>1 DEF Errors
<1>3. CASE ~(\E i \in hits : \A j \in bad : i < j) /\ hits = {} /\ bad = {} /\ s.end = "eof"
  <2>1. FirstToken(s) = "untouched"
    BY <1>3 DEF FirstToken
  <2>2. QED
    BY <1>1, <1>3, <2>1 DEF Errors
<1>4. CASE ~(\E i \in hits : \A j \in bad : i < j) /\ ~(hits = {} /\ bad = {} /\ s.end = "eof")
  <2>1. FirstToken(s) = "escapes"
    BY <1>4 DEF FirstToken
  <2>2. QED
    BY <1>1, <2>1 DEF Errors
<1>5. QED
  BY <1>2, <1>3, <1>4

\* Whichever way a request is sent, what is recorded of it tells whether it was
\* answered as asked, unless its exception goes through.
LEMMA RepliesTell ==
    ASSUME NEW prog, NEW kind, NEW reply \in Replies(prog, kind)
    PROVE  /\ reply.got.error \in Errors \cup {"escapes"} /\ reply.got.tokens \in Nat
           /\ reply.perfect \in BOOLEAN
           /\ reply.got.error # "escapes" => (reply.perfect <=> reply.got.error = "none")
           /\ prog # "cancel" /\ reply.perfect => reply.got.tokens = OutputTokens
           /\ prog # "cancel" /\ reply.got.error = "none" => reply.got.tokens = OutputTokens
<1>1. CASE prog = "cancel"
  <2>1. reply \in ProbeReplies
    BY <1>1 DEF Replies
  <2>2. QED
    BY <1>1, <2>1, ProbeTells
<1>2. ASSUME NEW failure \in {"escapes", "transport"}, reply \in LocalReplies(failure)
      PROVE  /\ reply.got.error \in Errors \cup {"escapes"} /\ reply.got.tokens \in Nat
             /\ reply.perfect \in BOOLEAN
             /\ reply.perfect <=> reply.got.error = "none"
             /\ reply.perfect => reply.got.tokens = OutputTokens
  <2>1. OutputTokens \in Nat
    BY LoadAssumption
  <2>2. CASE reply = [got |-> [tokens |-> OutputTokens, error |-> "none"], perfect |-> TRUE]
    BY <2>1, <2>2 DEF Errors
  <2>3. CASE reply = [got |-> [tokens |-> 0, error |-> failure], perfect |-> FALSE]
    BY <1>2, <2>3 DEF Errors
  <2>4. QED
    BY <1>2, <2>2, <2>3 DEF LocalReplies
<1>3. CASE prog \in {"torch", "offline", "sweep"}
  <2>1. reply \in LocalReplies("escapes") \/ reply \in LocalReplies("transport")
    <3>1. prog = "torch" => reply \in LocalReplies(IF kind = "cold" THEN "escapes" ELSE "transport")
      BY DEF Replies
    <3>2. prog \in {"offline", "sweep"} => reply \in LocalReplies("escapes")
      BY DEF Replies
    <3>3. QED
      BY <1>3, <3>1, <3>2
  <2>2. QED
    BY <1>2, <2>1
<1>4. CASE prog \notin {"cancel", "torch", "offline", "sweep"}
  <2>1. reply \in StreamReplies
    BY <1>4 DEF Replies
  <2>2. PICK s \in Streams : reply = [got |-> StreamRequest(s), perfect |-> Perfect(s)]
    BY <2>1 DEF StreamReplies
  <2>3. reply.got = StreamRequest(s) /\ (reply.perfect = Perfect(s))
    BY <2>2
  <2>4. Perfect(s) \in BOOLEAN
    BY DEF Perfect
  <2>5. QED
    BY <2>3, <2>4, StreamTells
<1>5. QED
  BY <1>1, <1>3, <1>4

\* What a program can have as a stage.
StageSet == [kind : {"cold", "warmup", "measured"}, labels : Seq(Labels), workers : Nat,
             gate : {"first", "all", "never"}]

\* Requests of no particular length are labelled so.
LEMMA PlainLabels == ASSUME NEW n \in Nat PROVE Plain(n) \in Seq(Labels)
BY DEF Plain, Labels

\* The larger of two numbers is one of them and no smaller than either.
LEMMA MaxOfTwo ==
    ASSUME NEW a \in Nat, NEW b \in Nat
    PROVE  Max({a, b}) \in {a, b}
<1>1. \E x \in {a, b} : \A y \in {a, b} : x >= y
  <2>1. CASE a >= b
    BY <2>1
  <2>2. CASE b >= a
    BY <2>2
  <2>3. QED
    BY <2>1, <2>2
<1>2. QED
  BY <1>1 DEF Max

\* The options of a run.
LEMMA SettingFacts ==
    ASSUME NEW s \in Settings
    PROVE  /\ s.prog \in {"serving", "mixed", "soak", "overload", "torch", "cancel", "offline", "sweep"}
           /\ s.shell \in {"script", "kernellab", "dry"}
           /\ s.labels \in Seq(Labels)
           /\ s.warmups \in Nat /\ s.workers \in Nat /\ s.rounds \in Nat
<1>1. /\ s.prog \in {"serving", "mixed", "soak", "overload", "torch", "cancel", "offline", "sweep"}
      /\ s.shell \in {"script", "kernellab", "dry"}
      /\ s.labels \in LabelsOf(s.prog)
      /\ s.warmups \in Counts /\ s.workers \in Counts /\ s.rounds \in Counts
  BY DEF Settings
<1>2. MaxCount \in Nat /\ TailRepetitions \in Nat
  BY LoadAssumption
<1>3. s.warmups \in Nat /\ s.workers \in Nat /\ s.rounds \in Nat
  BY <1>1, <1>2 DEF Counts
<1>4. \A n \in 0 .. MaxCount : Plain(n) \in Seq(Labels)
  BY <1>2, PlainLabels
<1>5. Plain(Max({TailRepetitions, 4})) \in Seq(Labels)
  <2>1. Max({TailRepetitions, 4}) \in Nat
    BY <1>2, MaxOfTwo
  <2>2. QED
    BY <2>1, PlainLabels
<1>6. s.labels \in Seq(Labels)
  <2>1. CASE s.prog = "mixed"
    <3>1. s.labels \in {<<"short", "long">>, <<"long", "short">>, <<>>}
      BY <1>1, <2>1 DEF LabelsOf
    <3>2. /\ <<"short", "long">> \in Seq(Labels) /\ <<"long", "short">> \in Seq(Labels)
          /\ <<>> \in Seq(Labels)
      BY DEF Labels
    <3>3. QED
      BY <3>1, <3>2
  <2>2. CASE s.prog = "overload"
    <3>1. s.labels = Plain(Max({TailRepetitions, 4 * 1})) \/ s.labels \in {Plain(n) : n \in 0 .. MaxCount}
      BY <1>1, <2>2 DEF LabelsOf
    <3>2. 4 * 1 = 4
      OBVIOUS
    <3>3. QED
      BY <1>4, <1>5, <3>1, <3>2
  <2>3. CASE s.prog \notin {"mixed", "overload"}
    <3>1. s.labels \in {Plain(n) : n \in 0 .. MaxCount}
      BY <1>1, <2>3 DEF LabelsOf
    <3>2. QED
      BY <1>4, <3>1
  <2>4. QED
    BY <2>1, <2>2, <2>3
<1>7. QED
  BY <1>1, <1>3, <1>6

\* Rounds repeat the stages of a block.
LEMMA RoundsTyped ==
    ASSUME NEW n \in Nat, NEW block \in Seq(StageSet), Len(block) \in {1, 2}
    PROVE  Rounds(n, block) \in Seq(StageSet)
<1> DEFINE m == n * Len(block)
<1>1. m \in Nat
  <2>1. CASE Len(block) = 1
    BY <2>1
  <2>2. CASE Len(block) = 2
    BY <2>2
  <2>3. QED
    BY <2>1, <2>2
<1>2. \A k \in 1 .. m : block[((k - 1) % Len(block)) + 1] \in StageSet
  <2> TAKE k \in 1 .. m
  <2>0. k - 1 \in Int
    BY <1>1
  <2>1. ((k - 1) % Len(block)) + 1 \in 1 .. Len(block)
    <3>1. CASE Len(block) = 1
      BY <2>0, <3>1
    <3>2. CASE Len(block) = 2
      BY <2>0, <3>2
    <3>3. QED
      BY <3>1, <3>2
  <2>2. QED
    BY <2>1
<1>3. Rounds(n, block) = [k \in 1 .. m |-> block[((k - 1) % Len(block)) + 1]]
  BY DEF Rounds
<1> HIDE DEF m
<1>4. QED
  BY <1>1, <1>2, <1>3

\* Every program is a sequence of stages.
LEMMA StagesTyped ==
    ASSUME NEW s \in Settings
    PROVE  Stages(s) \in Seq(StageSet)
<1>1. /\ s.prog \in {"serving", "mixed", "soak", "overload", "torch", "cancel", "offline", "sweep"}
      /\ s.labels \in Seq(Labels)
      /\ s.warmups \in Nat /\ s.workers \in Nat /\ s.rounds \in Nat
  BY SettingFacts
<1>2. \A n \in Nat : Plain(n) \in Seq(Labels)
  BY PlainLabels
<1>3. ASSUME NEW kind \in {"cold", "warmup", "measured"}, NEW labels \in Seq(Labels), NEW pool \in Nat,
             NEW gate \in {"first", "all", "never"}
      PROVE  Stage(kind, labels, pool, gate) \in StageSet
  BY DEF Stage, StageSet
<1>4. /\ Cold \in StageSet /\ Pooled(s) \in StageSet /\ Inline(s) \in StageSet /\ FullPool(s) \in StageSet
  BY <1>1, <1>2, <1>3 DEF Cold, Pooled, Inline, FullPool
<1>5. CASE s.prog = "serving"
  <2>1. Stages(s) = <<Cold, Stage("warmup", Plain(s.warmups), 0, "first"), Pooled(s)>>
    BY <1>5 DEF Stages, ProgramOf, Serving, Program
  <2>2. Stage("warmup", Plain(s.warmups), 0, "first") \in StageSet
    BY <1>1, <1>2, <1>3
  <2>3. QED
    BY <1>4, <2>1, <2>2
<1>6. CASE s.prog = "mixed"
  <2>1. Stages(s) = <<Stage("warmup", <<"short", "long">>, 0, "first"), Pooled(s)>>
    BY <1>6 DEF Stages, ProgramOf, Mixed, Program
  <2>2. <<"short", "long">> \in Seq(Labels)
    BY DEF Labels
  <2>3. Stage("warmup", <<"short", "long">>, 0, "first") \in StageSet
    BY <1>3, <2>2
  <2>4. QED
    BY <1>4, <2>1, <2>3
<1>7. CASE s.prog = "soak"
  <2> DEFINE block == <<Stage("measured", Plain(s.workers), s.workers, "never")>>
  <2>1. Stages(s) = <<FullPool(s)>> \o Rounds(s.rounds, block)
    BY <1>7 DEF Stages, ProgramOf, Soak, Program
  <2>2. block \in Seq(StageSet) /\ Len(block) = 1
    BY <1>1, <1>2, <1>3
  <2> HIDE DEF block
  <2>3. Rounds(s.rounds, block) \in Seq(StageSet)
    BY <1>1, <2>2, RoundsTyped
  <2>4. <<FullPool(s)>> \in Seq(StageSet)
    BY <1>4
  <2>5. QED
    BY <2>1, <2>3, <2>4
<1>8. CASE s.prog = "overload"
  <2>1. Stages(s) = <<FullPool(s), Pooled(s)>>
    BY <1>8 DEF Stages, ProgramOf, Overload, Program
  <2>2. QED
    BY <1>4, <2>1
<1>9. CASE s.prog = "torch"
  <2> DEFINE warmups == IF s.warmups = 0 THEN 0 ELSE Max({s.warmups, s.workers})
  <2>1. Stages(s) = <<Cold, Stage("warmup", Plain(warmups), s.workers, "never"), Pooled(s)>>
    BY <1>9 DEF Stages, ProgramOf, Torch, Program
  <2>2. warmups \in Nat
    BY <1>1, MaxOfTwo
  <2> HIDE DEF warmups
  <2>3. Stage("warmup", Plain(warmups), s.workers, "never") \in StageSet
    BY <1>1, <1>2, <1>3, <2>2
  <2>4. QED
    BY <1>4, <2>1, <2>3
<1>10. CASE s.prog = "cancel"
  <2>1. Stages(s) = <<Inline(s)>>
    BY <1>10 DEF Stages, ProgramOf, Cancel, Program
  <2>2. QED
    BY <1>4, <2>1
<1>11. CASE s.prog = "offline"
  <2>1. Stages(s) = <<Stage("warmup", Plain(s.warmups), 0, "never"), Inline(s)>>
    BY <1>11 DEF Stages, ProgramOf, Offline, Program
  <2>2. Stage("warmup", Plain(s.warmups), 0, "never") \in StageSet
    BY <1>1, <1>2, <1>3
  <2>3. QED
    BY <1>4, <2>1, <2>2
<1>12. CASE s.prog = "sweep"
  <2> DEFINE block == <<Stage("warmup", Plain(s.warmups), 0, "never"), Inline(s)>>
  <2>1. Stages(s) = Rounds(s.rounds, block)
    BY <1>12 DEF Stages, ProgramOf, Sweep, Program
  <2>2. Stage("warmup", Plain(s.warmups), 0, "never") \in StageSet
    BY <1>1, <1>2, <1>3
  <2>3. block \in Seq(StageSet) /\ Len(block) = 2
    BY <1>4, <2>2
  <2> HIDE DEF block
  <2>4. QED
    BY <1>1, <2>1, <2>3, RoundsTyped
<1>13. QED
  BY <1>1, <1>5, <1>6, <1>7, <1>8, <1>9, <1>10, <1>11, <1>12

\* The stages of a run stay what they are.
LEMMA LoadRigid ==
    ASSUME setting' = setting
    PROVE  /\ LastStage' = LastStage /\ MeasuredIds' = MeasuredIds
           /\ Stages(setting)' = Stages(setting)
           /\ \A k, i : (<<k, i>> \in MeasuredIds)' = (<<k, i>> \in MeasuredIds)
BY DEF LastStage, MeasuredIds

\* The running stage is one of the program.
LEMMA StageFacts ==
    ASSUME LoadInv
    PROVE  /\ LastStage \in Nat /\ Stages(setting) \in Seq(StageSet)
           /\ DOMAIN Stages(setting) = 1 .. LastStage
           /\ \A k \in 1 .. LastStage : /\ Stages(setting)[k] \in StageSet
                                        /\ Stages(setting)[k].labels \in Seq(Labels)
                                        /\ Len(Stages(setting)[k].labels) \in Nat
                                        /\ DOMAIN Stages(setting)[k].labels = 1 .. Len(Stages(setting)[k].labels)
<1>1. Stages(setting) \in Seq(StageSet)
  BY StagesTyped DEF LoadInv, LoadTypeOK
<1>2. LastStage \in Nat /\ DOMAIN Stages(setting) = 1 .. LastStage
  BY <1>1 DEF LastStage
<1>3. \A k \in 1 .. LastStage : Stages(setting)[k] \in StageSet
  BY <1>1, <1>2
<1>4. \A k \in 1 .. LastStage : Stages(setting)[k].labels \in Seq(Labels)
  BY <1>3 DEF StageSet
<1>5. QED
  BY <1>1, <1>2, <1>3, <1>4

\* A measured request is named by its stage and its place in it.
LEMMA MeasuredFacts ==
    ASSUME LoadInv
    PROVE  /\ \A id \in MeasuredIds : /\ id[1] \in 1 .. LastStage /\ id = <<id[1], id[2]>>
                                      /\ Stages(setting)[id[1]].kind = "measured"
                                      /\ id[2] \in DOMAIN Stages(setting)[id[1]].labels
           /\ \A k \in 1 .. LastStage : \A i \in DOMAIN Stages(setting)[k].labels :
                 Stages(setting)[k].kind = "measured" => <<k, i>> \in MeasuredIds
<1>1. DOMAIN Stages(setting) = 1 .. LastStage
  BY StageFacts
<1>2. ASSUME NEW id \in MeasuredIds
      PROVE  /\ id[1] \in 1 .. LastStage /\ id = <<id[1], id[2]>>
             /\ Stages(setting)[id[1]].kind = "measured"
             /\ id[2] \in DOMAIN Stages(setting)[id[1]].labels
  <2>1. PICK k \in DOMAIN Stages(setting) : /\ Stages(setting)[k].kind = "measured"
                                            /\ id \in {<<k, i>> : i \in DOMAIN Stages(setting)[k].labels}
    BY DEF MeasuredIds
  <2>2. PICK i \in DOMAIN Stages(setting)[k].labels : id = <<k, i>>
    BY <2>1
  <2>3. id[1] = k /\ id[2] = i
    BY <2>2
  <2>4. QED
    BY <1>1, <2>1, <2>2, <2>3
<1>3. ASSUME NEW k \in 1 .. LastStage, NEW i \in DOMAIN Stages(setting)[k].labels,
             Stages(setting)[k].kind = "measured"
      PROVE  <<k, i>> \in MeasuredIds
  BY <1>1, <1>3 DEF MeasuredIds
<1>4. QED
  BY <1>2, <1>3

\* A report depends on nothing but the options and the samples.
LEMMA ReportKept ==
    ASSUME UNCHANGED <<setting, samples>>
    PROVE  Report(setting)' = Report(setting) /\ ExitCode' = ExitCode
<1>1. setting' = setting /\ samples' = samples
  OBVIOUS
<1>2. ExitCode' = ExitCode
  BY <1>1 DEF ExitCode
<1>3. Report(setting)' = Report(setting)
  BY <1>1 DEF Report, Aggregate, Cohort
<1>4. QED
  BY <1>2, <1>3

\* A program starts with nothing sent.
LEMMA LoadInitInv == LoadInit => LoadInv
<1> SUFFICES ASSUME LoadInit PROVE LoadInv
  OBVIOUS
<1> USE DEF LoadInit, Running
<1>1. Stages(setting) \in Seq(StageSet) /\ LastStage \in Nat
  BY StagesTyped DEF LastStage
<1>2. LoadTypeOK
  <2>1. stage \in 0 .. LastStage + 1 /\ open \subseteq 1 .. begun
    BY <1>1
  <2>2. group \in Seq(Sample) /\ samples \in Seq(Sample)
    OBVIOUS
  <2>3. setting \in Settings /\ begun \in Nat /\ escaped \in BOOLEAN /\ cheated \in BOOLEAN
    OBVIOUS
  <2>4. exit \in {Running, 0, 1, 2} /\ status \in {Running, 0, 1, 2}
    OBVIOUS
  <2>5. QED
    BY <2>1, <2>2, <2>3, <2>4 DEF LoadTypeOK
<1>3. StageInv
  BY <1>1 DEF StageInv
<1>4. GroupInv
  BY DEF GroupInv, Ended
<1>5. CleanInv
  BY DEF CleanInv
<1>6. \A id \in MeasuredIds : ~(id[1] < 0)
  <2> TAKE id \in MeasuredIds
  <2>1. PICK k \in DOMAIN Stages(setting) : id \in {<<k, i>> : i \in DOMAIN Stages(setting)[k].labels}
    BY DEF MeasuredIds
  <2>2. id[1] = k /\ k \in Nat
    BY <1>1, <2>1
  <2>3. QED
    BY <2>2
<1>7. SamplesInv
  BY <1>6 DEF SamplesInv
<1>8. DoomInv
  BY <1>1 DEF DoomInv
<1>9. DiskInv
  BY DEF DiskInv
<1>10. StatusInv
  BY DEF StatusInv
<1>11. QED
  BY <1>2, <1>3, <1>4, <1>5, <1>7, <1>8, <1>9, <1>10 DEF LoadInv

\* Before the first stage nothing has been answered or collected.
LEMMA NothingYet ==
    ASSUME LoadInv, stage = 0
    PROVE  /\ begun = 0 /\ open = {} /\ group = <<>> /\ samples = <<>> /\ Ended = {}
           /\ exit = Running => clean = {}
           /\ ~escaped /\ ~cheated /\ disk \in {NoFile, OldFile}
<1>1. LastStage \in Nat
  BY StageFacts
<1>2. begun = 0 /\ open = {} /\ group = <<>>
  BY <1>1 DEF LoadInv, StageInv
<1>3. Ended = {}
  BY <1>2 DEF Ended
<1>4. \A id \in MeasuredIds : id[1] \in Nat /\ ~(id[1] < stage) /\ id[1] # stage
  BY <1>1, MeasuredFacts
<1>5. exit = Running => clean = {}
  BY <1>4 DEF LoadInv, CleanInv
<1>6. samples = <<>>
  <2>1. samples \in Seq(Sample)
    BY DEF LoadInv, LoadTypeOK
  <2>2. DOMAIN samples = {}
    BY <1>4 DEF LoadInv, SamplesInv
  <2>3. QED
    BY <2>1, <2>2
<1>7. ~escaped /\ ~cheated
  BY <1>1 DEF LoadInv, DoomInv
<1>8. disk \in {NoFile, OldFile}
  BY <1>1 DEF LoadInv, DiskInv
<1>9. QED
  BY <1>2, <1>3, <1>5, <1>6, <1>7, <1>8

\* Starting the program keeps the invariant.
LEMMA LaunchKeepsInv == LoadInv /\ Launch => LoadInv'
<1> SUFFICES ASSUME LoadInv, Launch PROVE LoadInv'
  OBVIOUS
<1>1. /\ setting.shell # "dry" /\ exit = Running /\ stage = 0
      /\ exit' \in {Running, 1, 2} /\ stage' \in {0, 1}
      /\ stage' = 1 => exit' = Running
      /\ UNCHANGED <<setting, begun, open, group, escaped, samples, disk, status, clean, cheated>>
  BY DEF Launch
<1>2. /\ begun = 0 /\ open = {} /\ group = <<>> /\ samples = <<>> /\ clean = {}
      /\ ~escaped /\ ~cheated /\ disk \in {NoFile, OldFile}
  BY <1>1, NothingYet
<1>3. /\ LastStage' = LastStage /\ MeasuredIds' = MeasuredIds /\ Stages(setting)' = Stages(setting)
      /\ LastStage \in Nat
  BY <1>1, LoadRigid, StageFacts
<1>4. LoadTypeOK'
  BY <1>1, <1>2, <1>3 DEF LoadInv, LoadTypeOK
<1>5. StageInv'
  <2>1. stage' \in 1 .. LastStage => Len(Stages(setting)[stage'].labels) \in Nat
    BY StageFacts
  <2>2. QED
    BY <1>1, <1>2, <1>3, <2>1 DEF StageInv, Current
<1>6. Ended' = {}
  BY <1>1, <1>2 DEF Ended
<1>7. GroupInv'
  BY <1>1, <1>2, <1>6 DEF GroupInv
<1>8. CleanInv'
  BY <1>1, <1>2 DEF CleanInv
<1>9. SamplesInv'
  <2>1. \A id \in MeasuredIds : ~(id[1] < stage')
    BY <1>1, <1>3, MeasuredFacts
  <2>2. QED
    BY <1>1, <1>2, <1>3, <2>1 DEF SamplesInv
<1>10. DoomInv'
  BY <1>1, <1>2 DEF DoomInv
<1>11. DiskInv'
  BY <1>1, <1>2 DEF DiskInv, Running
<1>12. StatusInv'
  BY <1>1 DEF LoadInv, StatusInv
<1>13. QED
  BY <1>4, <1>5, <1>7, <1>8, <1>9, <1>10, <1>11, <1>12 DEF LoadInv

\* A request goes out: nothing has ended.
LEMMA SendRequestKeepsInv == LoadInv /\ SendRequest => LoadInv'
<1> SUFFICES ASSUME LoadInv, SendRequest PROVE LoadInv'
  OBVIOUS
<1>1. /\ stage \in 1 .. LastStage /\ exit = Running
      /\ begun < Len(Current.labels)
      /\ begun' = begun + 1 /\ open' = open \cup {begun + 1}
      /\ setting' = setting /\ stage' = stage /\ group' = group /\ escaped' = escaped
      /\ samples' = samples /\ disk' = disk /\ exit' = exit /\ status' = status
      /\ clean' = clean /\ cheated' = cheated
  BY DEF SendRequest, InStage, LastStage
<1>2. /\ LastStage' = LastStage /\ MeasuredIds' = MeasuredIds /\ Stages(setting)' = Stages(setting)
      /\ LastStage \in Nat /\ Len(Current.labels) \in Nat
      /\ begun \in Nat /\ open \subseteq 1 .. begun
  BY <1>1, LoadRigid, StageFacts DEF LoadInv, LoadTypeOK, Current
<1>3. LoadTypeOK'
  BY <1>1, <1>2 DEF LoadInv, LoadTypeOK
<1>4. StageInv'
  BY <1>1, <1>2 DEF StageInv, Current
<1>5. Ended' = Ended
  BY <1>1, <1>2 DEF Ended
<1>6. GroupInv'
  BY <1>1, <1>2, <1>5 DEF LoadInv, GroupInv, Tells
<1>7. CleanInv'
  BY <1>1, <1>2, <1>5 DEF LoadInv, CleanInv
<1>8. SamplesInv'
  BY <1>1, <1>2 DEF LoadInv, SamplesInv, Tells
<1>9. DoomInv'
  BY <1>1, <1>2 DEF LoadInv, DoomInv, GivesUp, Current
<1>10. DiskInv'
  BY <1>1, <1>2, ReportKept DEF LoadInv, DiskInv
<1>11. StatusInv'
  BY <1>1 DEF LoadInv, StatusInv
<1>12. QED
  BY <1>3, <1>4, <1>6, <1>7, <1>8, <1>9, <1>10, <1>11 DEF LoadInv

\* A request ends: its sample says what the server did, or its exception went through.
LEMMA EndRequestKeepsInv ==
    ASSUME LoadInv, NEW i, EndRequest(i)
    PROVE  LoadInv'
<1>1. PICK reply \in Replies(setting.prog, Current.kind) :
          /\ escaped' = (escaped \/ reply.got.error = "escapes")
          /\ group' = IF reply.got.error = "escapes" THEN group
                      ELSE Append(group, [id |-> <<1, i>>, label |-> Current.labels[i],
                                          tokens |-> reply.got.tokens,
                                          error |-> reply.got.error])
          /\ clean' = IF Current.kind = "measured" /\ reply.perfect
                      THEN clean \cup {<<stage, i>>} ELSE clean
          /\ cheated' = (cheated \/ (/\ Current.kind # "measured"
                                     /\ Current.gate # "never"
                                     /\ ~reply.perfect))
  BY DEF EndRequest
<1>2. /\ stage \in 1 .. LastStage /\ exit = Running /\ i \in open /\ open' = open \ {i}
      /\ setting' = setting /\ stage' = stage /\ begun' = begun
      /\ samples' = samples /\ disk' = disk /\ exit' = exit /\ status' = status
  BY DEF EndRequest, InStage, LastStage
<1>3. /\ LastStage' = LastStage /\ MeasuredIds' = MeasuredIds /\ Stages(setting)' = Stages(setting)
      /\ LastStage \in Nat /\ Len(Current.labels) \in Nat /\ Current \in StageSet
      /\ DOMAIN Current.labels = 1 .. Len(Current.labels) /\ Current.labels \in Seq(Labels)
      /\ Current = Stages(setting)[stage] /\ Current' = Current
      /\ begun \in Nat /\ begun <= Len(Current.labels) /\ open \subseteq 1 .. begun
  BY <1>2, LoadRigid, StageFacts DEF LoadInv, LoadTypeOK, StageInv, Current
<1>4. /\ i \in Nat /\ i \in DOMAIN Current.labels /\ Current.labels[i] \in Labels
      /\ i \notin Ended /\ Ended' = Ended \cup {i}
  BY <1>2, <1>3 DEF Ended
<1>5. /\ reply.got.error \in Errors \cup {"escapes"} /\ reply.got.tokens \in Nat
      /\ reply.perfect \in BOOLEAN
      /\ reply.got.error # "escapes" => (reply.perfect <=> reply.got.error = "none")
      /\ setting.prog # "cancel" /\ reply.got.error = "none" => reply.got.tokens = OutputTokens
  BY <1>1, RepliesTell
<1>a. PICK new : new = [id |-> <<1, i>>, label |-> Current.labels[i], tokens |-> reply.got.tokens,
                        error |-> reply.got.error]
  OBVIOUS
<1>6. reply.got.error # "escapes" => new \in Sample
  BY <1>4, <1>5, <1>a DEF Sample
<1>7. /\ group \in Seq(Sample) /\ samples \in Seq(Sample) /\ GroupInv /\ SamplesInv /\ CleanInv
      /\ escaped \in BOOLEAN /\ cheated \in BOOLEAN /\ DoomInv
  BY DEF LoadInv, LoadTypeOK
<1>8. group' \in Seq(Sample)
  BY <1>1, <1>6, <1>7, <1>a
<1>9. LoadTypeOK'
  <2>1. escaped' \in BOOLEAN /\ cheated' \in BOOLEAN
    BY <1>1
  <2>2. open' \subseteq 1 .. begun'
    BY <1>2, <1>3
  <2>3. QED
    BY <1>2, <1>3, <1>8, <2>1, <2>2 DEF LoadInv, LoadTypeOK
<1>10. StageInv'
  BY <1>2, <1>3 DEF StageInv
<1>11. \A k, j : <<k, j>> \in clean' <=> \/ <<k, j>> \in clean
                                         \/ Current.kind = "measured" /\ reply.perfect /\ k = stage /\ j = i
  BY <1>1
<1>12. <<stage, i>> \notin clean
  <2>1. SUFFICES ASSUME <<stage, i>> \in clean PROVE FALSE
    OBVIOUS
  <2>2. i \in Ended \/ stage < stage
    BY <1>2, <1>7, <2>1 DEF CleanInv
  <2>3. QED
    BY <1>2, <1>3, <1>4, <2>2
<1>13. \A s, k, j : Tells(s, k, j) /\ ~(k = stage /\ j = i) => Tells(s, k, j)'
  BY <1>2, <1>3, <1>11 DEF Tells
<1>14. ASSUME reply.got.error # "escapes" PROVE Tells(new, stage, i)'
  <2>1. i \in DOMAIN Stages(setting)[stage].labels /\ new.label = Stages(setting)[stage].labels[i]
    BY <1>3, <1>4, <1>a
  <2>2. Current.kind = "measured" => (~Failed(new) <=> <<stage, i>> \in clean')
    BY <1>5, <1>11, <1>12, <1>14, <1>a DEF Failed
  <2>3. ~Failed(new) /\ setting.prog # "cancel" => new.tokens = OutputTokens
    BY <1>5, <1>a DEF Failed
  <2>4. QED
    BY <1>2, <1>3, <2>1, <2>2, <2>3 DEF Tells
<1>15. ASSUME NEW j \in DOMAIN group
       PROVE  \E h \in Ended : group[j].id = <<1, h>> /\ Tells(group[j], stage, h) /\ h # i
  BY <1>4, <1>7 DEF GroupInv
<1>16. GroupInv'
  <2>1. CASE reply.got.error = "escapes"
    <3>1. escaped' /\ group' = group
      BY <1>1, <2>1
    <3>2. ASSUME NEW j \in DOMAIN group'
          PROVE  \E h \in Ended' : group'[j].id = <<1, h>> /\ Tells(group[j], stage, h)'
      <4>1. PICK h \in Ended : group[j].id = <<1, h>> /\ Tells(group[j], stage, h) /\ h # i
        BY <1>15, <3>1
      <4>2. PICK s : s = group[j]
        OBVIOUS
      <4>3. Tells(s, stage, h) /\ s = group'[j]
        BY <3>1, <4>1, <4>2
      <4>4. PICK k : k = stage
        OBVIOUS
      <4>5. Tells(s, k, h)'
        BY <1>13, <4>1, <4>3, <4>4
      <4>6. Tells(group[j], stage, h)'
        BY <1>2, <4>3, <4>4, <4>5
      <4>7. QED
        BY <1>4, <3>1, <4>1, <4>6
    <3>3. QED
      BY <1>7, <3>1, <3>2 DEF GroupInv
  <2>2. CASE reply.got.error # "escapes"
    <3>1. escaped' = escaped /\ group' = Append(group, new)
      BY <1>1, <1>7, <1>a, <2>2
    <3>2. new.id = <<1, i>> /\ new \in Sample
      BY <1>6, <1>a, <2>2
    <3>3. PICK n \in Nat : n = Len(group)
      BY <1>7
    <3>4. /\ DOMAIN group = 1 .. n /\ DOMAIN group' = 1 .. n + 1 /\ group'[n + 1] = new
          /\ \A j \in 1 .. n : group'[j] = group[j]
      BY <1>6, <1>7, <2>2, <3>1, <3>3
    <3>5. ASSUME NEW j \in DOMAIN group'
          PROVE  \E h \in Ended' : group'[j].id = <<1, h>> /\ Tells(group[j], stage, h)'
      <4>1. PICK k : k = stage
        OBVIOUS
      <4>2. CASE j = n + 1
        <5>1. PICK s : s = new
          OBVIOUS
        <5>2. Tells(s, k, i)'
          BY <1>2, <1>14, <2>2, <4>1, <5>1
        <5>3. Tells(group[j], stage, i)'
          BY <1>2, <3>4, <4>1, <4>2, <5>1, <5>2
        <5>4. QED
          BY <1>4, <3>2, <3>4, <4>2, <5>3
      <4>3. CASE j \in 1 .. n
        <5>1. PICK h \in Ended : group[j].id = <<1, h>> /\ Tells(group[j], stage, h) /\ h # i
          BY <1>15, <3>4, <4>3
        <5>2. PICK s : s = group[j]
          OBVIOUS
        <5>3. Tells(s, k, h)'
          BY <1>13, <4>1, <5>1, <5>2
        <5>4. Tells(group[j], stage, h)'
          BY <1>2, <3>4, <4>1, <4>3, <5>2, <5>3
        <5>5. QED
          BY <1>4, <3>4, <4>3, <5>1, <5>4
      <4>4. QED
        BY <3>4, <4>2, <4>3
    <3>6. ASSUME NEW j \in DOMAIN group', NEW k \in DOMAIN group', group'[j].id = group'[k].id
          PROVE  j = k
      <4>1. \A m \in 1 .. n : group[m].id # <<1, i>>
        <5> TAKE m \in 1 .. n
        <5>1. PICK h \in Ended : group[m].id = <<1, h>> /\ h # i
          BY <1>15, <3>4
        <5>2. QED
          BY <5>1
      <4>2. QED
        BY <1>7, <3>2, <3>4, <3>6, <4>1 DEF GroupInv
    <3>7. ASSUME ~escaped', NEW h \in Ended'
          PROVE  \E j \in DOMAIN group' : group'[j].id = <<1, h>>
      <4>1. CASE h = i
        BY <3>2, <3>3, <3>4, <4>1
      <4>2. CASE h # i
        <5>1. PICK j \in DOMAIN group : group[j].id = <<1, h>>
          BY <1>4, <1>7, <3>1, <3>7, <4>2 DEF GroupInv
        <5>2. QED
          BY <3>3, <3>4, <5>1
      <4>3. QED
        BY <4>1, <4>2
    <3>8. QED
      BY <3>5, <3>6, <3>7 DEF GroupInv
  <2>3. QED
    BY <2>1, <2>2
<1>17. CleanInv'
  <2>1. clean' \subseteq MeasuredIds
    BY <1>1, <1>2, <1>3, <1>4, <1>7, MeasuredFacts DEF CleanInv
  <2>2. \A id \in clean' : id[1] < stage \/ (id[1] = stage /\ id[2] \in Ended')
    BY <1>1, <1>2, <1>4, <1>7 DEF CleanInv
  <2>3. QED
    BY <1>2, <1>3, <2>1, <2>2 DEF CleanInv
<1>18. SamplesInv'
  <2>1. ASSUME NEW j \in DOMAIN samples
        PROVE  Tells(samples[j], samples[j].id[1], samples[j].id[2])'
    <3>1. PICK s, k, h : s = samples[j] /\ k = samples[j].id[1] /\ h = samples[j].id[2]
      OBVIOUS
    <3>2. Tells(s, k, h) /\ k < stage /\ k \in Nat
      BY <1>3, <1>7, <3>1, MeasuredFacts DEF SamplesInv
    <3>3. Tells(s, k, h)'
      BY <1>2, <1>3, <1>13, <3>2
    <3>4. s = samples'[j] /\ k = samples'[j].id[1] /\ h = samples'[j].id[2]
      BY <1>2, <3>1
    <3>5. QED
      BY <3>3, <3>4
  <2>2. QED
    BY <1>2, <1>3, <1>7, <2>1 DEF SamplesInv
<1>19. DoomInv'
  <2>1. ASSUME cheated', ~escaped'
        PROVE  Current.gate # "never" /\ \E j \in DOMAIN group' : Failed(group'[j])
    <3>1. reply.got.error # "escapes" /\ ~escaped
      BY <1>1, <1>7, <2>1
    <3>2. PICK n \in Nat : n = Len(group)
      BY <1>7
    <3>3. /\ DOMAIN group = 1 .. n /\ DOMAIN group' = 1 .. n + 1 /\ group'[n + 1] = new
          /\ \A j \in 1 .. n : group'[j] = group[j]
      BY <1>1, <1>6, <1>7, <1>a, <3>1, <3>2
    <3>4. CASE cheated
      <4>1. Current.gate # "never" /\ \E j \in DOMAIN group : Failed(group[j])
        BY <1>2, <1>7, <3>1, <3>4 DEF DoomInv, GivesUp
      <4>2. QED
        BY <3>2, <3>3, <4>1
    <3>5. CASE Current.gate # "never" /\ ~reply.perfect
      <4>1. Failed(new)
        BY <1>5, <1>a, <3>1, <3>5 DEF Failed
      <4>2. QED
        BY <3>2, <3>3, <3>5, <4>1
    <3>6. QED
      BY <1>1, <2>1, <3>4, <3>5
  <2>2. cheated' => GivesUp'
    BY <1>1, <1>3, <2>1 DEF GivesUp
  <2>3. QED
    BY <1>2, <1>3, <2>2 DEF DoomInv
<1>20. DiskInv'
  BY <1>2, <1>3, ReportKept DEF LoadInv, DiskInv
<1>21. StatusInv'
  BY <1>2 DEF LoadInv, StatusInv
<1>22. QED
  BY <1>9, <1>10, <1>16, <1>17, <1>18, <1>19, <1>20, <1>21 DEF LoadInv

\* A stage that is over without giving up has one sample of each of its requests.
LEMMA StageComplete ==
    ASSUME LoadInv, StageOver, ~GivesUp
    PROVE  /\ stage \in 1 .. LastStage /\ exit = Running /\ ~escaped /\ ~cheated
           /\ open = {} /\ Ended = DOMAIN Current.labels
           /\ Len(group) = Len(Current.labels)
<1>1. /\ stage \in 1 .. LastStage /\ exit = Running /\ open = {} /\ ~escaped
      /\ begun = Len(Current.labels) \/ LoopLeft
  BY DEF StageOver, InStage, LastStage, GivesUp
<1>2. ~cheated
  BY <1>1 DEF LoadInv, DoomInv
<1>3. ~LoopLeft
  BY DEF LoopLeft, GivesUp
<1>4. begun = Len(Current.labels)
  BY <1>1, <1>3
<1>5. /\ Current.labels \in Seq(Labels) /\ Len(Current.labels) \in Nat
      /\ DOMAIN Current.labels = 1 .. Len(Current.labels)
  BY <1>1, StageFacts DEF Current
<1>6. Ended = DOMAIN Current.labels
  BY <1>1, <1>4, <1>5 DEF Ended
<1> DEFINE n == Len(group)
           m == Len(Current.labels)
           f == [j \in 1 .. n |-> group[j].id[2]]
<1>7. n \in Nat /\ DOMAIN group = 1 .. n /\ m \in Nat /\ Ended = 1 .. m
  BY <1>5, <1>6 DEF LoadInv, LoadTypeOK
<1>8. \A j \in 1 .. n : f[j] \in 1 .. m /\ group[j].id = <<1, f[j]>>
  <2> TAKE j \in 1 .. n
  <2>1. PICK i \in Ended : group[j].id = <<1, i>>
    BY <1>7 DEF LoadInv, GroupInv
  <2>2. group[j].id[2] = i
    BY <2>1
  <2>3. QED
    BY <1>7, <2>1, <2>2
<1>9. \A i \in 1 .. m : \E j \in 1 .. n : f[j] = i
  <2> TAKE i \in 1 .. m
  <2>1. PICK j \in DOMAIN group : group[j].id = <<1, i>>
    BY <1>1, <1>7 DEF LoadInv, GroupInv
  <2>2. QED
    BY <1>7, <2>1
<1>10. \A j, k \in 1 .. n : f[j] = f[k] => j = k
  <2>1. \A j, k \in 1 .. n : group[j].id = group[k].id => j = k
    BY <1>7 DEF LoadInv, GroupInv
  <2> HIDE DEF f, n, m
  <2>2. QED
    BY <1>8, <2>1
<1>11. DOMAIN f = 1 .. n /\ f \in [1 .. n -> 1 .. m]
  BY <1>8
<1> HIDE DEF f, n, m
<1>12. ExistsBijection(1 .. n, 1 .. m)
  <2>1. f \in Injection(1 .. n, 1 .. m)
    BY <1>10, <1>11, Zenon DEF Injection, IsInjective
  <2>2. f \in Surjection(1 .. n, 1 .. m)
    BY <1>9, <1>11 DEF Surjection
  <2>3. QED
    BY <2>1, <2>2 DEF Bijection, ExistsBijection
<1>13. n = m
  <2>1. n \in Int /\ m \in Int /\ 1 \in Int
    BY <1>7
  <2>2. IsFiniteSet(1 .. n) /\ Cardinality(1 .. n) = n /\ Cardinality(1 .. m) = m
    BY <1>7, <2>1, FS_Interval
  <2>3. QED
    BY <1>12, <2>2, FS_Bijection
<1>14. QED
  BY <1>1, <1>2, <1>6, <1>13 DEF n, m

\* In whatever order, the samples of the stage are collected, each once.
LEMMA CollectedFacts ==
    ASSUME LoadInv, StageOver, ~GivesUp
    PROVE  /\ Collected \in Seq(Sample)
           /\ \A k \in DOMAIN Collected : \E i \in DOMAIN Current.labels :
                 Collected[k].id = <<stage, i>> /\ Tells(Collected[k], stage, i)
           /\ \A j, k \in DOMAIN Collected : Collected[j].id = Collected[k].id => j = k
           /\ \A i \in DOMAIN Current.labels : \E k \in DOMAIN Collected : Collected[k].id = <<stage, i>>
<1> DEFINE m == Len(group)
<1>1. /\ ~escaped /\ group \in Seq(Sample) /\ m \in Nat /\ DOMAIN group = 1 .. m /\ stage \in Nat
      /\ Ended = 1 .. m /\ DOMAIN Current.labels = 1 .. m /\ GroupInv
  <2>1. DOMAIN Current.labels = 1 .. Len(Current.labels) /\ stage \in Nat
    BY StageComplete, StageFacts DEF Current
  <2>2. QED
    BY <2>1, StageComplete DEF LoadInv, LoadTypeOK
<1>2. \A j \in 1 .. m : /\ group[j] \in Sample /\ group[j].id[2] \in 1 .. m
                        /\ group[j].id = <<1, group[j].id[2]>> /\ Tells(group[j], stage, group[j].id[2])
  <2> TAKE j \in 1 .. m
  <2>1. PICK i \in Ended : group[j].id = <<1, i>> /\ Tells(group[j], stage, i)
    BY <1>1 DEF GroupInv
  <2>2. group[j].id[2] = i
    BY <2>1
  <2>3. QED
    BY <1>1, <2>1, <2>2
<1>3. \A i \in 1 .. m : \E j \in 1 .. m : group[j].id[2] = i
  <2> TAKE i \in 1 .. m
  <2>1. PICK j \in 1 .. m : group[j].id = <<1, i>>
    BY <1>1 DEF GroupInv
  <2>2. QED
    BY <2>1
<1>4. \A j, k \in 1 .. m : group[j].id[2] = group[k].id[2] => j = k
  <2> SUFFICES ASSUME NEW j \in 1 .. m, NEW k \in 1 .. m, group[j].id[2] = group[k].id[2]
               PROVE  j = k
    OBVIOUS
  <2>1. group[j].id = group[k].id
    BY <1>2
  <2>2. QED
    BY <1>1, <2>1 DEF GroupInv
\* The order is a permutation.
<1>5. /\ \A k \in 1 .. m : Ordered(k) \in 1 .. m
      /\ \A j, k \in 1 .. m : Ordered(j) = Ordered(k) => j = k
      /\ \A j \in 1 .. m : \E k \in 1 .. m : Ordered(k) = j
  <2>1. CASE setting.prog = "mixed"
    BY <2>1 DEF Ordered
  <2>2. CASE setting.prog # "mixed"
    <3>1. \A k \in 1 .. m : Ordered(k) \in 1 .. m /\ group[Ordered(k)].id[2] = k
      <4> TAKE k \in 1 .. m
      <4>1. Ordered(k) = CHOOSE j \in 1 .. m : group[j].id[2] = k
        BY <1>1, <2>2 DEF Ordered
      <4> HIDE DEF m
      <4>2. QED
        BY <1>3, <4>1
    <3>2. \A j \in 1 .. m : Ordered(group[j].id[2]) = j
      <4> TAKE j \in 1 .. m
      <4>1. PICK k : k = group[j].id[2]
        OBVIOUS
      <4>2. k \in 1 .. m
        BY <1>2, <4>1
      <4>3. Ordered(k) \in 1 .. m /\ group[Ordered(k)].id[2] = group[j].id[2]
        BY <3>1, <4>1, <4>2
      <4>4. Ordered(k) = j
        BY <1>4, <4>3
      <4>5. QED
        BY <4>1, <4>4
    <3>3. QED
      BY <1>2, <3>1, <3>2
  <2>3. QED
    BY <2>1, <2>2
<1>6. /\ DOMAIN Collected = 1 .. m
      /\ \A k \in 1 .. m : Collected[k] = [group[Ordered(k)] EXCEPT !.id = <<stage, group[Ordered(k)].id[2]>>]
  BY <1>1 DEF Collected
<1>7. ASSUME NEW k \in 1 .. m
      PROVE  /\ Collected[k] \in Sample /\ Collected[k].id = <<stage, group[Ordered(k)].id[2]>>
             /\ Tells(Collected[k], stage, group[Ordered(k)].id[2])
  <2>1. PICK s : s = group[Ordered(k)]
    OBVIOUS
  <2>2. s \in Sample /\ s.id[2] \in 1 .. m /\ Tells(s, stage, s.id[2])
    BY <1>2, <1>5, <2>1
  <2>3. PICK t : t = [s EXCEPT !.id = <<stage, s.id[2]>>]
    OBVIOUS
  <2>4. Collected[k] = t
    BY <1>6, <2>1, <2>3
  <2>5. t \in Sample /\ t.id = <<stage, s.id[2]>> /\ t.label = s.label /\ t.tokens = s.tokens /\ t.error = s.error
    <3>1. <<stage, s.id[2]>> \in Nat \X Nat
      BY <1>1, <2>2
    <3>2. QED
      BY <2>2, <2>3, <3>1 DEF Sample
  <2>6. Tells(t, stage, s.id[2])
    BY <2>2, <2>5 DEF Tells, Failed
  <2>7. QED
    BY <2>1, <2>4, <2>5, <2>6
<1>8. Collected \in Seq(Sample)
  <2>1. Collected = [k \in 1 .. m |-> Collected[k]]
    BY <1>1 DEF Collected
  <2>2. QED
    BY <1>1, <1>7, <2>1
<1>9. \A k \in DOMAIN Collected : \E i \in DOMAIN Current.labels :
         Collected[k].id = <<stage, i>> /\ Tells(Collected[k], stage, i)
  BY <1>1, <1>2, <1>5, <1>6, <1>7
<1>10. ASSUME NEW j \in DOMAIN Collected, NEW k \in DOMAIN Collected, Collected[j].id = Collected[k].id
       PROVE  j = k
  <2>1. j \in 1 .. m /\ k \in 1 .. m
    BY <1>6
  <2>2. group[Ordered(j)].id[2] = group[Ordered(k)].id[2]
    BY <1>7, <1>10, <2>1
  <2>3. Ordered(j) = Ordered(k)
    BY <1>4, <1>5, <2>1, <2>2
  <2>4. QED
    BY <1>5, <2>1, <2>3
<1>11. ASSUME NEW i \in DOMAIN Current.labels
       PROVE  \E k \in DOMAIN Collected : Collected[k].id = <<stage, i>>
  <2>1. PICK j \in 1 .. m : group[j].id[2] = i
    BY <1>1, <1>3
  <2>2. PICK k \in 1 .. m : Ordered(k) = j
    BY <1>5
  <2>3. QED
    BY <1>6, <1>7, <2>1, <2>2
<1>12. QED
  BY <1>8, <1>9, <1>10, <1>11

\* A stage ends: the program gives up, or what it measured is complete.
LEMMA EndStageKeepsInv == LoadInv /\ EndStage => LoadInv'
<1> SUFFICES ASSUME LoadInv, EndStage PROVE LoadInv'
  OBVIOUS
<1>1. /\ StageOver /\ stage \in 1 .. LastStage /\ exit = Running /\ open = {}
      /\ begun' = 0 /\ group' = <<>> /\ open' = open /\ setting' = setting /\ escaped' = escaped
      /\ disk' = disk /\ status' = status /\ clean' = clean /\ cheated' = cheated
  BY DEF EndStage, StageOver, InStage, LastStage
<1>2. /\ LastStage' = LastStage /\ MeasuredIds' = MeasuredIds /\ Stages(setting)' = Stages(setting)
      /\ LastStage \in Nat /\ DOMAIN Stages(setting) = 1 .. LastStage
  BY <1>1, LoadRigid, StageFacts
<1>3. /\ samples \in Seq(Sample) /\ CleanInv /\ SamplesInv /\ DoomInv /\ DiskInv /\ StatusInv /\ LoadTypeOK
  BY DEF LoadInv, LoadTypeOK
<1>4. Ended' = {}
  BY <1>1 DEF Ended
<1>5. GroupInv'
  BY <1>1, <1>4 DEF GroupInv
<1>6. disk \in {NoFile, OldFile} /\ setting.shell # "dry"
  BY <1>1, <1>2, <1>3 DEF DiskInv
<1>7. StatusInv'
  BY <1>1, <1>3 DEF StatusInv
<1>8. CASE GivesUp
  <2>1. exit' = 1 /\ stage' = stage /\ samples' = samples
    BY <1>8 DEF EndStage
  <2>2. LoadTypeOK'
    BY <1>1, <1>2, <1>3, <2>1 DEF LoadTypeOK
  <2>3. StageInv'
    BY <1>1, <2>1 DEF StageInv, Running
  <2>4. CleanInv'
    BY <1>1, <1>2, <1>3, <2>1 DEF CleanInv, Running
  <2>5. SamplesInv'
    BY <1>1, <1>2, <1>3, <2>1 DEF SamplesInv, Tells
  <2>6. DoomInv'
    BY <1>1, <1>2, <1>3, <2>1 DEF DoomInv, Running
  <2>7. DiskInv'
    BY <1>1, <1>6, <2>1 DEF DiskInv
  <2>8. QED
    BY <1>5, <1>7, <2>2, <2>3, <2>4, <2>5, <2>6, <2>7 DEF LoadInv
<1>9. CASE ~GivesUp
  <2>1. /\ stage' = stage + 1 /\ exit' = exit
        /\ samples' = IF Current.kind = "measured" THEN samples \o Collected ELSE samples
    BY <1>9 DEF EndStage
  <2>2. ~escaped /\ ~cheated /\ Ended = DOMAIN Current.labels
    BY <1>1, <1>9, StageComplete
  <2>3. StageInv'
    <3>1. stage + 1 \in 1 .. LastStage => Len(Stages(setting)[stage + 1].labels) \in Nat
      BY StageFacts
    <3>2. QED
      BY <1>1, <1>2, <2>1, <3>1 DEF StageInv, Current
  <2>4. CleanInv'
    <3>1. \A id \in clean : id[1] < stage + 1 /\ id[1] \in Nat
      BY <1>1, <1>2, <1>3, MeasuredFacts DEF CleanInv
    <3>2. QED
      BY <1>1, <1>2, <1>3, <2>1, <3>1 DEF CleanInv
  <2>5. DoomInv'
    BY <1>1, <2>2 DEF DoomInv
  <2>6. DiskInv'
    BY <1>1, <1>6, <2>1 DEF DiskInv, Running
  <2>7. CASE Current.kind # "measured"
    <3>1. samples' = samples
      BY <2>1, <2>7
    <3>2. \A id \in MeasuredIds : id[1] < stage + 1 => id[1] < stage
      BY <1>1, <1>2, <2>7, MeasuredFacts DEF Current
    <3>3. SamplesInv'
      <4>1. \A j \in DOMAIN samples : samples[j].id[1] < stage + 1
        BY <1>1, <1>2, <1>3, MeasuredFacts DEF SamplesInv
      <4>2. QED
        BY <1>1, <1>2, <1>3, <2>1, <3>1, <3>2, <4>1 DEF SamplesInv, Tells
    <3>4. LoadTypeOK'
      <4>1. stage' \in 0 .. LastStage + 1
        BY <1>1, <1>2, <2>1
      <4>2. group' \in Seq(Sample) /\ open' \subseteq 1 .. begun' /\ begun' \in Nat
        BY <1>1
      <4>3. QED
        BY <1>1, <1>2, <1>3, <2>1, <3>1, <4>1, <4>2 DEF LoadTypeOK
    <3>5. QED
      BY <1>5, <1>7, <2>3, <2>4, <2>5, <2>6, <3>3, <3>4 DEF LoadInv
  <2>8. CASE Current.kind = "measured"
    <3>1. PICK new : new = Collected
      OBVIOUS
    <3>2. /\ new \in Seq(Sample)
          /\ \A k \in DOMAIN new : \E i \in DOMAIN Current.labels :
                new[k].id = <<stage, i>> /\ Tells(new[k], stage, i)
          /\ \A j, k \in DOMAIN new : new[j].id = new[k].id => j = k
          /\ \A i \in DOMAIN Current.labels : \E k \in DOMAIN new : new[k].id = <<stage, i>>
      BY <1>1, <1>9, <3>1, CollectedFacts
    <3>3. samples' = samples \o new
      BY <2>1, <2>8, <3>1
    <3>4. PICK n \in Nat, m \in Nat : n = Len(samples) /\ m = Len(new)
      BY <1>3, <3>2
    <3>5. /\ samples' \in Seq(Sample) /\ DOMAIN samples = 1 .. n /\ DOMAIN new = 1 .. m
          /\ DOMAIN samples' = 1 .. n + m
          /\ \A j \in 1 .. n : samples'[j] = samples[j]
          /\ \A j \in 1 .. m : samples'[n + j] = new[j]
          /\ \A j \in n + 1 .. n + m : j - n \in 1 .. m /\ samples'[j] = new[j - n]
      BY <1>3, <3>2, <3>3, <3>4
    <3>6. \A s, k, i : Tells(s, k, i) => Tells(s, k, i)'
      BY <1>1, <1>2 DEF Tells
    <3>7. ASSUME NEW j \in DOMAIN samples
          PROVE  /\ samples[j].id \in MeasuredIds /\ samples[j].id[1] < stage /\ samples[j].id[1] \in Nat
                 /\ Tells(samples[j], samples[j].id[1], samples[j].id[2])
      BY <1>2, <1>3, MeasuredFacts DEF SamplesInv
    <3>8. ASSUME NEW j \in DOMAIN new
          PROVE  /\ new[j].id \in MeasuredIds /\ new[j].id[1] = stage
                 /\ Tells(new[j], new[j].id[1], new[j].id[2])
      <4>1. PICK i \in DOMAIN Current.labels : new[j].id = <<stage, i>> /\ Tells(new[j], stage, i)
        BY <3>2
      <4>2. new[j].id[1] = stage /\ new[j].id[2] = i
        BY <4>1
      <4>3. <<stage, i>> \in MeasuredIds
        BY <1>1, <2>8, MeasuredFacts DEF Current
      <4>4. QED
        BY <4>1, <4>2, <4>3
    <3>9. ASSUME NEW j \in DOMAIN samples'
          PROVE  \E s, k, i : /\ s = samples'[j] /\ k = s.id[1] /\ i = s.id[2]
                              /\ s.id \in MeasuredIds /\ k < stage + 1 /\ Tells(s, k, i)
      <4>1. CASE j \in 1 .. n
        <5>1. PICK s, k, i : s = samples[j] /\ k = s.id[1] /\ i = s.id[2]
          OBVIOUS
        <5>2. s = samples'[j] /\ s.id \in MeasuredIds /\ k < stage /\ k \in Nat /\ Tells(s, k, i)
          BY <3>5, <3>7, <4>1, <5>1
        <5>3. k < stage + 1
          BY <1>1, <5>2
        <5>4. QED
          BY <5>1, <5>2, <5>3, Zenon
      <4>2. CASE j \in n + 1 .. n + m
        <5>1. PICK s, k, i : s = new[j - n] /\ k = s.id[1] /\ i = s.id[2]
          OBVIOUS
        <5>2. s = samples'[j] /\ s.id \in MeasuredIds /\ k = stage /\ Tells(s, k, i)
          BY <3>5, <3>8, <4>2, <5>1
        <5>3. k < stage + 1
          BY <1>1, <5>2
        <5>4. QED
          BY <5>1, <5>2, <5>3, Zenon
      <4>3. QED
        BY <3>4, <3>5, <4>1, <4>2
    <3>10. ASSUME NEW j \in DOMAIN samples', NEW k \in DOMAIN samples', samples'[j].id = samples'[k].id
           PROVE  j = k
      <4>1. CASE j \in 1 .. n /\ k \in 1 .. n
        BY <1>3, <3>5, <3>10, <4>1 DEF SamplesInv
      <4>2. CASE j \in n + 1 .. n + m /\ k \in n + 1 .. n + m
        <5>1. PICK a, b : a = j - n /\ b = k - n
          OBVIOUS
        <5>2. /\ a \in DOMAIN new /\ samples'[j] = new[a]
              /\ b \in DOMAIN new /\ samples'[k] = new[b]
          BY <3>5, <4>2, <5>1
        <5>3. new[a].id = new[b].id
          BY <3>10, <5>2
        <5>4. a = b
          BY <3>2, <5>2, <5>3
        <5>5. QED
          BY <3>4, <4>2, <5>1, <5>4
      <4>3. ASSUME NEW a \in 1 .. n, NEW b \in n + 1 .. n + m
            PROVE  samples'[a].id # samples'[b].id
        <5>1. samples'[a].id[1] < stage /\ samples'[a].id[1] \in Nat
          BY <3>5, <3>7
        <5>2. samples'[b].id[1] = stage
          <6>1. b - n \in DOMAIN new /\ samples'[b] = new[b - n]
            BY <3>5
          <6>2. QED
            BY <3>8, <6>1
        <5>3. QED
          BY <1>1, <5>1, <5>2
      <4>4. CASE (j \in 1 .. n /\ k \in n + 1 .. n + m) \/ (j \in n + 1 .. n + m /\ k \in 1 .. n)
        BY <3>10, <4>3, <4>4
      <4>5. QED
        BY <3>4, <3>5, <4>1, <4>2, <4>4
    <3>11. ASSUME NEW id \in MeasuredIds, id[1] < stage + 1
           PROVE  \E j \in DOMAIN samples' : samples'[j].id = id
      <4>1. id[1] \in Nat /\ id = <<id[1], id[2]>> /\ id[2] \in DOMAIN Stages(setting)[id[1]].labels
        BY <1>2, MeasuredFacts
      <4>2. CASE id[1] < stage
        <5>1. PICK j \in DOMAIN samples : samples[j].id = id
          BY <1>3, <4>2 DEF SamplesInv
        <5>2. QED
          BY <3>4, <3>5, <5>1
      <4>3. CASE id[1] = stage
        <5>1. PICK j \in DOMAIN new : new[j].id = <<stage, id[2]>>
          BY <3>2, <4>1, <4>3 DEF Current
        <5>2. n + j \in DOMAIN samples' /\ samples'[n + j].id = id
          BY <3>4, <3>5, <4>1, <4>3, <5>1
        <5>3. QED
          BY <5>2
      <4>4. QED
        BY <1>1, <3>11, <4>1, <4>2, <4>3
    <3>12. SamplesInv'
      <4>1. ASSUME NEW j \in DOMAIN samples'
            PROVE  /\ samples'[j].id \in MeasuredIds /\ samples'[j].id[1] < stage + 1
                   /\ Tells(samples[j], samples[j].id[1], samples[j].id[2])'
        <5>1. PICK s, k, i : /\ s = samples'[j] /\ k = s.id[1] /\ i = s.id[2]
                             /\ s.id \in MeasuredIds /\ k < stage + 1 /\ Tells(s, k, i)
          BY <3>9
        <5>2. Tells(s, k, i)'
          BY <3>6, <5>1
        <5>3. QED
          BY <5>1, <5>2
      <4>2. QED
        BY <1>2, <2>1, <3>10, <3>11, <4>1 DEF SamplesInv
    <3>13. LoadTypeOK'
      BY <1>1, <1>2, <1>3, <2>1, <3>5 DEF LoadTypeOK
    <3>14. QED
      BY <1>5, <1>7, <2>3, <2>4, <2>5, <2>6, <3>12, <3>13 DEF LoadInv
  <2>9. QED
    BY <2>7, <2>8
<1>10. QED
  BY <1>8, <1>9

\* After the stages nothing but the file and the statuses moves.
LEMMA AfterStages ==
    ASSUME LoadInv, UNCHANGED <<setting, stage, begun, open, group, escaped, samples, clean, cheated>>,
           exit' = exit \/ ~(stage \in 1 .. LastStage /\ exit = Running),
           exit' \in {Running, 0, 1, 2}, status' \in {Running, 0, 1, 2}, exit' = Running => exit = Running
    PROVE  /\ LoadTypeOK' /\ StageInv' /\ GroupInv' /\ CleanInv' /\ SamplesInv' /\ DoomInv'
           /\ LastStage' = LastStage /\ Report(setting)' = Report(setting) /\ ExitCode' = ExitCode
<1>1. /\ setting' = setting /\ stage' = stage /\ begun' = begun /\ open' = open /\ group' = group
      /\ escaped' = escaped /\ samples' = samples /\ clean' = clean /\ cheated' = cheated
  OBVIOUS
<1>2. LastStage' = LastStage /\ MeasuredIds' = MeasuredIds /\ Stages(setting)' = Stages(setting)
  BY <1>1, LoadRigid
<1>3. LoadTypeOK'
  BY <1>1, <1>2 DEF LoadInv, LoadTypeOK
<1>4. StageInv'
  BY <1>1, <1>2 DEF LoadInv, StageInv, Current
<1>5. GroupInv'
  BY <1>1, <1>2 DEF LoadInv, GroupInv, Ended, Tells
<1>6. CleanInv'
  BY <1>1, <1>2 DEF LoadInv, CleanInv, Ended
<1>7. SamplesInv'
  BY <1>1, <1>2 DEF LoadInv, SamplesInv, Tells
<1>8. DoomInv'
  BY <1>1, <1>2 DEF LoadInv, DoomInv, GivesUp, Current
<1>9. Report(setting)' = Report(setting) /\ ExitCode' = ExitCode
  BY <1>1, ReportKept
<1>10. QED
  BY <1>2, <1>3, <1>4, <1>5, <1>6, <1>7, <1>8, <1>9

\* Truncating the old report keeps the invariant: the stages are over.
LEMMA OpenReportKeepsInv == LoadInv /\ OpenReport => LoadInv'
<1> SUFFICES ASSUME LoadInv, OpenReport PROVE LoadInv'
  OBVIOUS
<1>1. /\ exit = Running /\ stage = LastStage + 1
      /\ (disk' = TornFile /\ exit' = exit) \/ (exit' = 1 /\ disk' = disk)
      /\ UNCHANGED <<setting, stage, begun, open, group, escaped, samples, clean, cheated>>
      /\ setting' = setting /\ stage' = stage /\ status' = status
  BY DEF OpenReport, LastStage
<1>2. LastStage \in Nat /\ DiskInv /\ StatusInv /\ status \in {Running, 0, 1, 2}
  BY StageFacts DEF LoadInv, LoadTypeOK
<1>3. ~(stage \in 1 .. LastStage)
  BY <1>1, <1>2
<1>4. exit' \in {Running, 0, 1, 2} /\ (exit' = Running => exit = Running)
  BY <1>1 DEF Running
<1>5. /\ LoadTypeOK' /\ StageInv' /\ GroupInv' /\ CleanInv' /\ SamplesInv' /\ DoomInv'
      /\ LastStage' = LastStage /\ Report(setting)' = Report(setting) /\ ExitCode' = ExitCode
  BY <1>1, <1>2, <1>3, <1>4, AfterStages
<1>6. setting.shell # "dry"
  BY <1>1, <1>2 DEF DiskInv
<1>8. DiskInv'
  <2>1. CASE disk' = TornFile /\ exit' = exit
    BY <1>1, <1>2, <1>5, <1>6, <2>1 DEF DiskInv, Running
  <2>2. CASE exit' = 1 /\ disk' = disk
    <3>1. disk = Report(setting) /\ exit = ExitCode => FALSE
      BY <1>1 DEF ExitCode, Running
    <3>2. QED
      BY <1>1, <1>2, <1>5, <1>6, <2>2, <3>1 DEF DiskInv, Running
  <2>3. QED
    BY <1>1, <2>1, <2>2
<1>9. StatusInv'
  BY <1>1, <1>2 DEF StatusInv
<1>10. QED
  BY <1>5, <1>8, <1>9 DEF LoadInv

\* Writing the report keeps the invariant: it is the report of this run.
LEMMA DumpReportKeepsInv == LoadInv /\ DumpReport => LoadInv'
<1> SUFFICES ASSUME LoadInv, DumpReport PROVE LoadInv'
  OBVIOUS
<1>1. /\ exit = Running /\ disk = TornFile
      /\ (disk' = Report(setting) /\ exit' = ExitCode) \/ (exit' = 1 /\ disk' = disk)
      /\ UNCHANGED <<setting, stage, begun, open, group, escaped, samples, clean, cheated>>
      /\ setting' = setting /\ stage' = stage /\ status' = status
  BY DEF DumpReport
<1>2. LastStage \in Nat /\ DiskInv /\ StatusInv /\ status \in {Running, 0, 1, 2}
  BY StageFacts DEF LoadInv, LoadTypeOK
<1>3. stage = LastStage + 1 /\ setting.shell # "dry"
  <2>1. TornFile \notin {NoFile, OldFile}
    <3>1. TornFile.state = "torn" /\ NoFile.state = "none" /\ OldFile.state = "old"
      BY DEF TornFile, NoFile, OldFile
    <3>2. QED
      BY <3>1
  <2>2. ExitCode # Running
    BY DEF ExitCode, Running
  <2>3. QED
    BY <1>1, <1>2, <2>1, <2>2 DEF DiskInv
<1>4. ~(stage \in 1 .. LastStage) /\ ExitCode \in {0, 1}
  BY <1>2, <1>3 DEF ExitCode
<1>5. exit' \in {Running, 0, 1, 2} /\ (exit' = Running => exit = Running)
  BY <1>1, <1>4
<1>6. /\ LoadTypeOK' /\ StageInv' /\ GroupInv' /\ CleanInv' /\ SamplesInv' /\ DoomInv'
      /\ LastStage' = LastStage /\ Report(setting)' = Report(setting) /\ ExitCode' = ExitCode
  BY <1>1, <1>2, <1>4, <1>5, AfterStages
<1>7. DiskInv'
  BY <1>1, <1>3, <1>6 DEF DiskInv, Running
<1>8. StatusInv'
  BY <1>1, <1>2 DEF StatusInv
<1>9. QED
  BY <1>6, <1>7, <1>8 DEF LoadInv

\* The caller returning keeps the invariant: its status is earned.
LEMMA CommandReturnsKeepsInv == LoadInv /\ CommandReturns => LoadInv'
<1> SUFFICES ASSUME LoadInv, CommandReturns PROVE LoadInv'
  OBVIOUS
<1>1. /\ status = Running /\ (exit # Running \/ setting.shell = "dry")
      /\ status' = IF setting.shell = "dry" THEN 0
                   ELSE IF exit # 0 \/ setting.shell = "script" THEN exit
                   ELSE IF ValidFile(disk) THEN 0 ELSE 1
      /\ UNCHANGED <<setting, stage, begun, open, group, escaped, samples, clean, cheated>>
      /\ setting' = setting /\ stage' = stage /\ exit' = exit /\ disk' = disk
  BY DEF CommandReturns
<1>2. DiskInv /\ StatusInv /\ exit \in {Running, 0, 1, 2}
  BY DEF LoadInv, LoadTypeOK
<1>3. status' \in {Running, 0, 1, 2}
  BY <1>1, <1>2
<1>4. /\ LoadTypeOK' /\ StageInv' /\ GroupInv' /\ CleanInv' /\ SamplesInv' /\ DoomInv'
      /\ LastStage' = LastStage /\ Report(setting)' = Report(setting) /\ ExitCode' = ExitCode
  BY <1>1, <1>2, <1>3, AfterStages
<1>5. DiskInv'
  BY <1>1, <1>2, <1>4 DEF DiskInv
<1>6. setting.shell \in {"script", "kernellab", "dry"}
  BY SettingFacts DEF LoadInv, LoadTypeOK
<1>7. StatusInv'
  BY <1>1, <1>2, <1>6 DEF StatusInv, Running
<1>8. QED
  BY <1>4, <1>5, <1>7 DEF LoadInv

\* A step of something else keeps the invariant.
LEMMA LoadStutters == LoadInv /\ UNCHANGED loadVars => LoadInv'
<1> SUFFICES ASSUME LoadInv, UNCHANGED loadVars PROVE LoadInv'
  OBVIOUS
<1>1. /\ UNCHANGED <<setting, stage, begun, open, group, escaped, samples, clean, cheated>>
      /\ setting' = setting /\ stage' = stage /\ exit' = exit /\ disk' = disk /\ status' = status
  BY DEF loadVars
<1>2. DiskInv /\ StatusInv /\ exit \in {Running, 0, 1, 2} /\ status \in {Running, 0, 1, 2}
  BY DEF LoadInv, LoadTypeOK
<1>3. /\ LoadTypeOK' /\ StageInv' /\ GroupInv' /\ CleanInv' /\ SamplesInv' /\ DoomInv'
      /\ LastStage' = LastStage /\ Report(setting)' = Report(setting) /\ ExitCode' = ExitCode
  BY <1>1, <1>2, AfterStages
<1>4. DiskInv' /\ StatusInv'
  BY <1>1, <1>2, <1>3 DEF DiskInv, StatusInv
<1>5. QED
  BY <1>3, <1>4 DEF LoadInv

\* What every load test keeps to.
THEOREM LoadInvariant == LoadSpec => []LoadInv
<1>1. LoadInit => LoadInv
  BY LoadInitInv
<1>2. LoadInv /\ [LoadNext]_loadVars => LoadInv'
  BY LaunchKeepsInv, SendRequestKeepsInv, EndRequestKeepsInv, EndStageKeepsInv,
     OpenReportKeepsInv, DumpReportKeepsInv, CommandReturnsKeepsInv, LoadStutters DEF LoadNext
<1>3. QED
  BY <1>1, <1>2, PTL DEF LoadSpec

\* As many samples as requests they are of.
LEMMA AsManyIds ==
    ASSUME LoadInv, NEW part \in SUBSET DOMAIN samples
    PROVE  /\ Cardinality({samples[k].id : k \in part}) = Cardinality(part)
           /\ IsFiniteSet(part) /\ Cardinality(part) \in Nat
<1> DEFINE T == {samples[k].id : k \in part}
           f == [k \in part |-> samples[k].id]
<1>1. PICK n \in Nat : DOMAIN samples = 1 .. n
  <2>1. samples \in Seq(Sample)
    BY DEF LoadInv, LoadTypeOK
  <2>2. QED
    BY <2>1
<1>2. IsFiniteSet(part)
  <2>1. IsFiniteSet(1 .. n)
    <3>1. n \in Int /\ 1 \in Int
      OBVIOUS
    <3>2. QED
      BY <3>1, FS_Interval
  <2>2. QED
    BY <1>1, <2>1, FS_Subset
<1>3. f \in Injection(part, T)
  <2>1. f \in [part -> T]
    OBVIOUS
  <2>2. \A j, k \in part : f[j] = f[k] => j = k
    BY DEF LoadInv, SamplesInv
  <2> HIDE DEF f
  <2>3. QED
    BY <2>1, <2>2, Zenon DEF Injection, IsInjective
<1>4. f \in Surjection(part, T)
  BY <1>3 DEF Injection, Surjection
<1>5. ExistsBijection(part, T)
  BY <1>3, <1>4 DEF Bijection, ExistsBijection
<1>6. Cardinality(T) = Cardinality(part) /\ Cardinality(part) \in Nat
  <2> HIDE DEF T
  <2>1. QED
    BY <1>2, <1>5, FS_Bijection, FS_CardinalityType
<1>7. QED
  BY <1>2, <1>6

\* Past the last stage the samples are the measured requests, the successful
\* ones those answered perfectly.
LEMMA SamplesComplete ==
    ASSUME LoadInv, stage = LastStage + 1
    PROVE  /\ {samples[k].id : k \in DOMAIN samples} = MeasuredIds
           /\ {samples[k].id : k \in Successes(samples)} = clean
           /\ clean \subseteq MeasuredIds
           /\ \A k \in DOMAIN samples :
                 /\ ~Failed(samples[k]) <=> samples[k].id \in clean
                 /\ samples[k].label = Stages(setting)[samples[k].id[1]].labels[samples[k].id[2]]
           /\ setting.prog # "cancel" => \A k \in Successes(samples) : samples[k].tokens = OutputTokens
<1>1. CleanInv /\ SamplesInv /\ LastStage \in Nat
  BY StageFacts DEF LoadInv
<1>2. \A id \in MeasuredIds : /\ id[1] < stage /\ id = <<id[1], id[2]>>
                              /\ Stages(setting)[id[1]].kind = "measured"
  BY <1>1, MeasuredFacts
<1>3. ASSUME NEW k \in DOMAIN samples
      PROVE  /\ samples[k].id \in MeasuredIds
             /\ ~Failed(samples[k]) <=> samples[k].id \in clean
             /\ samples[k].label = Stages(setting)[samples[k].id[1]].labels[samples[k].id[2]]
             /\ ~Failed(samples[k]) /\ setting.prog # "cancel" => samples[k].tokens = OutputTokens
  <2>1. samples[k].id \in MeasuredIds /\ Tells(samples[k], samples[k].id[1], samples[k].id[2])
    BY <1>1 DEF SamplesInv
  <2>2. samples[k].id = <<samples[k].id[1], samples[k].id[2]>> /\ Stages(setting)[samples[k].id[1]].kind = "measured"
    BY <1>2, <2>1
  <2>3. QED
    BY <2>1, <2>2 DEF Tells
<1>4. \A id \in MeasuredIds : \E k \in DOMAIN samples : samples[k].id = id
  BY <1>1, <1>2 DEF SamplesInv
<1>5. clean \subseteq MeasuredIds
  BY <1>1 DEF CleanInv
<1>6. {samples[k].id : k \in DOMAIN samples} = MeasuredIds
  BY <1>3, <1>4
<1>7. {samples[k].id : k \in Successes(samples)} = clean
  BY <1>3, <1>4, <1>5 DEF Successes
<1>8. QED
  BY <1>3, <1>5, <1>6, <1>7 DEF Successes

\* What an aggregate counts.
LEMMA AggregateFacts ==
    ASSUME LoadInv, NEW part \in SUBSET DOMAIN samples
    PROVE  /\ Aggregate(part).requests = Cardinality({samples[k].id : k \in part})
           /\ Aggregate(part).successful = Cardinality({samples[k].id : k \in part \cap Successes(samples)})
           /\ Aggregate(part).p99 <=> Aggregate(part).successful >= TailRepetitions
           /\ (\A k \in Successes(samples) : samples[k].tokens = OutputTokens) =>
                 Aggregate(part).outputTokens = OutputTokens * Aggregate(part).successful
<1> DEFINE good == part \cap Successes(samples)
           tokens == UNION {{k} \X (1 .. samples[k].tokens) : k \in good}
<1>1. /\ Aggregate(part).requests = Cardinality(part)
      /\ Aggregate(part).successful = Cardinality(good)
      /\ Aggregate(part).outputTokens = Cardinality(tokens)
      /\ Aggregate(part).p99 = (Cardinality(good) >= TailRepetitions)
  BY DEF Aggregate
<1>2. good \in SUBSET DOMAIN samples
  OBVIOUS
<1>3. Cardinality({samples[k].id : k \in part}) = Cardinality(part)
  BY AsManyIds
<1>4. /\ Cardinality({samples[k].id : k \in good}) = Cardinality(good)
      /\ IsFiniteSet(good) /\ Cardinality(good) \in Nat
  <2> HIDE DEF good
  <2>1. QED
    BY <1>2, AsManyIds
<1>5. ASSUME \A k \in Successes(samples) : samples[k].tokens = OutputTokens
      PROVE  Cardinality(tokens) = OutputTokens * Cardinality(good)
  <2>1. OutputTokens \in Nat /\ OutputTokens \in Int /\ 1 \in Int
    BY LoadAssumption
  <2>2. tokens = good \X (1 .. OutputTokens)
    <3>1. ASSUME NEW x \in tokens PROVE x \in good \X (1 .. OutputTokens)
      <4>1. PICK k \in good : x \in {k} \X (1 .. samples[k].tokens)
        OBVIOUS
      <4>2. samples[k].tokens = OutputTokens
        BY <1>5
      <4>3. QED
        BY <4>1, <4>2
    <3>2. ASSUME NEW x \in good \X (1 .. OutputTokens) PROVE x \in tokens
      <4>1. PICK k \in good, i \in 1 .. OutputTokens : x = <<k, i>>
        OBVIOUS
      <4>2. samples[k].tokens = OutputTokens
        BY <1>5
      <4>3. x \in {k} \X (1 .. samples[k].tokens)
        BY <4>1, <4>2
      <4>4. QED
        BY <4>3
    <3>3. QED
      BY <3>1, <3>2
  <2>3. IsFiniteSet(1 .. OutputTokens) /\ Cardinality(1 .. OutputTokens) = OutputTokens
    BY <2>1, FS_Interval
  <2> HIDE DEF tokens, good
  <2>4. Cardinality(good \X (1 .. OutputTokens)) = Cardinality(good) * Cardinality(1 .. OutputTokens)
    BY <1>4, <2>3, FS_Product
  <2>5. Cardinality(tokens) = Cardinality(good) * OutputTokens
    BY <2>2, <2>3, <2>4
  <2>6. Cardinality(good) * OutputTokens = OutputTokens * Cardinality(good)
    BY <1>4, <2>1
  <2>7. QED
    BY <2>5, <2>6
<1> HIDE DEF tokens
<1>6. QED
  BY <1>1, <1>3, <1>4, <1>5

\* A file that is a report of this run is the one the program writes.
LEMMA ReportFacts ==
    ASSUME LoadInv, disk.state = "this"
    PROVE  /\ disk = Report(setting) /\ stage = LastStage + 1
           /\ \A raw \in disk.raw \cup disk.measurements : raw = samples
           /\ \A a \in disk.aggregate : a = Aggregate(DOMAIN samples) /\ setting.prog # "cancel"
           /\ \A c \in disk.cohorts : c = [l \in {"short", "long"} |-> Aggregate(Cohort(l))]
<1>1. NoFile.state = "none" /\ OldFile.state = "old" /\ TornFile.state = "torn"
  BY DEF NoFile, OldFile, TornFile
<1>2. disk = Report(setting) /\ stage = LastStage + 1
  BY <1>1 DEF LoadInv, DiskInv
<1> DEFINE keys == ProgramOf(setting).keys
<1>3. /\ Report(setting).raw = IF "raw" \in keys THEN {samples} ELSE {}
      /\ Report(setting).measurements = IF "measurements" \in keys THEN {samples} ELSE {}
      /\ Report(setting).aggregate = IF "aggregate" \in keys THEN {Aggregate(DOMAIN samples)} ELSE {}
      /\ Report(setting).cohorts = IF "cohorts" \in keys
                                   THEN {[l \in {"short", "long"} |-> Aggregate(Cohort(l))]} ELSE {}
  BY DEF Report
<1>4. setting.prog = "cancel" => "aggregate" \notin keys
  BY DEF ProgramOf, Cancel, Program
<1> HIDE DEF keys
<1>5. QED
  BY <1>2, <1>3, <1>4

\* A report of this run says of the measured requests what happened to them.
LEMMA ReportIsTrue ==
    ASSUME LoadInv, disk.state = "this"
    PROVE  ReportTellsTheRun
<1>1. disk = Report(setting) /\ stage = LastStage + 1
  BY ReportFacts
<1>2. /\ {samples[k].id : k \in DOMAIN samples} = MeasuredIds
      /\ {samples[k].id : k \in Successes(samples)} = clean
      /\ clean \subseteq MeasuredIds
      /\ \A k \in DOMAIN samples :
            /\ ~Failed(samples[k]) <=> samples[k].id \in clean
            /\ samples[k].label = Stages(setting)[samples[k].id[1]].labels[samples[k].id[2]]
      /\ setting.prog # "cancel" => \A k \in Successes(samples) : samples[k].tokens = OutputTokens
  BY <1>1, SamplesComplete
<1>3. Len(samples) = Cardinality(MeasuredIds)
  <2>1. Cardinality(DOMAIN samples) = Cardinality(MeasuredIds)
    BY <1>2, AsManyIds
  <2>2. PICK n \in Nat : n = Len(samples) /\ DOMAIN samples = 1 .. n
    BY DEF LoadInv, LoadTypeOK
  <2>3. Cardinality(1 .. n) = n
    <3>1. n \in Int /\ 1 \in Int
      OBVIOUS
    <3>2. QED
      BY <3>1, FS_Interval
  <2>4. QED
    BY <2>1, <2>2, <2>3
<1>4. ASSUME NEW raw \in disk.raw \cup disk.measurements
      PROVE  /\ Len(raw) = Cardinality(MeasuredIds)
             /\ {raw[k].id : k \in DOMAIN raw} = MeasuredIds
             /\ {raw[k].id : k \in {j \in DOMAIN raw : ~Failed(raw[j])}} = clean
  <2>1. raw = samples
    BY ReportFacts
  <2>2. {j \in DOMAIN samples : ~Failed(samples[j])} = Successes(samples)
    BY DEF Successes
  <2>3. {samples[k].id : k \in {j \in DOMAIN samples : ~Failed(samples[j])}} = clean
    BY <1>2, <2>2
  <2>4. QED
    BY <1>2, <1>3, <2>1, <2>3
<1>5. ASSUME NEW a \in disk.aggregate
      PROVE  /\ a.successful = Cardinality(clean)
             /\ a.outputTokens = OutputTokens * Cardinality(clean)
             /\ a.p99 => Cardinality(clean) >= TailRepetitions
  <2>1. a = Aggregate(DOMAIN samples) /\ setting.prog # "cancel"
    BY ReportFacts
  <2>2. DOMAIN samples \cap Successes(samples) = Successes(samples)
    BY DEF Successes
  <2>3. a.successful = Cardinality(clean)
    <3>1. a.successful = Cardinality({samples[k].id : k \in DOMAIN samples \cap Successes(samples)})
      BY <2>1, AggregateFacts
    <3>2. QED
      BY <1>2, <2>2, <3>1
  <2>4. QED
    BY <1>2, <2>1, <2>3, AggregateFacts
<1>6. ASSUME NEW c \in disk.cohorts, NEW l \in {"short", "long"}
      PROVE  LET ids == {id \in MeasuredIds : Stages(setting)[id[1]].labels[id[2]] = l}
             IN /\ c[l].requests = Cardinality(ids)
                /\ c[l].successful = Cardinality(ids \cap clean)
                /\ c[l].p99 => Cardinality(ids \cap clean) >= TailRepetitions
  <2> DEFINE ids == {id \in MeasuredIds : Stages(setting)[id[1]].labels[id[2]] = l}
  <2>1. c[l] = Aggregate(Cohort(l)) /\ Cohort(l) \in SUBSET DOMAIN samples
    BY ReportFacts DEF Cohort
  <2>2. {samples[k].id : k \in Cohort(l)} = ids
    BY <1>2 DEF Cohort
  <2>3. {samples[k].id : k \in Cohort(l) \cap Successes(samples)} = ids \cap clean
    BY <1>2 DEF Cohort, Successes
  <2> HIDE DEF ids
  <2>4. c[l].requests = Cardinality(ids) /\ c[l].successful = Cardinality(ids \cap clean)
    BY <2>1, <2>2, <2>3, AggregateFacts
  <2>5. c[l].p99 => Cardinality(ids \cap clean) >= TailRepetitions
    BY <2>1, <2>4, AggregateFacts
  <2>6. QED
    BY <2>4, <2>5 DEF ids
<1>7. ~cheated
  <2>1. LastStage \in Nat
    BY StageFacts
  <2>2. QED
    BY <1>1, <2>1 DEF LoadInv, DoomInv
<1>8. QED
  BY <1>4, <1>5, <1>6, <1>7 DEF ReportTellsTheRun

\* A command that ends well had a program that did.
LEMMA CleanExit == LoadInv => CleanExitIsEvidence
<1> SUFFICES ASSUME LoadInv, status = 0 PROVE CleanExitIsEvidence
  BY DEF CleanExitIsEvidence
<1>1. CASE setting.shell = "dry"
  BY <1>1 DEF LoadInv, DiskInv, CleanExitIsEvidence
<1>2. CASE setting.shell # "dry"
  <2>1. exit = 0 /\ (setting.shell = "kernellab" => ValidFile(disk))
    BY <1>2 DEF LoadInv, StatusInv, Running
  <2>2. disk = Report(setting) /\ stage = LastStage + 1 /\ ExitCode = 0
    BY <2>1 DEF LoadInv, DiskInv
  <2>3. disk.state = "this"
    BY <2>2 DEF Report
  <2>4. ProgramOf(setting).strict => clean = MeasuredIds
    <3>1. ProgramOf(setting).strict => \A k \in DOMAIN samples : ~Failed(samples[k])
      BY <2>2 DEF ExitCode
    <3>2. QED
      BY <2>2, <3>1, SamplesComplete
  <2>5. QED
    BY <1>2, <2>1, <2>3, <2>4 DEF CleanExitIsEvidence
<1>3. QED
  BY <1>1, <1>2

\* Every report tells the run that wrote it.
THEOREM ReportsTellTheRun == LoadSpec => []ReportTellsTheRun
<1>1. LoadInv => ReportTellsTheRun
  BY ReportIsTrue DEF ReportTellsTheRun
<1>2. QED
  BY <1>1, LoadInvariant, PTL

\* Every command that ends well is evidence.
THEOREM CleanExitsAreEvidence == LoadSpec => []CleanExitIsEvidence
BY CleanExit, LoadInvariant, PTL
=============================================================================
