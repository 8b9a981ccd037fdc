--------------------------- MODULE ResultAnalysis ---------------------------
(***************************************************************************)
(* kernellab/analysis.py over the rows of several result files. A row      *)
(* keeps what the analysis compares: its load (concurrency and output      *)
(* tokens, one key of length_fairness), and latencies and throughputs that *)
(* are small positive numbers; a p99 of 0 stands for one not reported.     *)
(***************************************************************************)
EXTENDS Integers, Sequences, FiniteSets, SequencesExt

CONSTANTS MaxRows,   \* bound on the result files of an analysis
          MaxValue   \* bound on a throughput and a latency

ASSUME AnalysisAssumption == MaxRows \in Nat /\ MaxValue \in Nat

VARIABLE results    \* what main() of analyze_results.py read

Row == [load : 1 .. 2, input : 1 .. 2, throughput : 1 .. MaxValue,
        p99 : 0 .. MaxValue, failed : BOOLEAN]

\* throughput_latency_frontier: rows without failures and with a p99, less the
\* dominated ones, sorted by latency. Rows are named by their index.
Usable == {i \in DOMAIN results : results[i].p99 # 0 /\ ~results[i].failed}

\* Mutant of Dominates: a row dominates its equals.
DominatesEquals(a, b) == a.throughput >= b.throughput /\ a.p99 <= b.p99

Dominates(a, b) ==
    /\ a.throughput >= b.throughput /\ a.p99 <= b.p99
    /\ a.throughput > b.throughput \/ a.p99 < b.p99

Undominated ==
    {i \in Usable : ~\E j \in Usable : Dominates(results[j], results[i])}

\* sorted() is stable: a row's place is the number of those up to and with it.
Place(i) ==
    Cardinality({j \in Undominated : \/ results[j].p99 < results[i].p99
                                     \/ results[j].p99 = results[i].p99 /\ j <= i})

Frontier ==
    [k \in 1 .. Cardinality(Undominated) |->
        results[CHOOSE i \in Undominated : Place(i) = k]]

\* saturation_point: the first of the failure-free rows with most throughput;
\* the empty set is None.
Saturation ==
    LET good == {i \in DOMAIN results : ~results[i].failed}
        best == {i \in good : \A j \in good :
                    results[j].throughput <= results[i].throughput}
    IN {results[i] : i \in {k \in best : \A j \in best : k <= j}}

\* length_fairness: the rows with a p99 that share a load, if they differ in input
\* length; the extremes are the first of the smallest and largest p99.
Group(c) == {i \in DOMAIN results : results[i].load = c /\ results[i].p99 # 0}

Extreme(group, sign) ==
    LET best == {i \in group : \A j \in group : sign * results[i].p99 <= sign * results[j].p99}
    IN results[CHOOSE i \in best : \A j \in best : i <= j]

LengthFairness ==
    {[load |-> c,
      fastest |-> Extreme(Group(c), 1),
      slowest |-> Extreme(Group(c), -1)] :
     c \in {k \in {results[i].load : i \in DOMAIN results} :
               Cardinality({results[i].input : i \in Group(k)}) > 1}}

\* The analysis is one computation: nothing moves after the files are read.
AnalysisInit == results \in BoundedSeq(Row, MaxRows)

AnalysisSpec == AnalysisInit /\ [][UNCHANGED results]_results

\* The analysis names the right rows: those of the frontier have a latency and no
\* failures, none beats another, they are in order, and every usable row is
\* matched or beaten by one of them, so that equal rows do not remove each other;
\* the saturation point is a failure-free row that none outruns; and a fairness
\* ratio covers every pair of rows of its load (kernellab/analysis.py).
AnalysisIsSound ==
    /\ \A i, j \in DOMAIN Frontier :
          /\ Frontier[i].p99 # 0 /\ ~Frontier[i].failed
          /\ ~Dominates(Frontier[i], Frontier[j])
          /\ i < j => Frontier[i].p99 <= Frontier[j].p99
    /\ \A i \in DOMAIN results : (results[i].p99 # 0 /\ ~results[i].failed) =>
          \E k \in DOMAIN Frontier : /\ Frontier[k].throughput >= results[i].throughput
                                     /\ Frontier[k].p99 <= results[i].p99
    /\ \A i \in DOMAIN results : ~results[i].failed =>
          \E r \in Saturation : ~r.failed /\ r.throughput >= results[i].throughput
    /\ \A f \in LengthFairness : \A i, j \in Group(f.load) :
          results[i].p99 * f.fastest.p99 <= f.slowest.p99 * results[j].p99
=============================================================================
