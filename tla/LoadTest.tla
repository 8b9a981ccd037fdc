------------------------------ MODULE LoadTest ------------------------------
(***************************************************************************)
(* The load-test programs of models/optimized-llama/benchmarks, run        *)
(* directly or by `kernellab benchmark`. Each is a sequence of stages      *)
(* (cold, warmup, measured) of requests that a pool of threads, or the     *)
(* main thread alone, sends to a server; it may give up after a stage,     *)
(* and writes one report at the end. Time is left out: latencies are       *)
(* reduced to whether a 99th percentile is reported, the duration of a     *)
(* soak to its number of rounds.                                           *)
(***************************************************************************)
EXTENDS Integers, Sequences, FiniteSets, SequencesExt

CONSTANTS OutputTokens,     \* --output-tokens
          TailRepetitions,  \* TAIL_REPETITIONS, and the validator's 100
          MaxCount          \* bound on warmups, repetitions, workers, rounds

ASSUME LoadAssumption ==
    /\ OutputTokens \in Nat \ {0}
    /\ TailRepetitions \in Nat \ {0}
    /\ MaxCount \in Nat \ {0}

VARIABLES setting,   \* the program and its options
          stage,     \* position in Stages(setting), 0 before the first
          begun,     \* requests of the stage that were sent
          open,      \* those of them being answered
          group,     \* samples of the stage, in order of completion
          escaped,   \* an exception no handler caught waits in a future
          samples,   \* the samples the report will hold
          disk,      \* the output file
          exit,      \* the program's exit status
          status,    \* what the caller's command returned
          clean,     \* measured requests the server answered perfectly (history)
          cheated    \* a required cold or warmup request was not (history)

loadVars == <<setting, stage, begun, open, group, escaped, samples, disk,
              exit, status, clean, cheated>>

Running == -1   \* no exit status yet

(***************************************************************************)
(* One streamed request.                                                   *)
(***************************************************************************)
\* A line of the response: a chunk of k >= 0 token ids, or one of these.
Comment == -1       \* does not start with "data:"
Done == -2          \* data: [DONE]
Malformed == -3     \* data that is not JSON
Lines == -3 .. 2

\* What a server may send and how the connection then ends: "lost" raises what
\* stream_request catches (URLError, timeout), "reset" what it does not
\* (RemoteDisconnected, IncompleteRead, ConnectionResetError).
Streams == [lines : BoundedSeq(Lines, OutputTokens + 1),
            end : {"eof", "lost", "reset"}]

\* consume_sse reads up to [DONE]; an exception loses what it had collected.
ConsumeLine(line, read) ==
    IF read.stop THEN read
    ELSE IF line = Done THEN [read EXCEPT !.stop = TRUE]
    ELSE IF line = Malformed
         THEN [read EXCEPT !.stop = TRUE, !.error = "transport", !.tokens = 0]
    ELSE IF line = Comment THEN read
    ELSE [read EXCEPT !.tokens = @ + line, !.multi = @ \/ line > 1]

Unread == [tokens |-> 0, multi |-> FALSE, error |-> "none", stop |-> FALSE]

ReadUpTo(lines) ==
    LET after[k \in 0 .. Len(lines)] ==
            IF k = 0 THEN Unread ELSE ConsumeLine(lines[k], after[k - 1])
    IN after

ConsumeSSE(stream) ==
    LET read == ReadUpTo(stream.lines)[Len(stream.lines)]
    IN IF read.stop \/ stream.end = "eof" THEN read
       ELSE [read EXCEPT !.tokens = 0,
                         !.error = IF stream.end = "lost" THEN "transport"
                                   ELSE "escapes"]

\* Mutant of StreamRequest: a response that ends early is a success.
StreamRequestUncounted(stream) ==
    LET read == ConsumeSSE(stream)
    IN [tokens |-> read.tokens,
        error |-> IF read.error # "none" THEN read.error
                  ELSE IF read.multi THEN "multi" ELSE "none"]

\* The sample's token count and error.
StreamRequest(stream) ==
    LET read == ConsumeSSE(stream)
    IN [tokens |-> read.tokens,
        error |-> IF read.error # "none" THEN read.error
                  ELSE IF read.tokens # OutputTokens THEN "count"
                  ELSE IF read.multi THEN "multi" ELSE "none"]

\* The reference: up to [DONE], or to a proper end, the server sent exactly the
\* tokens asked for, each in a chunk of its own.
Perfect(stream) ==
    LET n == Len(stream.lines)
        \* the lines before the first [DONE]
        body == {i \in 1 .. n : \A j \in 1 .. i : stream.lines[j] # Done}
    IN /\ Cardinality(body) < n \/ stream.end = "eof"
       /\ \A i \in body : stream.lines[i] \in {Comment, 0, 1}
       /\ Cardinality({i \in body : stream.lines[i] = 1}) = OutputTokens

\* The cancellation probe leaves at the first token; [DONE] does not stop it.
FirstToken(stream) ==
    LET hits == {i \in DOMAIN stream.lines : stream.lines[i] > 0}
        bad == {i \in DOMAIN stream.lines : stream.lines[i] = Malformed}
    IN CASE \E i \in hits : \A j \in bad : i < j -> "none"
         [] hits = {} /\ bad = {} /\ stream.end = "eof" -> "untouched"
         [] OTHER -> "escapes"

\* What a request may come to, for each way of sending one. A local model
\* either answers in full or raises; run_request_safe catches that, the cold
\* request and the offline programs do not.
StreamReplies == {[got |-> StreamRequest(s), perfect |-> Perfect(s)] : s \in Streams}
ProbeReplies ==
    {[got |-> [tokens |-> 0, error |-> FirstToken(s)],
      perfect |-> \E i \in DOMAIN s.lines : s.lines[i] > 0] : s \in Streams}
LocalReplies(failure) ==
    {[got |-> [tokens |-> OutputTokens, error |-> "none"], perfect |-> TRUE],
     [got |-> [tokens |-> 0, error |-> failure], perfect |-> FALSE]}

Replies(prog, kind) ==
    CASE prog = "cancel" -> ProbeReplies
      [] prog = "torch" -> LocalReplies(IF kind = "cold" THEN "escapes" ELSE "transport")
      [] prog \in {"offline", "sweep"} -> LocalReplies("escapes")
      [] OTHER -> StreamReplies

(***************************************************************************)
(* The programs as sequences of stages.                                    *)
(***************************************************************************)
\* A stage of no workers is a loop of the main thread. The gate says when the
\* program gives up: at the "first" error, once "all" have ended, or "never".
Stage(kind, labels, workers, gate) ==
    [kind |-> kind, labels |-> labels, workers |-> workers, gate |-> gate]

Plain(n) == [i \in 1 .. n |-> "plain"]

\* Stages the program repeats: rounds of a soak, shapes of a sweep.
Rounds(n, block) ==
    [k \in 1 .. n * Len(block) |-> block[((k - 1) % Len(block)) + 1]]

\* Stages several programs have.
Cold == Stage("cold", Plain(1), 0, "first")
Pooled(s) == Stage("measured", s.labels, s.workers, "never")
Inline(s) == Stage("measured", s.labels, 0, "never")
FullPool(s) == Stage("warmup", Plain(s.workers), s.workers, "all")

\* A program: the options its parser accepts, its stages, whether its exit
\* status tells that a measured request failed, and the keys of its report,
\* with what it takes the count of requests it claims from, if it claims one.
Program(accepts, stages, strict, keys, claims) ==
    [accepts |-> accepts, stages |-> stages, strict |-> strict, keys |-> keys,
     claims |-> claims]

Serving(s) ==
    Program(s.workers >= 1 /\ s.labels # <<>>,
            <<Cold, Stage("warmup", Plain(s.warmups), 0, "first"), Pooled(s)>>,
            TRUE, {"raw", "aggregate"}, {"labels"})

Mixed(s) ==
    Program(s.workers >= 1 /\ s.labels # <<>>,
            <<Stage("warmup", <<"short", "long">>, 0, "first"), Pooled(s)>>,
            TRUE, {"raw", "aggregate", "cohorts"}, {})

Soak(s) ==
    Program(s.workers >= 1,
            <<FullPool(s)>> \o Rounds(s.rounds, <<Stage("measured", Plain(s.workers),
                                                       s.workers, "never")>>),
            TRUE, {"raw", "aggregate"}, {"samples"})

Overload(s) ==
    Program(s.workers >= 1, <<FullPool(s), Pooled(s)>>, FALSE,
            {"raw", "aggregate"}, {"samples"})

Torch(s) ==
    LET warmups == IF s.warmups = 0 THEN 0 ELSE Max({s.warmups, s.workers})
    IN Program(s.workers >= 1 /\ s.labels # <<>>,
               <<Cold, Stage("warmup", Plain(warmups), s.workers, "never"), Pooled(s)>>,
               FALSE, {"raw", "aggregate"}, {"labels"})

Cancel(s) == Program(TRUE, <<Inline(s)>>, TRUE, {"raw", "schema 1"}, {})

Offline(s) ==
    Program(TRUE, <<Stage("warmup", Plain(s.warmups), 0, "never"), Inline(s)>>,
            FALSE, {"raw"}, {"labels"})

Sweep(s) ==
    Program(s.workers >= 1,
            Rounds(s.rounds, <<Stage("warmup", Plain(s.warmups), 0, "never"), Inline(s)>>),
            FALSE, {"measurements"}, {"labels"})

ProgramOf(s) ==
    CASE s.prog = "serving" -> Serving(s)
      [] s.prog = "mixed" -> Mixed(s)
      [] s.prog = "soak" -> Soak(s)
      [] s.prog = "overload" -> Overload(s)
      [] s.prog = "torch" -> Torch(s)
      [] s.prog = "cancel" -> Cancel(s)
      [] s.prog = "offline" -> Offline(s)
      [] s.prog = "sweep" -> Sweep(s)

Stages(s) == ProgramOf(s).stages

\* workload_labels shuffles as many short as long requests; an overload of zero
\* requests is replaced by a default.
LabelsOf(prog) ==
    LET plain == {Plain(n) : n \in 0 .. MaxCount}
        default(w) == Plain(Max({TailRepetitions, 4 * w}))
    IN CASE prog = "mixed" -> {<<"short", "long">>, <<"long", "short">>, <<>>}
         [] prog = "overload" -> {default(1)} \cup (plain \ {<<>>})
         [] OTHER -> plain

Counts == 0 .. MaxCount

\* Options of a run and how it is started: as a script, by `kernellab
\* benchmark` (which runs two of the programs), or by its --dry-run.
Settings ==
    {s \in [prog : {"serving", "mixed", "soak", "overload", "torch", "cancel",
                    "offline", "sweep"},
            shell : {"script", "kernellab", "dry"},
            labels : UNION {LabelsOf(p) : p \in {"mixed", "overload", "torch"}},
            warmups : Counts, workers : Counts, rounds : Counts] :
        /\ s.labels \in LabelsOf(s.prog)
        /\ s.shell # "script" => s.prog \in {"serving", "torch"}
        /\ s.prog \notin {"soak", "sweep"} => s.rounds = 1
        /\ s.prog = "soak" => s.labels = <<>>
        /\ s.prog \in {"mixed", "soak", "overload", "cancel"} => s.warmups = 0
        /\ s.prog \in {"cancel", "offline"} => s.workers = 0
        /\ s.prog = "sweep" => s.workers = 1}

(***************************************************************************)
(* Reports: what aggregate_requests and the programs write, and what       *)
(* validate_benchmark_result accepts. A key that may be absent is a set of *)
(* at most one value.                                                      *)
(***************************************************************************)
Failed(sample) == sample.error # "none"

Successes(seq) == {k \in DOMAIN seq : ~Failed(seq[k])}

\* Of some of the samples. The tokens are those of the successful ones, counted
\* one by one.
Aggregate(part) ==
    LET good == part \cap Successes(samples)
    IN [requests |-> Cardinality(part),
        successful |-> Cardinality(good),
        failed |-> Cardinality(part) - Cardinality(good),
        outputTokens |-> Cardinality(UNION {{k} \X (1 .. samples[k].tokens) : k \in good}),
        p99 |-> Cardinality(good) >= TailRepetitions]

Cohort(label) == {k \in DOMAIN samples : samples[k].label = label}

Report(s) ==
    LET program == ProgramOf(s)
        keyed(key, value) == IF key \in program.keys THEN {value} ELSE {}
    IN [state |-> "this",
        schema |-> IF "schema 1" \in program.keys THEN 1 ELSE 2,
        repetitions |-> {IF c = "labels" THEN Len(s.labels) ELSE Len(samples) :
                            c \in program.claims},
        raw |-> keyed("raw", samples),
        measurements |-> keyed("measurements", samples),
        aggregate |-> keyed("aggregate", Aggregate(DOMAIN samples)),
        cohorts |-> keyed("cohorts", [l \in {"short", "long"} |-> Aggregate(Cohort(l))])]

\* The other contents of the file: none, an earlier run's valid report, or what
\* open("w") leaves when the dump does not complete.
NoFile == [state |-> "none"]
OldFile == [state |-> "old"]
TornFile == [state |-> "torn"]

ValidReport(r) ==
    /\ r.schema = 2
    /\ r.raw # {} \/ r.measurements # {}
    /\ r.raw # {} => r.aggregate # {}
    /\ \A raw \in r.raw, a \in r.aggregate :
          /\ \A n \in r.repetitions : n = Len(raw)
          /\ a.successful = Cardinality(Successes(raw))
          /\ a.p99 => a.successful >= TailRepetitions

\* validate_result_file: a missing or torn file is invalid as well.
ValidFile(f) == f.state = "old" \/ (f.state = "this" /\ ValidReport(f))

(***************************************************************************)
(* Running a program.                                                      *)
(***************************************************************************)
LoadInit ==
    /\ setting \in Settings
    /\ stage = 0 /\ begun = 0 /\ open = {} /\ group = <<>> /\ escaped = FALSE
    /\ samples = <<>> /\ disk \in {NoFile, OldFile}
    /\ exit = Running /\ status = Running
    /\ clean = {} /\ cheated = FALSE

Current == Stages(setting)[stage]
InStage == exit = Running /\ stage \in 1 .. Len(Stages(setting))

\* main() up to the first request: parser errors exit with 2; no CUDA, no
\* tokenizer or no metrics end the program with 1.
Launch ==
    /\ setting.shell # "dry" /\ exit = Running /\ stage = 0
    /\ \/ ~ProgramOf(setting).accepts /\ exit' = 2 /\ stage' = 0
       \/ ProgramOf(setting).accepts /\ exit' = 1 /\ stage' = 0
       \/ ProgramOf(setting).accepts /\ exit' = Running /\ stage' = 1
    /\ UNCHANGED <<setting, begun, open, group, escaped, samples, disk, status,
                   clean, cheated>>

\* A loop of the main thread ends at an exception, or at a failure it tests for.
LoopLeft ==
    /\ Current.workers = 0
    /\ escaped \/ (Current.gate = "first" /\ \E i \in DOMAIN group : Failed(group[i]))

\* The next queued request goes to a free worker. The queue is drained even if
\* a future holds an exception: the with block waits for all of them.
SendRequest ==
    /\ InStage /\ begun < Len(Current.labels) /\ ~LoopLeft
    /\ Cardinality(open) < Max({1, Current.workers})
    /\ begun' = begun + 1
    /\ open' = open \cup {begun + 1}
    /\ UNCHANGED <<setting, stage, group, escaped, samples, disk, exit, status,
                   clean, cheated>>

EndRequest(i) ==
    /\ InStage /\ i \in open
    /\ open' = open \ {i}
    /\ \E reply \in Replies(setting.prog, Current.kind) :
          /\ escaped' = (escaped \/ reply.got.error = "escapes")
          /\ group' = IF reply.got.error = "escapes" THEN group
                      ELSE Append(group, [id |-> <<1, i>>, label |-> Current.labels[i],
                                          tokens |-> reply.got.tokens,
                                          error |-> reply.got.error])
          /\ clean' = IF Current.kind = "measured" /\ reply.perfect
                      THEN clean \cup {<<stage, i>>} ELSE clean
          /\ cheated' = (cheated \/ (/\ Current.kind # "measured"
                                     /\ Current.gate # "never"
                                     /\ ~reply.perfect))
    /\ UNCHANGED <<setting, stage, begun, samples, disk, exit, status>>

StageOver == InStage /\ open = {} /\ (begun = Len(Current.labels) \/ LoopLeft)

\* SystemExit of a failed warmup, or the traceback of an escaped exception.
GivesUp ==
    escaped \/ (Current.gate # "never" /\ \E i \in DOMAIN group : Failed(group[i]))

\* run_group returns the samples sorted by id, a soak prefixes the cycle; mixed
\* keeps them in order of completion. All requests of the stage have ended, so
\* the k-th in order is the one numbered k. (The ids are text, which puts 10
\* before 2; no program reads the order.)
Ordered(k) == IF setting.prog = "mixed" THEN k
              ELSE CHOOSE j \in DOMAIN group : group[j].id[2] = k

Collected ==
    [k \in DOMAIN group |-> [group[Ordered(k)] EXCEPT !.id = <<stage, @[2]>>]]

EndStage ==
    /\ StageOver
    /\ IF GivesUp THEN exit' = 1 /\ UNCHANGED <<stage, samples>>
       ELSE /\ stage' = stage + 1
            /\ samples' = IF Current.kind = "measured" THEN samples \o Collected
                          ELSE samples
            /\ UNCHANGED exit
    /\ begun' = 0 /\ group' = <<>>
    /\ UNCHANGED <<setting, open, escaped, disk, status, clean, cheated>>

\* After the last stage: reading the metrics (bench_reliability) or opening the
\* file may raise, and the report is lost; otherwise the file is truncated ...
OpenReport ==
    /\ exit = Running /\ stage = Len(Stages(setting)) + 1 /\ disk # TornFile
    /\ \/ disk' = TornFile /\ UNCHANGED exit
       \/ exit' = 1 /\ UNCHANGED disk
    /\ UNCHANGED <<setting, stage, begun, open, group, escaped, samples, status,
                   clean, cheated>>

\* Mutant of ExitCode: failed measured requests are only reported.
ExitCodeOfReport == 0

\* ... and the report dumped into it, which may fail half way.
ExitCode ==
    IF ProgramOf(setting).strict /\ \E i \in DOMAIN samples : Failed(samples[i])
    THEN 1 ELSE 0

DumpReport ==
    /\ exit = Running /\ disk = TornFile
    /\ \/ disk' = Report(setting) /\ exit' = ExitCode
       \/ exit' = 1 /\ UNCHANGED disk      \* no space left
    /\ UNCHANGED <<setting, stage, begun, open, group, escaped, samples, status,
                   clean, cheated>>

\* command_benchmark: a dry run returns at once, a failed program's status is
\* passed on, and a report that is missing or invalid is a failure as well.
CommandReturns ==
    /\ status = Running /\ (exit # Running \/ setting.shell = "dry")
    /\ status' = IF setting.shell = "dry" THEN 0
                 ELSE IF exit # 0 \/ setting.shell = "script" THEN exit
                 ELSE IF ValidFile(disk) THEN 0 ELSE 1
    /\ UNCHANGED <<setting, stage, begun, open, group, escaped, samples, disk,
                   exit, clean, cheated>>

LoadNext ==
    \/ Launch
    \/ SendRequest
    \/ InStage /\ \E i \in open : EndRequest(i)
    \/ EndStage
    \/ OpenReport
    \/ DumpReport
    \/ CommandReturns

LoadSpec == LoadInit /\ [][LoadNext]_loadVars

(***************************************************************************)
(* Properties.                                                             *)
(***************************************************************************)
\* The measured requests of the run.
MeasuredIds ==
    UNION {{<<k, i>> : i \in DOMAIN Stages(setting)[k].labels} :
              k \in {j \in DOMAIN Stages(setting) :
                        Stages(setting)[j].kind = "measured"}}

\* A report is about the run that wrote it: it holds one sample of each
\* measured request and none of a cold or warmup one; a sample counts as
\* successful exactly if the server answered it perfectly; totals and cohorts
\* add up, no 99th percentile rests on too few successes, and the requests the
\* program insists on before it measures were answered perfectly
\* (bench_serving, bench_mixed_fairness, bench_reliability, methodology).
ReportTellsTheRun ==
    disk.state = "this" =>
    /\ \A raw \in disk.raw \cup disk.measurements :
          /\ Len(raw) = Cardinality(MeasuredIds)
          /\ {raw[k].id : k \in DOMAIN raw} = MeasuredIds
          /\ {raw[k].id : k \in {j \in DOMAIN raw : ~Failed(raw[j])}} = clean
    /\ \A a \in disk.aggregate :
          /\ a.successful = Cardinality(clean)
          /\ a.outputTokens = OutputTokens * Cardinality(clean)
          /\ a.p99 => Cardinality(clean) >= TailRepetitions
    /\ \A c \in disk.cohorts, l \in {"short", "long"} :
          LET ids == {id \in MeasuredIds : Stages(setting)[id[1]].labels[id[2]] = l}
          IN /\ c[l].requests = Cardinality(ids)
             /\ c[l].successful = Cardinality(ids \cap clean)
             /\ c[l].p99 => Cardinality(ids \cap clean) >= TailRepetitions
    /\ ~cheated

\* A command that ends well is evidence: the output file is this run's whole
\* report, one that validates if `kernellab benchmark` says so, and a strict
\* program had every measured request answered perfectly; a dry run leaves the
\* file alone (command_benchmark, and the SystemExit of the scripts).
CleanExitIsEvidence ==
    status = 0 =>
    IF setting.shell = "dry" THEN disk \in {NoFile, OldFile}
    ELSE /\ disk.state = "this"
         /\ setting.shell = "kernellab" => ValidFile(disk)
         /\ ProgramOf(setting).strict => clean = MeasuredIds
=============================================================================
