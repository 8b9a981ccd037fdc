----------------------------- MODULE AccuracyGate -----------------------------
(***************************************************************************)
(* profiling/qwen_accuracy_gate.py: a candidate built from a model by      *)
(* replacing its RMSNorms runs in lockstep with the model, fed the model's *)
(* own tokens, and is accepted or not. Which modules the calibrated        *)
(* candidate replaces was measured before by qwen_rms_sensitivity.py.      *)
(*                                                                         *)
(* Tokens are reduced to 0, what the model itself answers in a context,    *)
(* and 1, anything else; tensors to how far the candidate's are from it;   *)
(* differences of a loss to multiples of the gate's tolerance of 0.01.     *)
(***************************************************************************)
EXTENDS Integers, Sequences, FiniteSets, SequencesExt

CONSTANTS Modules,      \* RMSNorm modules of the model
          QKModules,    \* those among them that norm queries and keys
          MaxPrompts, MaxSteps,
          LossChanges   \* how a loss can differ, in units of the tolerance

ASSUME GateAssumption ==
    /\ QKModules \subseteq Modules
    /\ LossChanges \subseteq Int
    /\ MaxPrompts \in Nat \ {0} /\ MaxSteps \in Nat \ {0}

VARIABLES option,     \* the command line
          differs,    \* passes in which a module the candidate replaces rounds
                      \* differently: any, unless a calibration excludes some
          calibration,\* the file of qwen_rms_sensitivity, if any: at most one
          installed,  \* modules of the candidate that run the fast kernel
          phase,      \* where main() is
          prompt, step,
          cache,      \* tokens in the caches, by model
          trace,      \* OperationTrace, by model
          forced,     \* token
          answer,     \* candidate's logits of the last pass
          touched,    \* the candidate left the model's trajectory on this prompt
          totals,     \* the accumulators of main()
          truth,      \* what the candidate really did (history)
          verdict     \* "running", or how the program ended

gateVars == <<option, differs, calibration, installed, phase, prompt, step, cache,
              trace, forced, answer, touched, totals, truth, verdict>>

Sides == {"model", "candidate"}
Passes == (1 .. MaxPrompts) \X (0 .. MaxSteps)    \* step 0 is the prefill
NaN == "nan"

\* --candidate and the replacement it installs; "exact-rms" installs the
\* reference, which rounds as the model does, and "precise-rms", left out, one
\* that replaces the same modules as "fast-rms".
Candidates == {"exact-rms", "fast-rms", "qk-fast-rms", "calibrated-rms",
               "fast-residual-rms"}

Options ==
    {o \in [candidate : Candidates, prompts : 0 .. MaxPrompts, steps : 0 .. MaxSteps,
            traced : 0 .. MaxPrompts, teacher : 0 .. MaxPrompts] :
        \* more than there are mean all
        o.traced <= o.prompts /\ o.teacher <= o.prompts}

NoTotals == [prefill |-> 0, decode |-> 0, decodes |-> 0, nll |-> 0, losses |-> 0,
             nllNaN |-> FALSE, finite |-> TRUE, layersClose |-> TRUE, missing |-> 0]

Off == [enabled |-> FALSE, detailed |-> FALSE,
        values |-> [name \in {"layer", "detail"} |-> <<>>]]

GateInit ==
    /\ option \in Options
    /\ differs = Passes
    /\ calibration = {} /\ installed = {} /\ phase = "calibrate"
    /\ prompt = 1 /\ step = 0
    /\ cache = [s \in Sides |-> <<>>] /\ trace = [s \in Sides |-> Off]
    /\ forced = 0 /\ answer = [token |-> 0, nan |-> FALSE] /\ touched = FALSE
    /\ totals = NoTotals
    /\ truth = [passes |-> {}, flips |-> {}, nan |-> FALSE, apart |-> FALSE,
                nll |-> 0, losses |-> 0, unlike |-> FALSE, changed |-> {}]
    /\ verdict = "running"

(***************************************************************************)
(* qwen_rms_sensitivity.py: hooks compare the fast kernel with every       *)
(* module's own output while the model runs unchanged. Which of the gate's *)
(* passes are among those it measured depends on both command lines: on    *)
(* seeds, prompt files, lengths and how many prompts and steps; the gate   *)
(* compares nothing but the model's name.                                  *)
(***************************************************************************)
Workload == (1 .. option.prompts) \X (0 .. option.steps)

\* Modules that no measured pass told from the fast kernel, if `rounding` holds
\* the modules and passes that do.
Unchanged(rounding, measured) ==
    {m \in Modules : \A p \in measured : <<m, p>> \notin rounding}

\* Passes that are not the gate's may rule out more modules.
Calibrate ==
    /\ phase = "calibrate" /\ phase' = "launch"
    /\ \/ option.candidate = "calibrated-rms"
          /\ \E rounding \in SUBSET (Modules \X Passes), same \in BOOLEAN,
                shared \in SUBSET (1 .. MaxPrompts), steps \in 0 .. MaxSteps :
                LET measured == shared \X (0 .. steps)
                IN \E safe \in SUBSET Unchanged(rounding, measured) :
                      /\ calibration' = {[sameModel |-> same, passes |-> measured,
                                          modules |-> safe]}
                      /\ differs' = {p \in Passes : \E m \in safe : <<m, p>> \in rounding}
       \/ UNCHANGED <<calibration, differs>>
    /\ UNCHANGED <<option, installed, prompt, step, cache, trace, forced,
                   answer, touched, totals, truth, verdict>>

\* main() up to the loop: SystemExit, or both models loaded and the candidate's
\* modules replaced.
Replaced ==
    CASE option.candidate = "exact-rms" -> {}
      [] option.candidate = "qk-fast-rms" -> QKModules
      [] option.candidate = "calibrated-rms" -> UNION {c.modules : c \in calibration}
      [] OTHER -> Modules

Refused ==
    \/ option.prompts = 0 \/ option.steps = 0
    \/ option.candidate = "calibrated-rms" /\ ~\E c \in calibration : c.sameModel

LoadModels ==
    /\ phase = "launch"
    /\ IF Refused THEN verdict' = "raised" /\ phase' = "ended" /\ UNCHANGED installed
       ELSE installed' = Replaced /\ phase' = "model" /\ UNCHANGED verdict
    /\ UNCHANGED <<option, differs, calibration, prompt, step, cache, trace, forced,
                   answer, touched, totals, truth>>

(***************************************************************************)
(* OperationTrace.                                                         *)
(***************************************************************************)
\* Mutant of Begin: the values of the pass before are not cleared.
BeginKeeping(t, detailed) == [t EXCEPT !.enabled = TRUE, !.detailed = detailed]

Begin(t, detailed) ==
    [t EXCEPT !.values = Off.values, !.enabled = TRUE, !.detailed = detailed]
End(t) == [t EXCEPT !.enabled = FALSE]

\* The hooks during a pass that calls the modules `names`: each output is
\* appended with the context it was computed in.
Hooked(t, names, output) ==
    IF ~t.enabled THEN t
    ELSE [t EXCEPT !.values = [name \in DOMAIN @ |->
            IF name \in names /\ (t.detailed \/ name = "layer")
            THEN Append(@[name], output) ELSE @[name]]]

\* compare_traces and the accumulators it updates: missing occurrences, whether
\* all values were finite and the layers' cosines high enough. A cosine that is
\* not a number loses against min().
Pairs(name) ==
    {<<trace["candidate"].values[name][i], trace["model"].values[name][i]>> :
        i \in DOMAIN trace["candidate"].values[name] \cap DOMAIN trace["model"].values[name]}

Missing ==
    LET gap(name) == Len(trace["candidate"].values[name]) - Len(trace["model"].values[name])
        size(n) == IF n < 0 THEN -n ELSE n
    IN size(gap("layer")) + size(gap("detail"))

CompareTraces(sum) ==
    LET pairs == Pairs("layer") \cup Pairs("detail")
    IN [sum EXCEPT !.missing = @ + Missing,
                   !.finite = @ /\ \A x \in pairs : x[1].far # NaN,
                   !.layersClose = @ /\ \A x \in Pairs("layer") : x[1].far # "apart"]

(***************************************************************************)
(* The passes. trace_this and the pass's kind choose what is traced.       *)
(***************************************************************************)
Traced == prompt <= option.traced
Decoding == step > 0

\* What a forward pass puts into a cache: the prompt, or the token it is fed.
Fed(s) == IF Decoding THEN Append(cache[s], forced) ELSE <<prompt>>

ModelPass ==
    /\ phase = "model" /\ phase' = "candidate"
    /\ cache' = [cache EXCEPT !["model"] = Fed("model")]
    /\ trace' = [trace EXCEPT !["model"] =
                    IF Traced
                    THEN End(Hooked(Begin(@, Decoding), {"layer", "detail"},
                                    [at |-> Fed("model"), far |-> "close"]))
                    ELSE @]
    /\ UNCHANGED <<option, differs, calibration, installed, prompt, step, forced,
                   answer, touched, totals, truth, verdict>>

\* The candidate follows the model bit by bit until a module it replaced rounds
\* differently; from then on anything may come out.
Differs == touched \/ (installed # {} /\ <<prompt, step>> \in differs)

\* fast-residual-rms does not call the norms it fused when it decodes, and
\* returns partial sums as its layers' outputs.
Names == IF Decoding /\ option.candidate = "fast-residual-rms"
         THEN {"layer"} ELSE {"layer", "detail"}

CandidatePass ==
    /\ phase = "candidate" /\ phase' = "compare"
    /\ touched' = (touched \/ Differs)
    /\ cache' = [cache EXCEPT !["candidate"] = Fed("candidate")]
    /\ \E token \in IF Differs THEN {0, 1} ELSE {0},
          far \in IF Differs THEN {"close", "apart", NaN} ELSE {"close"},
          nan \in IF Differs THEN BOOLEAN ELSE {FALSE} :
          /\ answer' = [token |-> token, nan |-> nan]
          /\ trace' = [trace EXCEPT !["candidate"] =
                          IF Traced THEN End(Hooked(Begin(@, Decoding), Names,
                                                    [at |-> Fed("candidate"), far |-> far]))
                          ELSE @]
          /\ truth' =
                [truth EXCEPT !.passes = @ \cup {<<prompt, step>>},
                              !.flips = IF token = 1 THEN @ \cup {<<prompt, step>>} ELSE @,
                              !.nan = @ \/ nan \/ (Traced /\ far = NaN),
                              !.apart = @ \/ (Traced /\ far = "apart"),
                              !.changed = IF Differs THEN @ \cup {<<prompt, step>>} ELSE @]
    /\ UNCHANGED <<option, differs, calibration, installed, prompt, step, forced,
                   totals, verdict>>

\* Either pass may raise, for want of memory; the hooks are removed and there
\* is no report.
PassRaises ==
    /\ phase \in {"model", "candidate"} /\ phase' = "ended" /\ verdict' = "raised"
    /\ UNCHANGED <<option, differs, calibration, installed, prompt, step, cache, trace,
                   forced, answer, touched, totals, truth>>

\* The history of the model's own greedy answers.
Trajectory == <<prompt>> \o [i \in 1 .. step |-> 0]

Compare ==
    LET same == IF answer.token = 0 THEN 1 ELSE 0
        traced == IF Traced THEN CompareTraces(totals) ELSE totals
    IN /\ phase = "compare"
       /\ totals' = [traced EXCEPT !.finite = @ /\ ~answer.nan,
                                   !.prefill = @ + (IF Decoding THEN 0 ELSE same),
                                   !.decode = @ + (IF Decoding THEN same ELSE 0),
                                   !.decodes = @ + (IF Decoding THEN 1 ELSE 0)]
       /\ truth' = [truth EXCEPT !.unlike =
                       \/ @ \/ \E s \in Sides : cache[s] # Trajectory
                       \/ Traced /\ \E x \in Pairs("layer") \cup Pairs("detail") :
                                       x[1].at # Trajectory \/ x[2].at # Trajectory]
       /\ forced' = 0      \* the model's answer, whatever the candidate's
       /\ phase' = IF ~Decoding /\ prompt <= option.teacher THEN "loss" ELSE "next"
       /\ UNCHANGED <<option, differs, calibration, installed, prompt, step, cache,
                      trace, answer, touched, verdict>>

\* Teacher-forced losses of the prompt, unless it is a single token. The hooks
\* are still in place.
LossPass ==
    /\ phase = "loss" /\ phase' = "next"
    /\ \/ UNCHANGED <<totals, truth>>                          \* a single token
       \/ \E loss \in IF Differs THEN LossChanges ELSE {0} :
             /\ totals' = [totals EXCEPT !.nll = @ + loss, !.losses = @ + 1]
             /\ truth' = [truth EXCEPT !.nll = @ + loss, !.losses = @ + 1]
       \/ /\ Differs
          /\ totals' = [totals EXCEPT !.nllNaN = TRUE, !.losses = @ + 1]
          /\ truth' = [truth EXCEPT !.nan = TRUE, !.losses = @ + 1]
    /\ trace' = [s \in Sides |-> Hooked(trace[s], {"layer", "detail"},
                                        [at |-> <<>>, far |-> "close"])]
    /\ UNCHANGED <<option, differs, calibration, installed, prompt, step, cache,
                   forced, answer, touched, verdict>>

\* The loops over the decode steps and the prompts.
Advance ==
    /\ phase = "next"
    /\ IF step < option.steps
       THEN phase' = "model" /\ step' = step + 1 /\ UNCHANGED <<prompt, touched>>
       ELSE IF prompt < option.prompts
       THEN phase' = "model" /\ prompt' = prompt + 1 /\ step' = 0 /\ touched' = FALSE
       ELSE phase' = "report" /\ UNCHANGED <<prompt, step, touched>>
    /\ UNCHANGED <<option, differs, calibration, installed, cache, trace, forced,
                   answer, totals, truth, verdict>>

\* evaluate_gate, the report and the exit status. Agreement is 0.99, and the mean
\* of the loss differences is 0.01 at most, in either direction.
Agrees(matches, total) == 100 * matches >= 99 * total
MeanWithinTolerance(sum, count) == -count <= sum /\ sum <= count

GatePasses ==
    /\ Agrees(totals.prefill, option.prompts)
    /\ Agrees(totals.decode, totals.decodes)
    /\ totals.layersClose
    /\ ~totals.nllNaN /\ MeanWithinTolerance(totals.nll, totals.losses)
    /\ totals.finite
    /\ totals.missing = 0

WriteVerdict ==
    /\ phase = "report" /\ phase' = "ended"
    /\ \/ GatePasses /\ verdict' = "passed"
       \/ ~GatePasses /\ verdict' = "failed"
       \/ ~GatePasses /\ verdict' = "ignored"          \* --no-fail
    /\ UNCHANGED <<option, differs, calibration, installed, prompt, step, cache, trace,
                   forced, answer, touched, totals, truth>>

GateNext ==
    \/ Calibrate \/ LoadModels \/ ModelPass \/ CandidatePass \/ PassRaises \/ Compare
    \/ LossPass \/ Advance \/ WriteVerdict

(***************************************************************************)
(* Properties.                                                             *)
(***************************************************************************)
Flips(decoding) == {p \in truth.flips : p[2] > 0 <=> decoding}

\* An accepted candidate answered like the model, in the model's own contexts,
\* over the whole workload: each pass was compared, of the same tokens on both
\* sides, none gave a value that is not a number, the traced layers were close
\* and complete, and the losses that were measured differ by no more than the
\* tolerance in the mean. A calibrated candidate, accepted or not, never leaves
\* the model in a pass its calibration measured; of any other pass the file
\* says nothing (qwen_accuracy_gate.py, accuracy_utils.py,
\* qwen_rms_sensitivity.py).
AcceptanceIsEvidence ==
    /\ ~truth.unlike
    /\ verdict = "passed" =>
          /\ truth.passes = Workload
          /\ Agrees(option.prompts - Cardinality(Flips(FALSE)), option.prompts)
          /\ Agrees(option.prompts * option.steps - Cardinality(Flips(TRUE)),
                    option.prompts * option.steps)
          /\ ~truth.nan /\ ~truth.apart /\ MeanWithinTolerance(truth.nll, truth.losses)
          /\ ~(option.candidate = "fast-residual-rms" /\ option.traced > 0)
    /\ \A c \in calibration : truth.changed \cap c.passes = {}
=============================================================================
