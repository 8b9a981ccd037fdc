---------------------------- MODULE MCEvidence ----------------------------
(* One way of judging at a time, for TLC: a load test, a cold start, an
   analysis of results, the accuracy gate with its calibration, or the release
   gate. *)
EXTENDS LoadTest, ServerStartup, ResultAnalysis, AccuracyGate, ReleaseGate, TLC

\* Losses on and beyond both bounds of a mean of two.
LossesAround == {-2, 0, 2}

PromptSymmetry == Permutations(Prompts)

LoadIdle ==
    /\ setting = CHOOSE s \in Settings : TRUE
    /\ stage = 0 /\ begun = 0 /\ open = {} /\ group = <<>> /\ escaped = FALSE
    /\ samples = <<>> /\ disk = NoFile /\ exit = 1 /\ status = 1
    /\ clean = {} /\ cheated = FALSE

StartupIdle ==
    /\ server = "none" /\ workers = FALSE /\ reached = "nothing" /\ stranger = "absent"
    /\ pc = "ended" /\ outcome = "refused"
    /\ healthSeen = FALSE /\ modelsSeen = FALSE
    /\ error = "none" /\ graceful = "unset"

GateIdle ==
    /\ option = [candidate |-> "exact-rms", prompts |-> 0, steps |-> 0, traced |-> 0,
                 teacher |-> 0]
    /\ differs = {} /\ calibration = {} /\ installed = {} /\ phase = "ended"
    /\ prompt = 1 /\ step = 0
    /\ cache = [s \in Sides |-> <<>>] /\ trace = [s \in Sides |-> Off]
    /\ forced = 0 /\ answer = [token |-> 0, nan |-> FALSE] /\ touched = FALSE
    /\ totals = NoTotals
    /\ truth = [passes |-> {}, flips |-> {}, nan |-> FALSE, apart |-> FALSE,
                nll |-> 0, losses |-> 0, unlike |-> FALSE, changed |-> {}]
    /\ verdict = "raised"

ReleaseIdle ==
    /\ job = <<>> /\ rows = [s \in Captures |-> <<>>] /\ context = [s \in Captures |-> <<>>]
    /\ file = {} /\ side = "both" /\ released = "raised"

EvidenceInit ==
    \/ LoadInit /\ StartupIdle /\ results = <<>> /\ GateIdle /\ ReleaseIdle
    \/ LoadIdle /\ StartupInit /\ results = <<>> /\ GateIdle /\ ReleaseIdle
    \/ LoadIdle /\ StartupIdle /\ AnalysisInit /\ GateIdle /\ ReleaseIdle
    \/ LoadIdle /\ StartupIdle /\ results = <<>> /\ GateInit /\ ReleaseIdle
    \/ LoadIdle /\ StartupIdle /\ results = <<>> /\ GateIdle /\ ReleaseInit

\* The analysis of results is a function of them, so it takes no step.
EvidenceNext ==
    \/ LoadNext /\ UNCHANGED <<startupVars, results, gateVars, releaseVars>>
    \/ StartupNext /\ UNCHANGED <<loadVars, results, gateVars, releaseVars>>
    \/ GateNext /\ UNCHANGED <<loadVars, startupVars, results, releaseVars>>
    \/ ReleaseNext /\ UNCHANGED <<loadVars, startupVars, results, gateVars>>

EvidenceSpec ==
    EvidenceInit
      /\ [][EvidenceNext]_<<loadVars, startupVars, results, gateVars, releaseVars>>
=============================================================================
