\* Load tests: two tokens a request, two workers, two measured requests or
\* rounds, so that samples complete out of order and a total can reach the tail's
\* minimum when its cohorts do not. Analysis: three rows, two of which may be
\* equal. Accuracy gate: two prompts and one decode step, so that a candidate can
\* be fed a token of its own and a trace can outlive its prompt; two modules, one
\* that norms queries and keys. Release: two positions, of one prompt or of two.
CONSTANTS
    OutputTokens = 2
    TailRepetitions = 2
    MaxCount = 2
    MaxRows = 3
    MaxValue = 2
    Modules = {1, 2}
    QKModules = {1}
    MaxPrompts = 2
    MaxSteps = 1
    LossChanges <- LossesAround
    Prompts = {a, b}
    MaxPositions = 2
SYMMETRY PromptSymmetry
SPECIFICATION EvidenceSpec
INVARIANTS
    ReportTellsTheRun
    CleanExitIsEvidence
    StartupIsHonest
    AnalysisIsSound
    AcceptanceIsEvidence
    ReleaseIsEvidence
CHECK_DEADLOCK FALSE
