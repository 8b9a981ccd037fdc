------------------------------ MODULE ReleaseGate ------------------------------
(***************************************************************************)
(* models/optimized-llama/quality: capture.py or capture_corpus.py lets a  *)
(* reference and a candidate answer prompts greedily, each fed its own     *)
(* tokens, and evaluate.py compares the two files with kernellab/quality   *)
(* and passes the release gate or not. As in AccuracyGate, 0 is the        *)
(* reference's token; a candidate's logits and layers are how far they are *)
(* from the reference's of the same index, and its loss how much worse, in *)
(* units of the gate's tolerance of 0.01.                                  *)
(***************************************************************************)
EXTENDS Integers, Sequences, FiniteSets, SequencesExt

CONSTANTS Prompts,       \* texts of the corpus
          MaxPositions   \* bound on the positions of a capture, --output-tokens
                         \* and the prompts of a corpus

ASSUME ReleaseAssumption == MaxPositions \in Nat \ {0}

VARIABLES job,       \* options of the two captures, by side
          rows,      \* what each capture has recorded: per prompt its positions
          context,   \* tokens of the current prompt and its answer, by side
          file,      \* sides whose capture was saved
          side,      \* whose turn it is, "both" when both are through
          released   \* "open", or how evaluate.py ended

releaseVars == <<job, rows, context, file, side, released>>

Captures == {"reference", "candidate"}

\* capture.py takes one prompt and stores [tokens, vocabulary], capture_corpus.py
\* a list of them and one dimension more. Layers are the hidden states a model
\* returns, none if it returns none.
Jobs == {j \in [tool : {"single", "corpus"}, prompts : BoundedSeq(Prompts, MaxPositions),
                tokens : 0 .. MaxPositions, layers : 0 .. 1] :
            /\ Len(j.prompts) * j.tokens <= MaxPositions
            /\ j.tool = "single" => Len(j.prompts) = 1}

ReleaseInit ==
    /\ job \in [Captures -> Jobs]
    /\ rows = [s \in Captures |-> <<>>] /\ context = [s \in Captures |-> <<>>]
    /\ file = {} /\ side = "reference" /\ released = "open"

Following == IF side = "reference" THEN "candidate" ELSE "both"

\* No prompt, no token (np.stack of nothing raises), or a model that raises:
\* the capture ends without a file. One that an earlier run left in its place is
\* the capture of another job; the jobs of the two sides are independent.
CaptureEnds ==
    /\ side \in Captures /\ side' = Following
    /\ UNCHANGED <<job, rows, context, file, released>>

\* capture_prompt starts without a cache.
StartPrompt ==
    /\ side \in Captures
    /\ job[side].tokens > 0 /\ Len(rows[side]) < Len(job[side].prompts)
    /\ rows[side] # <<>> => Len(Last(rows[side])) = job[side].tokens
    /\ rows' = [rows EXCEPT ![side] = Append(@, <<>>)]
    /\ context' = [context EXCEPT ![side] = <<job[side].prompts[Len(rows[side]) + 1]>>]
    /\ UNCHANGED <<job, file, side, released>>

\* One pass: logits and layers of the last position are kept, the argmax is
\* recorded and fed back. At most one of logits and layers is off, and layers
\* that are not numbers are refused like those that are apart. A loss that is not a
\* number is that of logits that are not.
Own == [token |-> 0, logits |-> "close", layers |-> "close", loss |-> 0]

Outcomes ==
    IF side = "reference" THEN {Own}
    ELSE {out \in [token : {0, 1}, logits : {"close", "apart", "nan"},
                   layers : {"close", "nan"}, loss : -1 .. 2] :
             /\ "close" \in {out.logits, out.layers}
             /\ out.logits = "nan" => out.loss = 0}

CaptureToken ==
    /\ side \in Captures /\ rows[side] # <<>>
    /\ Len(Last(rows[side])) < job[side].tokens
    /\ \E out \in Outcomes :
          /\ rows' = [rows EXCEPT ![side][Len(rows[side])] =
                         Append(@, [at |-> context[side], out |-> out])]
          /\ context' = [context EXCEPT ![side] = Append(@, out.token)]
    /\ UNCHANGED <<job, file, side, released>>

SaveCapture ==
    /\ side \in Captures /\ rows[side] # <<>>
    /\ Len(rows[side]) = Len(job[side].prompts)
    /\ Len(Last(rows[side])) = job[side].tokens
    /\ file' = file \cup {side} /\ side' = Following
    /\ UNCHANGED <<job, rows, context, released>>

(***************************************************************************)
(* kernellab/quality.py over the positions of the candidate's file.        *)
(***************************************************************************)
\* The places of a file's arrays, a prompt and a token each, and what is there.
Positions(s) == UNION {{p} \X DOMAIN rows[s][p] : p \in DOMAIN rows[s]}
Entry(s, x) == rows[s][x[1]][x[2]]

Places == Positions("candidate")
Candidate(x) == Entry("candidate", x).out
Count(key, value) == Cardinality({x \in Places : Candidate(x)[key] = value})

SameShape ==
    LET shape(s) == <<job[s].tool, Len(job[s].prompts), job[s].tokens>>
    IN shape("reference") = shape("candidate")

\* Mutant of Close: what is not below the requirement passes.
CloseUnlessApart(distance) == distance # "apart"

\* cosine_rows maps rows that are not numbers to 0, or to a cosine that is not a
\* number either; np.min lets that through to a comparison it fails.
Close(distance) == distance = "close"

\* At least 99 of 100 tokens.
TokenAgreement == 100 * Count("token", 0) >= 99 * Cardinality(Places)

\* The mean of the losses on the reference's tokens is not worse by more than the
\* tolerance; one that is not a number makes it fail every comparison.
LossKept ==
    /\ Count("logits", "nan") = 0
    /\ Count("loss", 1) + 2 * Count("loss", 2) - Count("loss", -1) <= Cardinality(Places)

LayersKept ==
    /\ job["reference"].layers = job["candidate"].layers
    /\ job["reference"].layers > 0
    /\ \A x \in Places : Close(Candidate(x).layers)

\* evaluate.py: a missing file or another shape raises; otherwise the gate.
Evaluate ==
    /\ side = "both" /\ released = "open"
    /\ released' =
          IF file # Captures \/ ~SameShape THEN "raised"
          ELSE IF /\ TokenAgreement
                  /\ \A x \in Places : Close(Candidate(x).logits)
                  /\ LossKept /\ LayersKept
               THEN "passed" ELSE "refused"
    /\ UNCHANGED <<job, rows, context, file, side>>

ReleaseNext == CaptureEnds \/ StartPrompt \/ CaptureToken \/ SaveCapture \/ Evaluate

ReleaseSpec == ReleaseInit /\ [][ReleaseNext]_releaseVars

\* A candidate is released only on evidence: something was compared, every value
\* compared was a number and close, in as many layers as the reference has, the
\* loss is in the mean worse by no more than the tolerance (a position may be far
\* worse if the others make up for it), and although both models ran freely, the
\* positions compared for the same prompts had the same history, all but those
\* of a prompt that come after one of the tokens, one in a hundred, that differ
\* (evaluate.py, quality.py, capture.py, capture_corpus.py).
ReleaseIsEvidence ==
    released = "passed" =>
    LET diverged == {x \in Places : Candidate(x).token # 0}
        before(x) == {y \in diverged : y[1] = x[1] /\ y[2] < x[2]}
        worse(k) == Cardinality({x \in Places : Candidate(x).loss = k})
    IN /\ Places # {} /\ Positions("reference") = Places
       /\ \A x \in Places :
             /\ {Candidate(x).logits, Candidate(x).layers} = {"close"}
             /\ job["reference"].prompts = job["candidate"].prompts =>
                   (Entry("candidate", x).at = Entry("reference", x).at
                       <=> before(x) = {})
       /\ 100 * Cardinality(diverged) <= Cardinality(Places)
       /\ job["candidate"].layers = job["reference"].layers
       /\ worse(1) + 2 * worse(2) - worse(-1) <= Cardinality(Places)
=============================================================================
