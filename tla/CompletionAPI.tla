---------------------------- MODULE CompletionAPI ----------------------------
(***************************************************************************)
(* The completion endpoints (serving/api.py) in front of the engine. Each  *)
(* HTTP request submits one engine request and reads its event queue: a    *)
(* streaming one hands every event on, a collecting one answers at the end.*)
(* The reader of a queue is one more asyncio task: it runs where the       *)
(* serving loop suspends, and a client may leave between any two events.   *)
(***************************************************************************)
EXTENDS Engine

VARIABLES reader,   \* request -> what its HTTP request is doing
          seen,     \* request -> how many events of its queue were read
          usage     \* request -> completion_tokens answered, NoUsage before

apiVars == <<reader, seen, usage>>
allVars == <<vars, apiVars>>

Readers == {"none", "refused", "opening", "streaming", "collecting",
            "answered", "left", "lost"}
NoUsage == -1

APIInit ==
    /\ Init
    /\ reader = [r \in Requests |-> "none"]
    /\ seen = [r \in Requests |-> 0]
    /\ usage = [r \in Requests |-> NoUsage]

\* The generator of events() is at `await queue.get()`.
Reading(r) == reader[r] \in {"streaming", "collecting"}

\* execute: submit; AdmissionError is answered by 503, a Sampler that cannot be
\* made by 500, though its request was admitted. A streaming response starts its
\* generator later, a collecting one at once.
Post(r, s, stream) ==
    /\ ClientSubmit(r, s)
    /\ reader' = [reader EXCEPT ![r] =
                     IF state'[r] = "REJECTED" \/ ~s.sampler THEN "refused"
                     ELSE IF stream THEN "opening" ELSE "collecting"]
    /\ UNCHANGED <<seen, usage>>

\* The server starts to send the body of a streaming response.
OpenBody(r) ==
    /\ Yields
    /\ reader[r] = "opening"
    /\ reader' = [reader EXCEPT ![r] = "streaming"]
    /\ UNCHANGED <<vars, seen, usage>>

\* The events its queue still holds for a reader, and the next one.
Waiting(r) == Reading(r) /\ seen[r] < Len(events[r])
NextEvent(r) == events[r][seen[r] + 1]

\* A token is handed on, or its text collected.
ReadToken(r) ==
    /\ Yields
    /\ Waiting(r) /\ NextEvent(r) = Token
    /\ seen' = [seen EXCEPT ![r] = @ + 1]
    /\ UNCHANGED <<vars, reader, usage>>

\* Mutant of CompletionTokens: the request's budget instead of what it generated.
CompletionTokensMax(r) == shape[r].max

\* The answer reports what the scheduler has generated, not what was collected.
CompletionTokens(r) == ngen[r]

\* The terminal event ends the generator; a collecting request answers.
ReadFinish(r) ==
    /\ Yields
    /\ Waiting(r) /\ NextEvent(r) # Token
    /\ seen' = [seen EXCEPT ![r] = @ + 1]
    /\ reader' = [reader EXCEPT ![r] = "answered"]
    /\ usage' = IF reader[r] = "collecting"
                THEN [usage EXCEPT ![r] = CompletionTokens(r)] ELSE usage
    /\ UNCHANGED vars

\* Mutant of Abandon: the engine is not told.
AbandonSilently(r) == UNCHANGED vars

\* finally: cancel the request unless its terminal event was read; cancel does
\* nothing when the request ended meanwhile.
Abandon(r) == IF Unfinished(r) THEN ClientCancel(r) ELSE UNCHANGED vars

\* A streaming client leaves, or the tokenizer raises on a token.
Leave(r) ==
    /\ Yields
    /\ \/ reader[r] = "streaming"
       \/ Waiting(r) /\ NextEvent(r) = Token
    /\ Abandon(r)
    /\ reader' = [reader EXCEPT ![r] = "left"]
    /\ UNCHANGED <<seen, usage>>

\* A client that leaves before the body was started: a generator that never ran
\* has no finally to run.
LeaveEarly(r) ==
    /\ Yields
    /\ reader[r] = "opening"
    /\ reader' = [reader EXCEPT ![r] = "lost"]
    /\ UNCHANGED <<vars, seen, usage>>

\* DELETE /v1/requests/{id}, by anybody.
Delete(r) == ClientCancel(r) /\ UNCHANGED apiVars

ReaderStep(r) == OpenBody(r) \/ ReadToken(r) \/ ReadFinish(r)

APINext ==
    \/ LoopStep /\ UNCHANGED apiVars
    \/ \E r \in Requests : ClockAdvances(r) /\ UNCHANGED apiVars
    \/ Close /\ UNCHANGED apiVars
    \/ \E r \in Requests, s \in Shapes, stream \in BOOLEAN : Post(r, s, stream)
    \/ \E r \in Requests : ReaderStep(r) \/ Leave(r) \/ LeaveEarly(r) \/ Delete(r)

APISpec == APIInit /\ [][APINext]_allVars

\* Beside the loop, every reader that can go on is run again and again: the
\* event loop runs all ready tasks at each suspension of the serving loop.
APIFairSpec ==
    /\ APISpec
    /\ WF_allVars(LoopStep /\ UNCHANGED apiVars)
    /\ \A r \in Requests : SF_allVars(ReaderStep(r))

-----------------------------------------------------------------------------
\* Properties.

\* An answer is complete when it ends: every event was read, the last one is the
\* terminal one, the request holds nothing any more, and the usage it reports is
\* the number of tokens whose text it contains.
AnswersAreTruthful ==
    \A r \in Requests : reader[r] = "answered" =>
        /\ seen[r] = Len(events[r])
        /\ Closed(r)
        /\ r \notin live
        /\ usage[r] # NoUsage => usage[r] = Len(events[r]) - 1

\* A client that left a started stream costs nothing: its request has ended, its
\* blocks and reservation are back, whatever the loop was doing with it.
LeavingReclaims ==
    \A r \in Requests : reader[r] = "left" =>
        ~Unfinished(r) /\ r \notin live /\ reserved[r] = 0

\* Every request that is being read is answered or left, unless plan() timed it
\* out and told nobody.
ReadersAreAnswered ==
    \A r \in Requests :
        Reading(r) /\ pc # "stopped" ~>
            \/ reader[r] \in {"answered", "left"}
            \/ state[r] = "TIMED_OUT" /\ ~Closed(r)
=============================================================================
