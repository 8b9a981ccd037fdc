---------------------------- MODULE EndlessClients ----------------------------
(***************************************************************************)
(* The engine under clients that never stop sending requests. Identifiers  *)
(* are fresh for every request (serving/api.py draws them from uuid4). So  *)
(* that finitely many are enough, the identifier of a request that ended   *)
(* becomes a fresh one as soon as no step of the loop speaks of it.        *)
(***************************************************************************)
EXTENDS Engine

\* What the engine counted for a request that has ended.
EndCounter == [FINISHED |-> "completed", CANCELLED |-> "cancelled", FAILED |-> "failed",
               TIMED_OUT |-> "timed_out", REJECTED |-> "rejected"]

Counted(r, counter) ==
    CASE counter = "submitted" -> IF state[r] # "REJECTED" /\ HasSampler(r) THEN 1 ELSE 0
      [] counter = "generated_tokens" -> ngen[r]
      [] counter = EndCounter[state[r]] -> IF Closed(r) \/ state[r] = "REJECTED" THEN 1 ELSE 0
      [] OTHER -> 0

Forgettable(r) ==
    /\ phase = "idle"
    /\ state[r] \in Terminal
    /\ Executing => r \notin PlannedIds

\* What the scheduler and the engine remember of an ended request is read by
\* nobody any more; its share of the counters is taken back, to bound them.
BecomesFresh(r) ==
    /\ Forgettable(r)
    /\ state' = [state EXCEPT ![r] = "NEW"]
    /\ shape' = [shape EXCEPT ![r] = NoShape]
    /\ cursor' = [cursor EXCEPT ![r] = 0]
    /\ ngen' = [ngen EXCEPT ![r] = 0]
    /\ due' = due \ {r}
    /\ events' = [events EXCEPT ![r] = <<>>]
    /\ metrics' = [c \in DOMAIN metrics |-> metrics[c] - Counted(r, c)]
    /\ blamed' = blamed \ {r}
    /\ UNCHANGED <<kvVars, queueVars, planVars, pc, row, stopping, cache>>

EndlessNext ==
    \/ \E r \in Requests : BecomesFresh(r)
    \/ Next /\ \A r \in Requests : ~Forgettable(r)

\* The serving loop is as fair as in Engine; clients owe nothing.
EndlessSpec == Init /\ [][EndlessNext]_vars /\ WF_vars(LoopStep)

\* No request waits for ever while the loop runs, whoever else is submitted,
\* cancelled or fails: not for others of its own priority, however many arrive,
\* and not for those of a lower one. Only requests of a higher priority that
\* keep arriving can hold it up (plan() of scheduler.py sorts by priority and
\* serves decodes first, each queue in turns).
Overtaken(r) == \E q \in Requests : Unfinished(q) /\ shape[q].prio > shape[r].prio

AcceptedRequestsEnd ==
    \A r \in Requests :
        []<>(~Unfinished(r) \/ pc = "stopped") \/ []<>Overtaken(r)
=============================================================================
