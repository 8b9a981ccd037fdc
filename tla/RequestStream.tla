--------------------------- MODULE RequestStream ---------------------------
(***************************************************************************)
(* What a client of the serving engine may see of its request: a stream    *)
(* that opens once, carries at most its token limit of tokens, and ends    *)
(* with one terminal event, after which it is silent.                      *)
(***************************************************************************)
EXTENDS Integers

CONSTANTS Requests, Limits   \* request identifiers, possible max_new_tokens

VARIABLES stream    \* request -> [limit, tokens, finish]

Reasons == {"stop", "length", "cancelled", "timeout", "error"}
Unopened == [limit |-> 0, tokens |-> 0, finish |-> "unopened"]

StreamInit == stream = [r \in Requests |-> Unopened]

Open(r, limit) ==
    /\ stream[r] = Unopened
    /\ stream' = [stream EXCEPT ![r] = [limit |-> limit, tokens |-> 0, finish |-> "open"]]

\* A token that is not the last one.
Emit(r) ==
    /\ stream[r].finish = "open"
    /\ stream[r].tokens + 1 < stream[r].limit
    /\ stream' = [stream EXCEPT ![r].tokens = @ + 1]

\* The last token and the terminal event together: a stop token at any time,
\* otherwise exactly at the limit.
EmitLast(r, reason) ==
    /\ stream[r].finish = "open"
    /\ reason = "length" => stream[r].tokens + 1 = stream[r].limit
    /\ stream' = [stream EXCEPT ![r].tokens = @ + 1, ![r].finish = reason]

\* The request is cancelled, times out or fails.
Abort(r, reason) ==
    /\ stream[r].finish = "open"
    /\ stream' = [stream EXCEPT ![r].finish = reason]

StreamNext ==
    \E r \in Requests :
        \/ \E limit \in Limits : Open(r, limit)
        \/ Emit(r)
        \/ \E reason \in {"stop", "length"} : EmitLast(r, reason)
        \/ \E reason \in {"cancelled", "timeout", "error"} : Abort(r, reason)

StreamSpec == StreamInit /\ [][StreamNext]_stream
=============================================================================
