--------------------------- MODULE PageOwnership ---------------------------
(***************************************************************************)
(* What the paged KV allocator promises, without tables, lengths or heap   *)
(* order: every physical block is in the pool or owned by one request, a   *)
(* request takes blocks out of the pool only, and gives all of its blocks  *)
(* back to it at once.                                                     *)
(***************************************************************************)
CONSTANTS Requests,   \* request identifiers
          Blocks      \* physical block numbers

VARIABLES owned,      \* request -> the blocks it holds
          pool        \* blocks on offer

OwnershipInit ==
    /\ owned = [r \in Requests |-> {}]
    /\ pool = Blocks

\* A request takes some blocks out of the pool.
Claim(r, taken) ==
    /\ taken \subseteq pool
    /\ owned' = [owned EXCEPT ![r] = @ \cup taken]
    /\ pool' = pool \ taken

\* A request gives back every block it holds.
Drop(r) ==
    /\ owned' = [owned EXCEPT ![r] = {}]
    /\ pool' = pool \cup owned[r]

OwnershipNext ==
    \E r \in Requests : Drop(r) \/ \E taken \in SUBSET Blocks : Claim(r, taken)

OwnershipSpec == OwnershipInit /\ [][OwnershipNext]_<<owned, pool>>
=============================================================================
