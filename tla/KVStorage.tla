----------------------------- MODULE KVStorage -----------------------------
(***************************************************************************)
(* The allocator together with the K/V tensors it owns: write() of         *)
(* serving/paged_kv.py stores a token's keys and values through the block  *)
(* table. A tensor cell is abstracted to the request and position whose    *)
(* token was stored there last; layers, heads and numbers are left out.    *)
(***************************************************************************)
EXTENDS PagedKV

VARIABLES cells,    \* <<block, offset>> -> the token it stores
          written   \* request -> positions write() stored (history variable)

storageVars == <<kvVars, cells, written>>

Offsets == 0 .. BlockSize - 1
Uninitialised == <<>>      \* torch.empty

StorageInit ==
    /\ KVInit
    /\ cells = [c \in Blocks \X Offsets |-> Uninitialised]
    /\ written = [r \in Requests |-> {}]

\* write() of the positions first .. last: the positions are stored in order,
\* and the first one past the reserved length raises IndexError after the
\* earlier ones were stored.
Write(r, first, last) ==
    /\ r \in live
    /\ LET stored == {p \in first .. last : p < len[r]}
           target(p) == Slot(table[r], p)
       IN /\ cells' = [c \in DOMAIN cells |->
                          IF \E p \in stored : target(p) = c
                          THEN <<r, CHOOSE p \in stored : target(p) = c>>
                          ELSE cells[c]]
          /\ written' = [written EXCEPT ![r] = @ \cup stored]
    /\ UNCHANGED kvVars

\* append_slots and create leave the tensors alone, and so does release: a
\* reused block still holds the tokens of its last owner.
StorageNext ==
    \E r \in Requests :
        \/ Create(r) /\ UNCHANGED <<cells, written>>
        \/ \E n \in 1 .. BlockSize + 1 :
              AppendSlots(r, n) /\ UNCHANGED <<cells, written>>
        \/ \E first \in 0 .. CapacityTokens - 1, n \in 0 .. BlockSize :
              Write(r, first, first + n)
        \/ /\ r \in live
           /\ Release(r)
           /\ written' = [written EXCEPT ![r] = {}]
           /\ UNCHANGED cells

StorageSpec == StorageInit /\ [][StorageNext]_storageVars
=============================================================================
