\* Three requests over four blocks of two tokens: any request can be short of
\* blocks while another holds them, and blocks are reused out of order.
CONSTANTS
    Requests = {r1, r2, r3}
    NumBlocks = 4
    BlockSize = 2
SPECIFICATION KVSpec
INVARIANT TableFitsLength
INVARIANT NoSlotAliasing
PROPERTY SlotsAreStable
PROPERTY ImplementsOwnership
