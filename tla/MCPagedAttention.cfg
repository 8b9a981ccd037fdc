\* Two requests over two blocks of two tokens: a block is written by one
\* request, released, and handed to the other with its old contents; tables
\* are wider than a request needs. Tiles of one, two and four tokens cut a
\* block, are one, or span two.
CONSTANTS
    Requests = {r1, r2}
    NumBlocks = 2
    BlockSize = 2
    Layers = 2
    DefaultBlock = 2
    DefaultTile = 2
    Tiles = {1, 2, 4}
    Heads = 4
    KVHeads = 2
    GatherTile = 2
    Deployments <- MCDeployments
SYMMETRY RequestSymmetry
SPECIFICATION AttentionSpec
INVARIANT AttentionReadsOwnTokens
