\* No realloc expands a block backwards.
\* Two chunks and a large block fit below Limit; 13 and 20 are more than a
\* chunk's block, 64 more than there is.
CONSTANTS
    Align = 2
    Header = 4
    Chunk = 16
    Word = 128
    Limit = 44
    Sizes = {0, 1, 5, 13, 20}
    Counts = {3, 64}
    Vars = {p, q, r}
    NULL = NULL
    MayExpandBack = FALSE
SYMMETRY Symmetry
SPECIFICATION Spec
INVARIANTS
    Tiles
    OneOwner
    Coalesced
