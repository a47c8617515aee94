\* realloc as it is.
\* Two chunks and a large block fit below Limit; 13 and 20 are more than a
\* chunk's block, 64 more than there is.
CONSTANTS
    Align = 2
    Header = 4
    Chunk = 16
    Word = 128
    Limit = 40
    Sizes = {1, 5}
    Counts = {3, 64}
    Vars = {p, q, r}
    NULL = NULL
    MayExpandBack = TRUE
SYMMETRY Symmetry
SPECIFICATION Spec
INVARIANTS
    OwnedIsAllocated
CHECK_DEADLOCK FALSE
