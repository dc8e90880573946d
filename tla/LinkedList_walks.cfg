\* Lists of up to three elements, so that there is a first, a middle and a last
\* one, and a fourth cell: one that was deleted and a walk is still at, or a new
\* one. Walks do not see each other, so there is one.
SPECIFICATION Spec
CONSTANTS
    Cells = {c1, c2, c3, c4}
    Items = {x, y, z}
    NULL = NULL
    Walkers = {w}
    MaxLength = 3
SYMMETRY Symmetry
INVARIANTS
    ListIsSound
    WalksAnswer
PROPERTIES
    KeepsSequence
\* A walk that dereferences NULL ends the process.
CHECK_DEADLOCK FALSE
