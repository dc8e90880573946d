\* Four blocks to begin with, as in the code: three appends reach the first
\* doubling, and a write far behind the end needs two at once.
SPECIFICATION Spec
CONSTANTS
    BlockSize = 2
    InitBlockNum = 4
    PageSize = 4
    MaxSize = 10
    Reach = 22
    MaxWrites = 3
    MaxFailures = 1
INVARIANTS
    BytesAreStored
    ArrayFits
    AppendsKeepSize
    ReadsBack
\* After a crash nothing happens, and the number of writes is bounded.
CHECK_DEADLOCK FALSE
