\* Three addresses, so that one directory can hold another that holds a third
\* or lies beside it; room for two directories, or one and some bytes.
SPECIFICATION Spec
CONSTANTS
    Files = {f1, f2, f3}
    Names = {a, b}
    NoFile = NULL
    Garbage = garbage
    RootDir = root
    DirSize = 2
    MaxSize = 4
    MaxFailures = 1
SYMMETRY Symmetry
INVARIANTS
    QuotaIsTheSum
    TreeIsSound
    AnswersAgree
PROPERTY
    KeepsNamespace
\* After a crash nothing happens.
CHECK_DEADLOCK FALSE
