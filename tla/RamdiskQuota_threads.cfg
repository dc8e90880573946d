\* Three threads, so that two can be past the check while a third updates;
\* two names in one directory and one in another.
SPECIFICATION Spec
CONSTANTS
    Threads = {t1, t2, t3}
    a = a
    b = b
    c = c
    Objects = {a, b, c}
    Home <- MCHome
    NoObject = NULL
    DirSize = 2
    MaxSize = 3
    MaxRequest = 2
    MaxRaces = 1
SYMMETRY Symmetry
INVARIANTS
    AccountIsExact
    OverrunIsBounded
\* After MaxRaces overlaps no handler begins any more: the bound stops the model.
CHECK_DEADLOCK FALSE
