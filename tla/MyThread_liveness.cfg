\* Three addresses and one semaphore: with two ready threads one of them can
\* be passed over.
SPECIFICATION Spec
CONSTANTS
    Root = root
    Threads = {root, t1, t2}
    NoThread = NULL
    Sems = {s1}
    MaxValue = 1
PROPERTY
    NoStarvation
\* The process stops when the root exits or nobody is ready.
CHECK_DEADLOCK FALSE
