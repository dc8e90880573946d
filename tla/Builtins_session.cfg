\* Sessions of any length with every built-in, alone, behind nice and behind nice
\* and a number.
SPECIFICATION Spec
CONSTANTS
    Dirs <- MCDirs
    Home <- MCHome
    Trees <- MCTrees
    PathLists <- MCPathLists
    Commands <- MCCommands
INVARIANTS
    PwdIsCwd
    RunsWhatIsNamed
    CrashesAreKnown
    NiceIsForTheCommand
\* ush stops at logout, or crashes.
CHECK_DEADLOCK FALSE
