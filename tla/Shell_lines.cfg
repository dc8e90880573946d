\* Two or three lines after each other, on a terminal and not; files of up to
\* four lines for .ushrc and for standard input.
SPECIFICATION FairSpec
CONSTANTS
    Lines <- MCLines
    Files <- MCFiles
    NoFile = NoFile
    Capacity = 2
    ReadAhead = 3
    MaxCommands = 3
    MaxTyped = 2
    MaxLines = 8
INVARIANTS
    TablesAreSound
    DescriptorsBack
    OutputLandsRight
    AllArrives
    ReadsItsInput
    LinesInOrder
PROPERTY
    LinesEnd
\* The shell stops at logout, at the end of its input, and when a stage has
\* filled its pipe.
CHECK_DEADLOCK FALSE
