\* Every text of up to eight tokens: a pipe of three commands with arguments and
\* redirections, or two lines.
SPECIFICATION Spec
CONSTANTS
    MaxTokens = 8
INVARIANTS
    LegalIsParsed
    KeepsABeginning
    CommandsAreSound
    ReadsItsLine
\* MaxTokens may end a text before parse() returns.
CHECK_DEADLOCK FALSE
