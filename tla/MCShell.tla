-------------------------------- MODULE MCShell --------------------------------
\* Shell with lines that combine redirections, pipes and built-ins, for TLC.  The
\* lines are texts, and what parse() makes of them.
EXTENDS Shell

P == INSTANCE Parser WITH MaxTokens <- 0, typed <- <<>>, s <- <<>>

T(kind) == P!Token(kind, 0)
Prog(prog, units) == P!Token("Tword", [prog |-> prog, units |-> units])
Name(prog) == Prog(prog, 1)
nl == T("Tnl")
f == Name("file")

\* The commands of all the pipes parse() returns.
Command(cmd) ==
    IF cmd = P!End THEN EndLine[1]
    ELSE [prog |-> cmd.args[1].prog, units |-> cmd.args[1].units, in |-> cmd.in, out |-> cmd.out]
Line(pipes) ==
    LET cmds == FlattenSeq(pipes) IN [k \in DOMAIN cmds |-> Command(cmds[k])]
\* What the calls of parse() return, one after the other, for a whole text.
Calls(ts) ==
    LET Read(acc, t) ==
          LET st == P!Consume(acc.st, t) IN
          IF st.loc = "done" THEN [st |-> P!StartState, lines |-> Append(acc.lines, Line(st.result))]
          ELSE [acc EXCEPT !.st = st]
    IN  FoldLeft(Read, [st |-> P!StartState, lines |-> <<>>], ts).lines

In(b) == IF b THEN <<T("Tin"), f>> ELSE <<>>
Out(t) == IF t = "Tnil" THEN <<>> ELSE <<T(t), f>>
Texts ==
    {<<Name(prog), nl>> : prog \in {"echo", "missing", "logout", "broken", "source", "filter", "end"}}
    \cup {<<Name(prog)>> \o In(b) \o Out(t) \o <<nl>> :
            prog \in {"echo", "broken", "filter"}, b \in BOOLEAN, t \in {"Tout", "ToutErr"}}
    \cup {<<Name("filter")>> \o In(TRUE) \o <<nl>>, <<nl>>}
    \cup {<<Prog(a, 2), T(t), Name("filter"), nl>> :
            a \in {"echo", "broken", "source", "logout"}, t \in {"Tpipe", "TpipeErr"}}
    \cup {<<Prog("source", 2), T("Tpipe"), Name(b), T("ToutErr"), f, nl>> : b \in {"echo", "filter"}}
    \cup {<<Name("filter"), T("Tin"), f, T("Tpipe"), Name("filter"), T("Tout"), f, nl>>}
    \cup {<<Prog("source", 3), T("Tpipe"), Name("filter"), nl>>}
    \cup {<<Name("echo"), T("Tsemi"), Name("source"), T("Tpipe"), Name("filter"), nl>>}
    \cup {<<Prog("source", 2), T("Tpipe"), Name("filter"), T("TpipeErr"), Name("filter"), nl>>}
    \cup {<<Name("echo"), T("Tpipe"), T("Tend")>>}
MCLines == {Calls(ts)[1] : ts \in Texts}

Echo == <<Name("echo"), nl>>
MCFiles ==
    {Calls(ts) : ts \in {
        \* a pipe, then lines that fork nothing
        <<Name("source"), T("Tpipe"), Name("filter"), nl>> \o Echo \o Echo,
        \* the child that cannot execv exits too
        Echo \o <<Name("broken"), nl>> \o Echo \o Echo,
        \* it and its stage
        <<Name("broken"), T("Tpipe"), Name("filter"), nl>> \o Echo,
        \* two of them: the script runs again and again
        <<Name("broken"), nl>> \o <<Name("broken"), nl>> \o Echo,
        \* an empty line
        Echo \o <<nl>> \o Echo,
        \* a command that reads what the shell reads
        <<Name("filter"), nl>> \o Echo \o <<Name("filter"), T("Tpipe"), Name("filter"), nl>> \o Echo,
        \* a line parse() reads as two, and one that takes the next with it
        <<T("Tout")>> \o Echo \o <<Name("echo"), T("Tout"), nl>> \o Echo \o Echo,
        <<Name("echo"), T("Tsemi"), Name("logout"), nl>> \o Echo,
        \* the first output is to a file: from then on stdio keeps what is printed,
        \* and the child that cannot execv has a copy
        <<Name("echo"), T("Tout"), f, nl>> \o <<Name("echo"), T("Tsemi"), Name("broken"), nl>> \o Echo,
        \* so it may be in a stage alone
        <<Name("broken"), T("Tpipe"), Name("echo"), T("Tout"), f, nl>> \o Echo,
        \* a command whose input file may not open: then it reads what the shell reads
        <<Name("filter"), T("Tin"), f, nl>> \o Echo \o Echo }}
=============================================================================
