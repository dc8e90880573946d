--------------------------------- MODULE Shell ---------------------------------
(***************************************************************************)
(* P2: ush executes the lines the parser gives it.                         *)
(*                                                                         *)
(* Three processes at most are alive: the shell, the stage it forked for   *)
(* one command of a pipeline, and the command one of these two forked to   *)
(* exec a file.  Each has a descriptor table, from numbers to what is      *)
(* open, and (the shell and the stage) stdio's buffer for the output.      *)
(* A step is what one process does between two points where another one    *)
(* may notice: a fork, a wait, a read or a write.                          *)
(*                                                                         *)
(* A line is what one call of parse() returns, the list of commands of all *)
(* its pipes; it is empty for NULL.  Programs stand for what a command     *)
(* does:                                                                   *)
(*   "echo"    a built-in that prints one unit                             *)
(*   "missing" a name that is not found: the shell prints one unit         *)
(*   "logout"  the built-in that calls exit(0)                             *)
(*   "broken"  a file that execv refuses: the child prints one unit        *)
(*   "source"  a file that writes `units' units and reads nothing          *)
(*   "filter"  a file that copies its input to its output, until the end   *)
(*   "end"     the command the parser makes of the end of the input        *)
(* A unit is written as the line and the command it comes from.  Tapp and  *)
(* TappErr differ from Tout and ToutErr in how the file is opened only,    *)
(* and every redirection has a file of its own, so they are left out.      *)
(*                                                                         *)
(* Lines come from a terminal or from files: ~/.ushrc first, then what is  *)
(* on standard input.  stdio reads a file ahead, up to ReadAhead lines at  *)
(* a time; the lines of a file are taken to be equally long.               *)
(***************************************************************************)
EXTENDS Integers, SequencesExt

CONSTANTS
    Lines,       \* the lines that may be typed
    Capacity,    \* units a pipe holds
    Files,       \* what .ushrc or a script may hold: sequences of lines
    NoFile,      \* no .ushrc; for standard input, a terminal
    ReadAhead,   \* lines stdio reads at a time
    MaxCommands, \* bound on the commands of a line
    MaxTyped,    \* bound on the lines typed at a terminal
    MaxLines     \* bound on the lines of a session

VARIABLES
    interactive, \* stdout is a terminal
    sticky,      \* at the end of a file stdio does not try to read again
    input,       \* what .ushrc and standard input hold
    offset,      \* the file offset of each, in lines
    ahead,       \* lines stdio has read and parse() has not; children have a copy
    eof,         \* stdio has seen the end of a file
    rc,          \* the locals of check_ushrc, while it runs
    executed,    \* ghost: the lines of files that were executed
    eaten,       \* ghost: the lines of files that a command read as its input
    rewound,     \* ghost: at each move of an offset back, the file and how
                 \* many lines were executed
    line,        \* the line being executed
    c,           \* the command parsePipe is at
    typed,       \* lines read so far
    pc,          \* what each process is doing
    fds,         \* its descriptor table
    ends,        \* its old_flag, old_fds and new_fds of parsePipe
    saved,       \* its locals of parseCmd
    mode,        \* when its stdio writes out what is printed: at each newline
                 \* ("line"), when it is flushed ("full"), or not chosen yet
    buffer,      \* its unflushed output
    direct,      \* ghost: stdio has kept no output of this line, and keeps none
                 \* from before
    left,        \* units the command still has to write
    pipe,        \* what is in the pipe after each command
    landed,      \* every unit of this line that left a process, and where to
    failed       \* how often an output file could not be opened, per process

ghosts == <<executed, eaten, rewound>>
source == <<input, offset, ahead, eof, rc, ghosts>>
session == <<interactive, sticky, line, typed>>
files == <<fds, ends, saved>>
stdio == <<mode, direct>>
io == <<stdio, buffer, pipe, landed>>
vars == <<session, source, files, io, c, pc, left, failed>>

Parents == {"shell", "stage"}          \* those that run ush's code
Procs == Parents \cup {"command"}
Commands == 1 .. MaxCommands

Piped(t) == t \in {"Tpipe", "TpipeErr"}
ToFile(t) == t \in {"Tout", "ToutErr"}
\* Programs that are run by execv.
External(prog) == prog \in {"broken", "source", "filter"}

\* What mkPipe and mkCmd build: pipes connect neighbours, an input file is for
\* the first command of a pipe and an output file for the last; the end of the
\* input may follow anything.
Cmd == [prog : {"echo", "missing", "logout", "broken", "source", "filter", "end"},
        in : {"Tnil", "Tin", "Tpipe", "TpipeErr"},
        out : {"Tnil", "Tout", "ToutErr", "Tpipe", "TpipeErr"}, units : Nat]
WellFormed(l) ==
    /\ l \in Seq(Cmd) /\ Len(l) <= MaxCommands
    /\ \A k \in DOMAIN l :
         /\ Piped(l[k].in) => k > 1 /\ l[k - 1].out = l[k].in
         /\ Piped(l[k].out) => k < Len(l) /\ (l[k + 1].in = l[k].out \/ l[k + 1].prog = "end")
         /\ l[k].prog = "end" => k = Len(l) /\ l[k].in = "Tnil" /\ l[k].out = "Tnil"
         /\ l[k].prog = "filter" => l[k].units = 1

ASSUME LinesAssumption ==
    /\ \A l \in Lines : WellFormed(l)
    /\ \A f \in Files : f \in Seq(Seq(Cmd)) /\ \A i \in DOMAIN f : WellFormed(f[i])
ASSUME BoundsAssumption ==
    /\ Capacity \in Nat \ {0} /\ ReadAhead \in Nat \ {0}
    /\ MaxCommands \in Nat \ {0} /\ MaxLines \in Nat

(***************************************************************************)
(* Descriptor tables.                                                      *)
(***************************************************************************)
None == -1                             \* what a failed open returns
Terminal == [n \in 0 .. 2 |-> << <<"stdin", "stdout", "stderr">>[n + 1], 0>>]
NoTable == [n \in {} |-> <<"stdin", 0>>]

\* open, dup and pipe take the lowest free number; this is the i-th lowest.
Free(t, i) == CHOOSE n \in 0 .. Cardinality(DOMAIN t) + i :
    n \notin DOMAIN t /\ Cardinality((0 .. n - 1) \ DOMAIN t) = i - 1
\* The table t with n standing for d.
With(t, n, d) == [m \in DOMAIN t \cup {n} |-> IF m = n THEN d ELSE t[m]]
Dup2(t, from, to) == IF from \in DOMAIN t THEN With(t, to, t[from]) ELSE t
Close(t, S) == Restrict(t, DOMAIN t \ S)

NoEnds == [old_flag |-> FALSE, old |-> <<None, None>>, new |-> <<None, None>>]
NoSaved == [stdin_bak |-> None, stdout_bak |-> None, stderr_bak |-> None,
            inFile |-> None, outFile |-> None]
NoRc == [ushrc_f |-> None, stdin_bak |-> None]

(***************************************************************************)
(* The redirections of parseCmd.  Nothing is closed in between, so what it *)
(* opens gets the lowest free numbers in turn.                             *)
(***************************************************************************)
If(cond, seq) == IF cond THEN seq ELSE <<>>
\* The locals that dup and open set, in this order, with what they stand for.
\* An input file that cannot be opened leaves inFile at -1.
OpensInput(t, cmd, k, in_ok) ==
    If(ToFile(cmd.out), << <<"stdout_bak", t[1]>> >>)
    \o If(cmd.in = "Tin", << <<"stdin_bak", t[0]>> >>)
    \o If(cmd.in = "Tin" /\ in_ok, << <<"inFile", <<"infile", k>> >> >>)
OpensOutput(t, cmd, k) ==
    If(ToFile(cmd.out), << <<"outFile", <<"outfile", k>> >> >>)
    \o If(cmd.out = "ToutErr", << <<"stderr_bak", t[2]>> >>)

WithOpened(t, opened) ==
    [n \in DOMAIN t \cup {Free(t, i) : i \in DOMAIN opened} |->
       IF n \in DOMAIN t THEN t[n]
       ELSE opened[CHOOSE i \in DOMAIN opened : n = Free(t, i)][2]]
Locals(t, opened) ==
    [x \in DOMAIN NoSaved |->
       IF \E i \in DOMAIN opened : opened[i][1] = x
       THEN Free(t, CHOOSE i \in DOMAIN opened : opened[i][1] = x) ELSE None]
\* dup2 of the files onto the standard descriptors.
InputNotOnto(t, cmd, k, in_ok) == t    \* mutant: standard input is left as it is
InputOnto(t, cmd, k, in_ok) ==
    IF cmd.in = "Tin" /\ in_ok THEN [t EXCEPT ![0] = <<"infile", k>>] ELSE t
\* mutant: >& redirects standard error alone
OutputOntoErrOnly(t, cmd, k) ==
    [n \in DOMAIN t |->
       IF (n = 1 /\ cmd.out = "Tout") \/ (n = 2 /\ cmd.out = "ToutErr")
       THEN <<"outfile", k>> ELSE t[n]]
OutputOnto(t, cmd, k) ==
    [n \in DOMAIN t |->
       IF (n = 1 /\ ToFile(cmd.out)) \/ (n = 2 /\ cmd.out = "ToutErr")
       THEN <<"outfile", k>> ELSE t[n]]

\* The end of parseCmd: the saved descriptors are put back, all are closed.
Backup(n) == <<"stdin_bak", "stdout_bak", "stderr_bak">>[n + 1]
\* mutant: standard input is forgotten
PutBackOutput(cmd) == {n \in {1, 2} : \/ n = 1 /\ ToFile(cmd.out)
                                      \/ n = 2 /\ cmd.out = "ToutErr"}
PutBack(cmd) == {n \in {0, 1, 2} : \/ n = 0 /\ cmd.in = "Tin"
                                   \/ n = 1 /\ ToFile(cmd.out)
                                   \/ n = 2 /\ cmd.out = "ToutErr"}
BackIn(t, s, cmd) ==
    [n \in DOMAIN t \cup PutBack(cmd) |->
       IF n \in PutBack(cmd) THEN t[s[Backup(n)]] ELSE t[n]]
\* mutant: nothing is closed
RestoredUnclosed(t, s, cmd) == BackIn(t, s, cmd)
Restored(t, s, cmd) == Close(BackIn(t, s, cmd), Range(s))

(***************************************************************************)
(* Output.  A write to a pipe waits until there is room.                   *)
(***************************************************************************)
Room(contents, d, ws) ==
    d[1] = "write" => Len(contents[d[2]]) + Len(ws) <= Capacity
Poured(contents, d, ws) ==
    IF d[1] = "write" THEN [contents EXCEPT ![d[2]] = @ \o ws] ELSE contents
Landings(d, ws) == [i \in DOMAIN ws |-> [writer |-> ws[i], to |-> d]]
\* The units ws are written to what d stands for, given the pipes' contents.
Deliver(contents, d, ws) ==
    /\ Room(contents, d, ws)
    /\ pipe' = Poured(contents, d, ws)
    /\ landed' = landed \o Landings(d, ws)

(***************************************************************************)
(* stdio writes a line out at once if descriptor 1 is a terminal the first *)
(* time something is printed, and keeps it until it is flushed if it is    *)
(* not: for good, whatever the descriptor is later.  A child inherits this *)
(* choice with the buffer.                                                 *)
(***************************************************************************)
IsTerminal(d) ==
    \/ d = <<"stdout", 0>> /\ interactive
    \/ d = <<"stdin", 0>> /\ input["stdin"] = NoFile
Mode(p, t) ==
    IF mode[p] # "unset" THEN mode[p] ELSE IF IsTerminal(t[1]) THEN "line" ELSE "full"

\* printf of a text that ends in a newline, with the table t.
Unit == <<typed, c>>
Printed(p, t) ==
    /\ mode' = [mode EXCEPT ![p] = Mode(p, t)]
    /\ direct' = (direct /\ Mode(p, t) = "line")
    /\ IF Mode(p, t) = "line"
       THEN Deliver(pipe, t[1], <<Unit>>) /\ UNCHANGED buffer
       ELSE /\ buffer' = [buffer EXCEPT ![p] = Append(@, Unit)]
            /\ UNCHANGED <<pipe, landed>>
\* fflush(NULL), with the table t.
Flushed(p, t) ==
    /\ Deliver(pipe, t[1], buffer[p])
    /\ buffer' = [buffer EXCEPT ![p] = <<>>]
    /\ UNCHANGED stdio

\* exit(0) in a child: what stdio has read ahead is given back to the file on
\* descriptor 0.  The offset belongs to the shell as well.
IsFile(d) == d[1] = "rc" \/ (d[1] = "stdin" /\ input["stdin"] # NoFile)
GivesBack(d) == IsFile(d) /\ ahead # <<>> /\ offset[d[1]] >= Len(ahead)
SeekBack(p) ==
    LET d == fds[p][0] IN
    /\ IF GivesBack(d)
       THEN /\ offset' = [offset EXCEPT ![d[1]] = @ - Len(ahead)]
            /\ rewound' = Append(rewound, <<d[1], Len(executed)>>)
       ELSE UNCHANGED <<offset, rewound>>
    /\ UNCHANGED <<input, ahead, eof, rc, executed, eaten>>

\* exit(0): stdio is flushed, and all descriptors are closed.
Exit(p, ws) ==
    /\ Deliver(pipe, fds[p][1], buffer[p] \o ws)
    /\ buffer' = [buffer EXCEPT ![p] = <<>>]
    /\ UNCHANGED stdio
    /\ fds' = [fds EXCEPT ![p] = NoTable]
    /\ ends' = [ends EXCEPT ![p] = NoEnds]
    /\ saved' = [saved EXCEPT ![p] = NoSaved]
    /\ pc' = [pc EXCEPT ![p] = "exited"]

(***************************************************************************)
(* main and parsePipe, in the shell.                                       *)
(***************************************************************************)
Init ==
    /\ interactive \in BOOLEAN /\ sticky \in BOOLEAN
    /\ input \in [{"rc", "stdin"} -> Files \cup {NoFile}]
    /\ offset = [f \in {"rc", "stdin"} |-> 0]
    /\ ahead = <<>> /\ eof = FALSE /\ rc = NoRc
    /\ executed = <<>> /\ eaten = {} /\ rewound = <<>>
    /\ line = <<>> /\ c = 1 /\ typed = 0
    /\ pc = [p \in Procs |-> IF p = "shell" THEN "start" ELSE "none"]
    /\ fds = [p \in Procs |-> IF p = "shell" THEN Terminal ELSE NoTable]
    /\ ends = [p \in Procs |-> NoEnds]
    /\ saved = [p \in Procs |-> NoSaved]
    /\ mode = [p \in Parents |-> "unset"] /\ direct = TRUE
    /\ buffer = [p \in Procs |-> <<>>]
    /\ left = 0
    /\ pipe = [k \in Commands |-> <<>>]
    /\ landed = <<>>
    /\ failed = [p \in Parents |-> 0]

Goto(p, at) == pc' = [pc EXCEPT ![p] = at]

EndLine == <<[prog |-> "end", in |-> "Tnil", out |-> "Tnil", units |-> 1]>>

\* check_ushrc: .ushrc becomes standard input, if there is one.
OpenUshrc ==
    /\ pc["shell"] = "start"
    /\ IF input["rc"] = NoFile
       THEN Goto("shell", "prompt") /\ UNCHANGED <<fds, rc>>
       ELSE LET t == fds["shell"]
                f == Free(t, 1)
                b == Free(t, 2)
            IN  /\ fds' = [fds EXCEPT !["shell"] =
                             With(With(With(t, f, <<"rc", 0>>), b, t[0]), 0, <<"rc", 0>>)]
                /\ rc' = [ushrc_f |-> f, stdin_bak |-> b]
                /\ Goto("shell", "rc")
    /\ UNCHANGED <<session, io, c, ends, saved, left, failed,
                   input, offset, ahead, eof, ghosts>>

\* It stops at the first call of parse() that gives it nothing, and puts
\* standard input back.  What stdio has read ahead stays where it is.
\* mutant: standard input is not put back
UshrcLeftOpen(t) == Close(t, {rc.ushrc_f, rc.stdin_bak})
UshrcClosed(t) == Close(Dup2(t, rc.stdin_bak, 0), {rc.ushrc_f, rc.stdin_bak})
LeaveUshrc ==
    /\ pc["shell"] = "parsed" /\ rc # NoRc
    /\ line # <<>> => line[1].prog = "end"
    /\ fds' = [fds EXCEPT !["shell"] = UshrcClosed(@)]
    /\ Flushed("shell", fds'["shell"])
    /\ rc' = NoRc /\ line' = <<>>
    /\ Goto("shell", "prompt")
    /\ UNCHANGED <<interactive, sticky, typed, c, ends, saved, left, failed,
                   input, offset, ahead, eof, ghosts>>

\* main, and check_ushrc for a line that is one, go on with parsePipe.
ExecuteLine ==
    /\ pc["shell"] = "parsed"
    /\ rc # NoRc => line # <<>> /\ line[1].prog # "end"
    /\ Goto("shell", "next")
    /\ UNCHANGED <<session, source, files, io, c, left, failed>>

\* main prompts, and flushes at once, if standard input is a terminal.
\* mutant: it prompts on standard error
PromptedOnStderr == UNCHANGED mode
Prompted ==
    mode' = IF pc["shell"] = "prompt" /\ IsTerminal(fds["shell"][0])
            THEN [mode EXCEPT !["shell"] = Mode("shell", fds["shell"])] ELSE mode

Parsed(l) ==
    /\ pc["shell"] \in {"prompt", "rc"} /\ typed < MaxLines
    /\ Prompted /\ direct' = (mode'["shell"] # "full")
    /\ line' = l /\ c' = 1 /\ typed' = typed + 1
    /\ pipe' = [k \in Commands |-> <<>>] /\ landed' = <<>>
    /\ Goto("shell", "parsed")
    /\ UNCHANGED <<files, interactive, sticky, buffer, left, failed, input, rc, eaten, rewound>>

\* parse() returns a line that was typed, or one of the file of a redirection
\* that could not be undone.
ReadLine(l) ==
    /\ pc["shell"] \in {"prompt", "rc"}
    /\ ahead = <<>> /\ ~IsFile(fds["shell"][0]) /\ ~(eof /\ sticky)
    /\ typed - Len(executed) < MaxTyped
    /\ Parsed(l)
    /\ UNCHANGED <<offset, ahead, eof, executed>>

\* stdio fills its buffer from descriptor 0.
\* mutant: a line too many is asked for
FilledTooFar(f) == [i \in 1 .. Min({ReadAhead, Len(input[f]) - offset[f]}) |->
                      <<f, Min({offset[f] + i + 1, Len(input[f])})>>]
Filled(f) == [i \in 1 .. Min({ReadAhead, Len(input[f]) - offset[f]}) |-> <<f, offset[f] + i>>]
Take(lines) ==
    /\ Parsed(input[lines[1][1]][lines[1][2]])
    /\ ahead' = Tail(lines)
    /\ executed' = Append(executed, lines[1])
    /\ UNCHANGED eof

\* parse() returns the next line of a file.
ReadBuffered ==
    /\ ahead # <<>> /\ Take(ahead)
    /\ UNCHANGED offset
ReadFile ==
    LET d == fds["shell"][0] IN
    /\ pc["shell"] \in {"prompt", "rc"}
    /\ ahead = <<>> /\ IsFile(d) /\ ~(eof /\ sticky)
    /\ offset[d[1]] < Len(input[d[1]])
    /\ Take(Filled(d[1]))
    /\ offset' = [offset EXCEPT ![d[1]] = @ + Len(Filled(d[1]))]
ReadEnd ==
    LET d == fds["shell"][0] IN
    /\ pc["shell"] \in {"prompt", "rc"}
    /\ ahead = <<>>
    /\ (eof /\ sticky) \/ (IsFile(d) /\ offset[d[1]] = Len(input[d[1]]))
    /\ Parsed(EndLine)
    /\ eof' = TRUE
    /\ UNCHANGED <<offset, ahead, executed>>

AtCommand(p, at) == pc[p] = at /\ c <= Len(line)
\* mutant: the last command of a pipe runs in the shell
NeedsStageToWrite(cmd) == Piped(cmd.out)
NeedsStage(cmd) == Piped(cmd.in) \/ Piped(cmd.out)

\* The line is done: main flushes and prompts again; check_ushrc does not.
EndOfLine ==
    /\ pc["shell"] = "next" /\ c > Len(line)
    /\ IF rc = NoRc THEN Flushed("shell", fds["shell"]) /\ Goto("shell", "prompt")
       ELSE Goto("shell", "rc") /\ UNCHANGED io
    /\ UNCHANGED <<session, source, files, c, left, failed>>

EndOfInput ==
    /\ AtCommand("shell", "next") /\ line[c].prog = "end"
    /\ Exit("shell", <<>>)
    /\ UNCHANGED <<session, source, c, left, failed>>

\* A command without a pipe is executed by the shell itself.
RunInShell ==
    /\ AtCommand("shell", "next") /\ line[c].prog # "end"
    /\ ~NeedsStage(line[c])
    /\ Goto("shell", "parseCmd")
    /\ UNCHANGED <<session, source, files, io, c, left, failed>>

\* pipe(), if another command follows.
WithPipe(t, k) == With(With(t, Free(t, 1), <<"read", k>>), Free(t, 2), <<"write", k>>)

\* A child starts as a copy, unflushed text included.
ForkStage ==
    /\ AtCommand("shell", "next") /\ NeedsStage(line[c])
    /\ LET t == fds["shell"]
           e == [ends["shell"] EXCEPT !.new = <<Free(t, 1), Free(t, 2)>>]
       IN  IF Piped(line[c].out)
           THEN /\ fds' = [fds EXCEPT !["shell"] = WithPipe(t, c), !["stage"] = WithPipe(t, c)]
                /\ ends' = [ends EXCEPT !["shell"] = e, !["stage"] = e]
           ELSE /\ fds' = [fds EXCEPT !["stage"] = t]
                /\ ends' = [ends EXCEPT !["stage"] = ends["shell"]]
    /\ mode' = [mode EXCEPT !["stage"] = mode["shell"]]
    /\ buffer' = [buffer EXCEPT !["stage"] = buffer["shell"]]
    /\ pc' = [pc EXCEPT !["shell"] = "forked", !["stage"] = "setup"]
    /\ UNCHANGED <<session, source, c, saved, left, pipe, landed, direct, failed>>

\* The shell closes the pipe before this command and keeps the one after it.
\* mutants: the old write end is kept; the new read end is closed at once
KeptWriteEnd(t, e) == IF e.old_flag THEN Close(t, {e.old[1]}) ELSE t
KeptNoReadEnd(t, e) == Close(t, {e.old[1], e.old[2], e.new[1]})
KeptByShell(t, e) == IF e.old_flag THEN Close(t, {e.old[1], e.old[2]}) ELSE t
OldFrom(e, out) ==
    IF Piped(out) THEN [e EXCEPT !.old_flag = TRUE, !.old = e.new] ELSE NoEnds
CloseOldEnds ==
    /\ pc["shell"] = "forked"
    /\ fds' = [fds EXCEPT !["shell"] = KeptByShell(@, ends["shell"])]
    /\ ends' = [ends EXCEPT !["shell"] = OldFrom(@, line[c].out)]
    /\ Goto("shell", "wait")
    /\ UNCHANGED <<session, source, io, c, saved, left, failed>>

\* wait(NULL): the next command is not looked at before this one is over.
WaitForStage ==
    /\ pc["shell"] = "wait" /\ pc["stage"] = "exited"
    /\ pc' = [pc EXCEPT !["shell"] = "next", !["stage"] = "none"]
    /\ c' = c + 1
    /\ UNCHANGED <<session, source, files, io, left, failed>>

(***************************************************************************)
(* The stage, until it calls parseCmd.                                     *)
(***************************************************************************)
\* mutants: the two ends are mixed up; the write end stays open
FromPipeSwapped(t, e) ==
    IF e.old_flag THEN Close(Dup2(t, e.old[2], 0), {e.old[1], e.old[2]}) ELSE t
FromPipeOpen(t, e) ==
    IF e.old_flag THEN Close(Dup2(t, e.old[1], 0), {e.old[1]}) ELSE t
FromPipe(t, e) ==
    IF e.old_flag THEN Close(Dup2(t, e.old[1], 0), {e.old[1], e.old[2]}) ELSE t
IntoPipe(t, e, out) ==
    LET a == Dup2(Close(t, {e.new[1]}), e.new[2], 1)
        b == IF out = "TpipeErr" THEN Dup2(a, e.new[2], 2) ELSE a
    IN  IF Piped(out) THEN Close(b, {e.new[2]}) ELSE t

SetUpStage ==
    /\ pc["stage"] = "setup"
    /\ fds' = [fds EXCEPT !["stage"] =
                 IntoPipe(FromPipe(@, ends["stage"]), ends["stage"], line[c].out)]
    /\ Goto("stage", "parseCmd")
    /\ UNCHANGED <<session, source, io, c, ends, saved, left, failed>>

(***************************************************************************)
(* parseCmd and executeCmd, in the shell or in the stage.                  *)
(***************************************************************************)
RedirectCommand(p) ==
    /\ pc[p] = "parseCmd"
    /\ \E in_ok \in BOOLEAN :
         /\ line[c].in = "Tin" \/ in_ok
         /\ LET t == fds[p]
                opened == OpensInput(t, line[c], c, in_ok) \o OpensOutput(t, line[c], c)
            IN  /\ fds' = [fds EXCEPT ![p] =
                       OutputOnto(InputOnto(WithOpened(t, opened), line[c], c, in_ok),
                                  line[c], c)]
                /\ saved' = [saved EXCEPT ![p] = Locals(t, opened)]
    /\ Goto(p, "execute")
    /\ UNCHANGED <<session, source, io, c, ends, left, failed>>

\* The output file cannot be opened: parseCmd returns at once.
OutputOpenFails(p) ==
    /\ pc[p] = "parseCmd" /\ ToFile(line[c].out)
    /\ \E in_ok \in BOOLEAN :
         /\ line[c].in = "Tin" \/ in_ok
         /\ fds' = [fds EXCEPT ![p] =
                InputOnto(WithOpened(@, OpensInput(@, line[c], c, in_ok)), line[c], c, in_ok)]
    /\ failed' = [failed EXCEPT ![p] = @ + 1]
    /\ Goto(p, "return")
    /\ UNCHANGED <<session, source, io, c, ends, saved, left>>

PrintOne(p) ==
    /\ pc[p] = "execute" /\ line[c].prog \in {"echo", "missing"}
    /\ Printed(p, fds[p])
    /\ Goto(p, "restore")
    /\ UNCHANGED <<session, source, files, c, left, failed>>

Logout(p) ==
    /\ pc[p] = "execute" /\ line[c].prog = "logout"
    /\ Exit(p, <<>>) /\ SeekBack(p)
    /\ UNCHANGED <<session, c, left, failed>>

\* The child copies its standard output onto its standard error before execv.
ForkCommand(p) ==
    /\ pc[p] = "execute" /\ External(line[c].prog)
    /\ fds' = [fds EXCEPT !["command"] = Dup2(fds[p], 1, 2)]
    /\ buffer' = [buffer EXCEPT !["command"] = buffer[p]]
    /\ pc' = [pc EXCEPT ![p] = "waitpid", !["command"] = "execv"]
    /\ UNCHANGED <<session, source, c, ends, saved, left, pipe, landed, stdio, failed>>

WaitForCommand(p) ==
    /\ pc[p] = "waitpid" /\ pc["command"] = "exited"
    /\ pc' = [pc EXCEPT ![p] = "restore", !["command"] = "none"]
    /\ UNCHANGED <<session, source, files, io, c, left, failed>>

\* Only after its descriptors are back does the process flush.
RestoreAndFlush(p) ==
    /\ pc[p] = "restore"
    /\ fds' = [fds EXCEPT ![p] = Restored(@, saved[p], line[c])]
    /\ IF ToFile(line[c].out) \/ line[c].in = "Tin"
       THEN Flushed(p, Restored(fds[p], saved[p], line[c]))
       ELSE UNCHANGED <<io>>
    /\ Goto(p, "return")
    /\ UNCHANGED <<session, source, c, ends, saved, left, failed>>

\* parseCmd returns: the shell goes on, a stage is over.
NextInShell ==
    /\ pc["shell"] = "return"
    /\ saved' = [saved EXCEPT !["shell"] = NoSaved]
    /\ c' = c + 1
    /\ Goto("shell", "next")
    /\ UNCHANGED <<session, source, io, fds, ends, left, failed>>

StageExits ==
    /\ pc["stage"] = "return"
    /\ Exit("stage", <<>>) /\ SeekBack("stage")
    /\ UNCHANGED <<session, c, left, failed>>

(***************************************************************************)
(* The command.  After execv nothing of ush's stdio is left in it.         *)
(***************************************************************************)
Execv ==
    /\ pc["command"] = "execv" /\ line[c].prog # "broken"
    /\ buffer' = [buffer EXCEPT !["command"] = <<>>]
    /\ left' = IF line[c].prog = "filter" /\ IsFile(fds["command"][0])
               THEN Len(input[fds["command"][0][1]]) - offset[fds["command"][0][1]]
               ELSE line[c].units
    /\ Goto("command", "running")
    /\ UNCHANGED <<session, source, files, c, pipe, landed, stdio, failed>>

ExecvFails ==
    /\ pc["command"] = "execv" /\ line[c].prog = "broken"
    /\ Exit("command", <<Unit>>) /\ SeekBack("command")
    /\ UNCHANGED <<session, c, left, failed>>

Running(prog) == pc["command"] = "running" /\ line[c].prog = prog
WrittenTo(n) == fds["command"][n]

\* One unit, to standard output or standard error.
WriteUnit ==
    /\ Running("source") /\ left > 0
    /\ \E n \in {1, 2} : Deliver(pipe, WrittenTo(n), <<Unit>>)
    /\ left' = left - 1
    /\ UNCHANGED <<session, source, files, c, pc, stdio, buffer, failed>>

\* A filter copies a unit from the pipe before it.
CopyUnit ==
    /\ Running("filter")
    /\ LET d == fds["command"][0] IN
         /\ d[1] = "read" /\ pipe[d[2]] # <<>>
         /\ \E n \in {1, 2} :
              Deliver([pipe EXCEPT ![d[2]] = Tail(@)], WrittenTo(n), <<Unit>>)
    /\ UNCHANGED <<session, source, files, c, pc, stdio, buffer, left, failed>>

\* A file or a terminal is one unit and then the end; the shell's own input has
\* as many as there are lines nobody has read.
CopyFile ==
    /\ Running("filter") /\ fds["command"][0][1] # "read" /\ left > 0
    /\ \E n \in {1, 2} : Deliver(pipe, WrittenTo(n), <<Unit>>)
    /\ left' = left - 1
    /\ LET f == fds["command"][0][1] IN
         IF IsFile(fds["command"][0])
         THEN /\ offset' = [offset EXCEPT ![f] = @ + 1]
              /\ eaten' = eaten \cup {<<f, offset[f] + 1>>}
         ELSE UNCHANGED <<offset, eaten>>
    /\ UNCHANGED <<session, files, c, pc, stdio, buffer, failed, input, ahead, eof, rc, executed,
                   rewound>>

\* The end of the input: nothing left, and for a pipe nobody who could write.
HasWriter(k) == \E p \in Procs : <<"write", k>> \in Range(fds[p])
AtEnd ==
    LET d == fds["command"][0] IN
    IF line[c].prog = "filter" /\ d[1] = "read"
    THEN pipe[d[2]] = <<>> /\ ~HasWriter(d[2])
    ELSE left = 0

CommandExits ==
    /\ pc["command"] = "running" /\ AtEnd
    /\ left' = 0
    /\ Exit("command", <<>>)
    /\ UNCHANGED <<session, source, c, failed>>

-----------------------------------------------------------------------------
ParseCmd(p) ==
    \/ RedirectCommand(p) \/ OutputOpenFails(p) \/ PrintOne(p) \/ Logout(p)
    \/ ForkCommand(p) \/ WaitForCommand(p) \/ RestoreAndFlush(p)
ShellStep ==
    \/ OpenUshrc \/ LeaveUshrc \/ ExecuteLine
    \/ EndOfLine \/ EndOfInput \/ RunInShell \/ ForkStage \/ CloseOldEnds
    \/ WaitForStage \/ NextInShell \/ ParseCmd("shell")
StageStep == SetUpStage \/ ParseCmd("stage") \/ StageExits
CommandStep ==
    \/ Execv \/ ExecvFails \/ WriteUnit \/ CopyUnit \/ CopyFile \/ CommandExits

Next ==
    \/ (\E l \in Lines : ReadLine(l)) \/ ReadBuffered \/ ReadFile \/ ReadEnd
    \/ ShellStep \/ StageStep \/ CommandStep

Spec == Init /\ [][Next]_vars
\* The scheduler runs every process that can do something.
FairSpec == Spec /\ WF_vars(ShellStep) /\ WF_vars(StageStep) /\ WF_vars(CommandStep)
(***************************************************************************)
(* What is to be checked.                                                  *)
(***************************************************************************)
Kinds == {"stdin", "stdout", "stderr", "rc", "infile", "outfile", "read", "write"}
\* A command with all its redirections opens five, check_ushrc two; one whose
\* output file cannot be opened leaves up to three behind in the shell.
MaxFd == 9 + 3 * failed["shell"]
TypeOK ==
    /\ interactive \in BOOLEAN /\ sticky \in BOOLEAN /\ eof \in BOOLEAN
    /\ typed \in 0 .. MaxLines
    /\ \A f \in {"rc", "stdin"} :
         offset[f] \in 0 .. (IF input[f] = NoFile THEN 0 ELSE Len(input[f]))
    /\ Len(ahead) < ReadAhead
    /\ rc.ushrc_f \in -1 .. MaxFd /\ rc.stdin_bak \in -1 .. MaxFd
    /\ Len(line) <= MaxCommands /\ c \in 1 .. Len(line) + 1
    /\ \A p \in Procs :
         /\ DOMAIN fds[p] \subseteq 0 .. MaxFd
         /\ \A n \in DOMAIN fds[p] : fds[p][n] \in Kinds \X (0 .. MaxCommands)
         /\ pc[p] \in {"none", "exited"} <=> fds[p] = NoTable
         /\ \A x \in DOMAIN saved[p] : saved[p][x] \in -1 .. MaxFd
         /\ \A i \in DOMAIN buffer[p] : buffer[p][i] \in (1 .. MaxLines) \X Commands
    /\ \A k \in Commands : Len(pipe[k]) <= Capacity
    /\ mode \in [Parents -> {"unset", "line", "full"}] /\ direct \in BOOLEAN
    /\ failed \in [Parents -> Nat] /\ left \in Nat

\* Where the output of command k belongs.
Destination(k) ==
    IF ToFile(line[k].out) THEN <<"outfile", k>>
    ELSE IF Piped(line[k].out) THEN <<"write", k>>
    ELSE <<"stdout", 0>>
\* How many units it should put out: a filter behind a pipe as many as the last
\* command before it that is none.
ReadsPipe(cmd) == cmd.prog = "filter" /\ Piped(cmd.in)
OfItself(cmd) ==
    IF cmd.prog \in {"end", "logout"} THEN 0 ELSE IF cmd.prog = "source" THEN cmd.units ELSE 1
Promised(l) ==
    [k \in DOMAIN l |-> OfItself(l[Max({j \in 1 .. k : ~ReadsPipe(l[j])})])]
Arrived(k) == Cardinality({i \in DOMAIN landed : landed[i].writer = <<typed, k>>})
\* Nothing on the line reads what the shell itself reads from a file, not even a
\* filter whose input file cannot be opened.
InputIsKnown ==
    \A k \in DOMAIN line : line[k].prog = "filter" /\ ~Piped(line[k].in) =>
        ~IsFile(<<"stdin", 0>>) /\ rc = NoRc

\* When the shell prompts again it has the three descriptors it began with
\* and no other, after .ushrc too, unless an output file could not be opened in
\* it; and then it still writes to the terminal.  (parseCmd's dup, dup2 and close;
\* the pipes parsePipe opens; check_ushrc.)
DescriptorsBack ==
    pc["shell"] = "prompt" =>
        /\ failed["shell"] = 0 => fds["shell"] = Terminal
        /\ \A n \in {1, 2} : fds["shell"][n] = Terminal[n]

\* What a command puts out, on standard output or standard error, arrives in
\* the file or pipe its line says.  parseCmd puts the descriptors back before
\* it flushes, so for what ush prints itself stdio must keep nothing: so it is
\* once ush has prompted on a terminal, if no .ushrc made it print before.
TypedAtTerminal ==
    interactive /\ input["rc"] = NoFile /\ input["stdin"] = NoFile /\ typed > 0
OutputLandsRight ==
    /\ TypedAtTerminal => direct
    /\ \A i \in DOMAIN landed :
        LET k == landed[i].writer[2] IN
        landed[i].writer[1] = typed /\ (direct \/ External(line[k].prog))
            => landed[i].to = Destination(k)

\* When a line is done, and stdio has kept none of its output, each of its
\* commands has put out all it should, once: a filter got everything the stage
\* before it wrote, and nothing was written by two copies of a process.
AllArrives ==
    /\ pc["shell"] \in {"prompt", "rc"} /\ direct /\ InputIsKnown
    /\ failed["shell"] + failed["stage"] = 0
    =>  \A k \in DOMAIN line : Arrived(k) = Promised(line)[k]

\* A command reads from the pipe before it, or its input file if it could be
\* opened; else from where the shell reads, which is not the terminal any more
\* after a failed redirection.
ReadsItsInput ==
    \A p \in Parents : pc["command"] = "running" /\ pc[p] = "waitpid" =>
        LET d == fds["command"][0] IN
        IF Piped(line[c].in) THEN d = <<"read", c - 1>>
        ELSE IF saved[p].inFile # None THEN d = <<"infile", c>>
        ELSE \/ d = <<IF rc = NoRc THEN "stdin" ELSE "rc", 0>>
             \/ d[1] = "infile" /\ failed["shell"] > 0

\* No line of .ushrc or of a script is passed over: each one before the last that
\* was executed was executed too, or was read by a command.  Their order is that
\* of the files, .ushrc first, even for what stdio has read of it when an empty
\* line ends it.  Lines come again only after exit(0) in a child has given back
\* what stdio had read, and then once more at most; if that happens once in a
\* file, neither the line that does it nor one before it comes again.
Moves(mv, f) == {m \in DOMAIN mv : mv[m][1] = f}
Times(ex, x) == Cardinality({i \in DOMAIN ex : ex[i] = x})
LinesInOrder ==
    /\ \A x \in Range(executed) : \A i \in 1 .. x[2] :
         <<x[1], i>> \in Range(executed) \cup eaten
    /\ \A i, j \in DOMAIN executed : i < j =>
         /\ executed[j][1] = "rc" => executed[i][1] = "rc"
         /\ executed[i][1] = executed[j][1] /\ Moves(rewound, executed[i][1]) = {}
                => executed[i][2] < executed[j][2]
    /\ \A x \in Range(executed) :
         Times(executed, x) <= Cardinality(Moves(rewound, x[1])) + 1
    /\ \A m \in DOMAIN rewound :
         Cardinality(Moves(rewound, rewound[m][1])) = 1 =>
             \A j \in 1 .. rewound[m][2] :
                executed[j][1] = rewound[m][1] => Times(executed, executed[j]) = 1

\* Whoever may read a pipe to its end does not itself keep it from ending.
\* (What the stage closes, in parsePipe.)
NoReaderHoldsWriteEnd ==
    \A p \in {"stage", "command"}, k \in Commands :
        pc[p] # "setup" => ~({<<"read", k>>, <<"write", k>>} \subseteq Range(fds[p]))

\* As long as somebody can write to a pipe somebody can read it: no command
\* is killed by SIGPIPE.  (The shell holds the read end until the next stage
\* has it.)
WriteEndsHaveReaders ==
    \A k \in Commands :
        HasWriter(k) => \E p \in Procs : <<"read", k>> \in Range(fds[p])

(***************************************************************************)
(* The descriptor tables of shell, stage and command are sound at every    *)
(* step: none grows, and the ends of every pipe are where its reader sees  *)
(* the end and its writer is not killed.                                   *)
(***************************************************************************)
TablesAreSound == TypeOK /\ NoReaderHoldsWriteEnd /\ WriteEndsHaveReaders

\* A line whose commands write no more than a pipe holds is done some day, or
\* ends the shell.  The next stage starts when the one before it is over, so a
\* line that writes more waits for ever.  So may one whose stage has a copy of
\* what stdio kept before.
Fits(l) == \A k \in DOMAIN l : Piped(l[k].out) => Promised(l)[k] <= Capacity
LinesEnd ==
    pc["shell"] = "next" /\ mode["shell"] = "line" /\ Fits(line)
        ~> pc["shell"] \in {"prompt", "rc", "exited"}

-----------------------------------------------------------------------------
(***************************************************************************)
(* The inductive invariant.  What a descriptor table is depends on w: the  *)
(* locals of check_ushrc, how many output files could not be opened in the *)
(* shell, and whether there is a .ushrc.                                   *)
(***************************************************************************)
world == [rc |-> rc, failures |-> failed["shell"], ushrc |-> input["rc"] # NoFile]

Entries(w) == {d \in Kinds \X (0 .. MaxCommands) : d[1] = "rc" => w.ushrc}
LastFd(w) == 9 + 3 * w.failures
IsTable(t, w) ==
    /\ t \in [DOMAIN t -> Entries(w)]
    /\ 0 .. 2 \subseteq DOMAIN t /\ DOMAIN t \subseteq 0 .. LastFd(w)
IsSmall(t, w) == Cardinality(DOMAIN t) <= 5 + 3 * w.failures

\* What standard input is if the command at hand has not redirected it.
Inherited(d, w) ==
    \/ d = <<IF w.rc = NoRc THEN "stdin" ELSE "rc", 0>>
    \/ d[1] = "infile" /\ w.failures > 0

\* The shell's table without the ends of pipes.
KeepsUshrc(t, w) ==
    w.rc # NoRc =>
        /\ {w.rc.ushrc_f, w.rc.stdin_bak} \subseteq DOMAIN t \ (0 .. 2)
        /\ w.rc.ushrc_f # w.rc.stdin_bak /\ t[w.rc.stdin_bak] = <<"stdin", 0>>
        /\ w.failures = 0 => DOMAIN t = (0 .. 2) \cup {w.rc.ushrc_f, w.rc.stdin_bak}
IsBase(t, w) ==
    /\ IsTable(t, w) /\ IsSmall(t, w)
    /\ Inherited(t[0], w) /\ t[1] = <<"stdout", 0>> /\ t[2] = <<"stderr", 0>>
    /\ \A m \in DOMAIN t : t[m][1] \notin {"read", "write"}
    /\ w.rc = NoRc /\ w.failures = 0 => t = Terminal
    /\ KeepsUshrc(t, w)

\* x are the ends of pipe k, besides a base.
HasEnds(t, x, k, w) ==
    /\ x[1] # x[2] /\ {x[1], x[2]} \subseteq DOMAIN t
    /\ t[x[1]] = <<"read", k>> /\ t[x[2]] = <<"write", k>>
    /\ IsBase(Close(t, {x[1], x[2]}), w)

\* The table of a process that executes cmd, the k-th: in a stage before
\* parseCmd, ...
UsesPipes(t, cmd, k) ==
    \A m \in DOMAIN t :
        /\ t[m][1] = "read" => Piped(cmd.in) /\ t[m][2] = k - 1
        /\ t[m][1] = "write" => Piped(cmd.out) /\ t[m][2] = k
ForCommand(t, cmd, k, w) ==
    /\ IsTable(t, w) /\ IsSmall(t, w) /\ UsesPipes(t, cmd, k)
    /\ IF Piped(cmd.in) THEN t[0] = <<"read", k - 1>> ELSE Inherited(t[0], w)
    /\ t[1] = IF Piped(cmd.out) THEN <<"write", k>> ELSE <<"stdout", 0>>
\* ... and when its files are open, s being its locals of parseCmd.
Goes(cmd, k) ==
    IF ToFile(cmd.out) THEN <<"outfile", k>>
    ELSE IF Piped(cmd.out) THEN <<"write", k>> ELSE <<"stdout", 0>>
ReadsFrom(d, cmd, k, w) ==
    IF Piped(cmd.in) THEN d = <<"read", k - 1>>
    ELSE Inherited(d, w) \/ (d = <<"infile", k>> /\ cmd.in = "Tin")
Redirected(t, cmd, k, w) ==
    /\ IsTable(t, w) /\ UsesPipes(t, cmd, k)
    /\ ReadsFrom(t[0], cmd, k, w) /\ t[1] = Goes(cmd, k)
IsSaved(t, s, cmd) ==
    /\ Range(s) \cap 0 .. 2 = {}
    /\ \A n \in PutBack(cmd) : s[Backup(n)] \in DOMAIN t
IsPaired(t) ==
    \A k \in Commands : <<"write", k>> \in Range(t) => <<"read", k>> \in Range(t)

InCommand == {"parseCmd", "execute", "waitpid", "restore", "return"}
Executing == {"execute", "waitpid", "restore"}
ShellAt == InCommand \cup
    {"start", "prompt", "rc", "parsed", "next", "forked", "wait", "exited"}
StageAt == InCommand \cup {"none", "setup", "exited"}
CommandAt == {"none", "execv", "running", "exited"}

\* Each process at the place `at', with the table t, the ends e, the locals s,
\* at the k-th command of the line l.
ShellIs(at, t, e, s, l, k, w) ==
    /\ at \in InCommand \cup {"start", "prompt", "rc", "parsed"} => ~e.old_flag
    /\ at \in {"start", "prompt", "rc", "parsed", "parseCmd", "return"} => IsBase(t, w)
    /\ at \in Executing =>
         /\ IsBase(Restored(t, s, l[k]), w)
         /\ Redirected(t, l[k], k, w) /\ IsSaved(t, s, l[k])
    /\ at \in {"next", "forked"} =>
         /\ e.old_flag <=> k > 1 /\ Piped(l[k - 1].out)
         /\ IsTable(t, w)
    /\ at = "next" => IF e.old_flag THEN HasEnds(t, e.old, k - 1, w) ELSE IsBase(t, w)
    /\ at = "forked" =>
         LET b == KeptByShell(t, e) IN
         IF Piped(l[k].out) THEN HasEnds(b, e.new, k, w) ELSE IsBase(b, w)
    /\ at = "forked" /\ e.old_flag =>
         /\ {e.old[1], e.old[2]} \subseteq DOMAIN t
         /\ t[e.old[1]] = <<"read", k - 1>> /\ t[e.old[2]] = <<"write", k - 1>>
    /\ at = "wait" =>
         /\ e.old_flag <=> Piped(l[k].out)
         /\ IsTable(t, w)
         /\ IF e.old_flag THEN HasEnds(t, e.old, k, w) ELSE IsBase(t, w)
StageIs(at, t, e, s, l, k, w) ==
    /\ at = "setup" =>
         /\ IsTable(t, w) /\ IsPaired(t)
         /\ ForCommand(IntoPipe(FromPipe(t, e), e, l[k].out), l[k], k, w)
    /\ at = "parseCmd" => ForCommand(t, l[k], k, w)
    /\ at \in Executing => Redirected(t, l[k], k, w) /\ IsSaved(t, s, l[k])
    /\ at = "return" => IsTable(t, w) /\ UsesPipes(t, l[k], k)
CommandIs(at, t, l, k, w) ==
    at \in {"execv", "running"} => Redirected(t, l[k], k, w) /\ t[2] = Goes(l[k], k)

TablesInv ==
    /\ fds = [p \in Procs |-> fds[p]]
    /\ ends \in [Procs -> [old_flag : BOOLEAN, old : Int \X Int, new : Int \X Int]]
    /\ saved \in [Procs -> [DOMAIN NoSaved -> -1 .. MaxFd]]
    /\ \A p \in Procs : pc[p] \in {"none", "exited"} => fds[p] = NoTable
    /\ ShellIs(pc["shell"], fds["shell"], ends["shell"], saved["shell"], line, c, world)
    /\ StageIs(pc["stage"], fds["stage"], ends["stage"], saved["stage"], line, c, world)
    /\ CommandIs(pc["command"], fds["command"], line, c, world)

\* One process runs at a time, but for the shell when it has forked a stage.
ControlInv ==
    /\ pc = [p \in Procs |-> pc[p]]
    /\ pc["shell"] \in ShellAt /\ pc["stage"] \in StageAt /\ pc["command"] \in CommandAt
    /\ pc["stage"] # "none" <=> pc["shell"] \in {"forked", "wait"}
    /\ pc["command"] # "none" <=> \E p \in Parents : pc[p] = "waitpid"
    /\ pc["shell"] = "start" => rc = NoRc /\ failed["shell"] = 0
    /\ pc["shell"] = "prompt" => rc = NoRc
    /\ pc["shell"] = "rc" => rc # NoRc
    /\ pc["shell"] = "parsed" => c = 1
    /\ pc["shell"] \in InCommand =>
         c <= Len(line) /\ ~NeedsStage(line[c]) /\ line[c].prog # "end"
    /\ pc["shell"] \in {"forked", "wait"} => c <= Len(line) /\ NeedsStage(line[c])
    /\ \A p \in Parents : pc[p] = "waitpid" => External(line[c].prog)

FileNames == {"rc", "stdin"}
\* A filter that reads the shell's input does not read past its end.
LeftInv ==
    pc["command"] = "running" /\ line[c].prog = "filter" /\ IsFile(fds["command"][0]) =>
        LET f == fds["command"][0][1] IN left + offset[f] <= Len(input[f])
DataInv ==
    /\ interactive \in BOOLEAN /\ sticky \in BOOLEAN /\ eof \in BOOLEAN
    /\ input \in [FileNames -> Files \cup {NoFile}]
    /\ offset \in [FileNames -> Nat]
    /\ \A f \in FileNames : offset[f] <= (IF input[f] = NoFile THEN 0 ELSE Len(input[f]))
    /\ ahead \in Seq(FileNames \X Nat) /\ Len(ahead) < ReadAhead
    /\ \A x \in Range(ahead) : input[x[1]] # NoFile /\ x[2] \in DOMAIN input[x[1]]
    /\ rc \in [ushrc_f : -1 .. MaxFd, stdin_bak : -1 .. MaxFd]
    /\ typed \in 0 .. MaxLines /\ failed \in [Parents -> Nat] /\ left \in Nat
    /\ WellFormed(line) /\ (line # <<>> => typed > 0) /\ c \in 1 .. Len(line) + 1
    /\ LeftInv

\* What is printed, on the line l, the n-th: text in a buffer comes from ush
\* itself, and if stdio keeps nothing there is none.
Units == (1 .. MaxLines) \X Commands
IsBuffer(q, d, n, l, new) ==
    /\ d => q = <<>>
    /\ \A u \in Range(q) :
         /\ u[1] <= n /\ (new => u[1] < n)
         /\ u[1] = n => u[2] \in DOMAIN l /\ ~External(l[u[2]].prog)
IsLanded(x, d, n, l) ==
    /\ x.writer[1] <= n
    /\ x.writer[1] = n =>
         /\ x.writer[2] \in DOMAIN l
         /\ d \/ External(l[x.writer[2]].prog) => x.to = Goes(l[x.writer[2]], x.writer[2])
OutputInv ==
    /\ buffer \in [Procs -> Seq(Units)]
    /\ pipe \in [Commands -> Seq(Units)] /\ \A k \in Commands : Len(pipe[k]) <= Capacity
    /\ landed \in Seq([writer : Units, to : Entries(world)])
    /\ \A p \in Procs : IsBuffer(buffer[p], direct, typed, line, pc["shell"] = "parsed")
    /\ \A x \in Range(landed) : IsLanded(x, direct, typed, line)
    /\ pc["shell"] = "parsed" => landed = <<>>

\* Only a process that is alive and whose stdio is fully buffered has text in
\* its buffer.
StdioInv ==
    /\ mode \in [Parents -> {"unset", "line", "full"}] /\ direct \in BOOLEAN
    /\ \A p \in Procs : pc[p] \in {"none", "exited"} => buffer[p] = <<>>
    /\ \A p \in Parents : mode[p] # "full" => buffer[p] = <<>>
    /\ mode["shell"] = "line" /\ pc["stage"] # "none" => mode["stage"] = "line"
    /\ typed = 0 => failed["shell"] = 0 /\ mode["shell"] # "full"
    /\ input["rc"] = NoFile => rc = NoRc
    /\ TypedAtTerminal => mode["shell"] = "line" /\ direct

IInv == ControlInv /\ DataInv /\ TablesInv /\ OutputInv /\ StdioInv

\* The input of the command at hand, and of its process.
InputInv ==
    \A p \in Parents :
        /\ pc[p] \in Executing /\ ~Piped(line[c].in) =>
              IF saved[p].inFile # None THEN fds[p][0] = <<"infile", c>>
              ELSE Inherited(fds[p][0], world)
        /\ pc[p] = "waitpid" /\ pc["command"] # "exited" => fds["command"][0] = fds[p][0]

(***************************************************************************)
(* The lines of files: ex were executed, ah are read ahead, off are the    *)
(* offsets, et were eaten, mv are the moves back; .ushrc is open or not.   *)
(***************************************************************************)
IsLine(x) == x[1] \in FileNames /\ input[x[1]] # NoFile /\ x[2] \in DOMAIN input[x[1]]
Consecutive(ah) == \A i \in DOMAIN ah : ah[i] = <<ah[1][1], ah[1][2] + i - 1>>
\* Nothing is passed over: not by what is executed, by what will be, or by an
\* offset.
NonePassed(ex, ah, off, et) ==
    LET known == Range(ex) \cup et IN
    /\ \A x \in Range(ex) : \A i \in 1 .. x[2] : <<x[1], i>> \in known
    /\ ah # <<>> => \A i \in 1 .. ah[1][2] - 1 : <<ah[1][1], i>> \in known
    /\ \A f \in FileNames : \A i \in 1 .. off[f] : <<f, i>> \in known \cup Range(ah)
\* .ushrc comes first.
UshrcFirst(ex, ah, open) ==
    /\ \A i, j \in DOMAIN ex : i < j /\ ex[j][1] = "rc" => ex[i][1] = "rc"
    /\ \A y \in Range(ah) : y[1] = "rc" => \A x \in Range(ex) : x[1] = "rc"
    /\ open => \A x \in Range(ex) \cup Range(ah) : x[1] = "rc"
\* A file whose offset never moved back is executed in its order.
Forward(ex, ah, off, mv) ==
    \A f \in FileNames : Moves(mv, f) = {} =>
        /\ \A i, j \in DOMAIN ex : i < j /\ ex[i][1] = f /\ ex[j][1] = f => ex[i][2] < ex[j][2]
        /\ \A x \in Range(ex) : x[1] = f =>
             /\ x[2] <= off[f]
             /\ \A y \in Range(ah) : y[1] = f => x[2] < y[2]
        /\ \A y \in Range(ah) : y[1] = f => y[2] <= off[f]
\* Each move back lets what is behind it be read once more.
Counted(ex, ah, off, mv) ==
    \A f \in FileNames : input[f] # NoFile => \A n \in DOMAIN input[f] :
        Times(ex, <<f, n>>) + (IF <<f, n>> \in Range(ah) THEN 1 ELSE 0)
            <= Cardinality(Moves(mv, f)) + (IF n <= off[f] THEN 1 ELSE 0)
\* What was executed before the only move back is behind the offset, unless the
\* file is not read any more.
Once(ex, ah, off, mv, open) ==
    \A m \in DOMAIN mv : Cardinality(Moves(mv, mv[m][1])) = 1 =>
        \A j \in 1 .. mv[m][2] : ex[j][1] = mv[m][1] =>
            /\ Times(ex, ex[j]) = 1 /\ ex[j] \notin Range(ah)
            /\ ex[j][2] <= off[ex[j][1]] \/ (ex[j][1] = "rc" /\ ~open)
LinesAre(ex, ah, off, et, mv, open) ==
    /\ ex \in Seq(FileNames \X Nat) /\ \A x \in Range(ex) : IsLine(x)
    /\ mv \in Seq(FileNames \X Nat) /\ \A m \in DOMAIN mv : mv[m][2] <= Len(ex)
    /\ Consecutive(ah)
    /\ NonePassed(ex, ah, off, et) /\ UshrcFirst(ex, ah, open)
    /\ Forward(ex, ah, off, mv) /\ Counted(ex, ah, off, mv) /\ Once(ex, ah, off, mv, open)
LinesInv ==
    /\ LinesAre(executed, ahead, offset, eaten, rewound, rc # NoRc)
    /\ pc["shell"] = "start" => executed = <<>> /\ ahead = <<>>

(***************************************************************************)
(* The units of a line: a[k] units of command k landed, z[k] are in the    *)
(* pipe after it, and lf are still to come from the command at hand.       *)
(***************************************************************************)
\* How far the command at hand is: when it is over, its process may still exist.
Phase(q) ==
    IF \/ "exited" \in {q["stage"], q["command"]}
       \/ \E p \in Parents : q[p] \in {"restore", "return"}
    THEN "over"
    ELSE IF q["command"] = "running" THEN "running" ELSE "before"
\* The last conjunct: what was put into a pipe is in it, or its reader has put
\* it out again.
Accounts(l, a, z, k0, at, lf) ==
    \A k \in DOMAIN l :
        /\ k < k0 \/ (k = k0 /\ at = "over") => a[k] = Promised(l)[k]
        /\ k = k0 /\ at = "running" => ReadsPipe(l[k]) \/ a[k] + lf = Promised(l)[k]
        /\ k > k0 \/ (k = k0 /\ at = "before") => a[k] = 0
        /\ Piped(l[k].out) => a[k] = z[k] + (IF ReadsPipe(l[k + 1]) THEN a[k + 1] ELSE 0)
CanCount == direct /\ InputIsKnown /\ failed["shell"] + failed["stage"] = 0
ArrivesInv ==
    /\ pc["shell"] = "start" => line = <<>>
    /\ pc["shell"] \in {"prompt", "rc"} => c = Len(line) + 1
    /\ CanCount => Accounts(line, [k \in Commands |-> Arrived(k)],
                            [k \in Commands |-> Len(pipe[k])], c, Phase(pc), left)
=============================================================================
