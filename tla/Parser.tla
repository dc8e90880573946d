------------------------------- MODULE Parser -------------------------------
(***************************************************************************)
(* P2: the shell's parser (parse.c), from tokens to a list of pipes.       *)
(*                                                                         *)
(* mkPipe and mkCmd call each other and read a token with Next() in the    *)
(* middle of their loops.  Here each of these places is a location, and    *)
(* Consume(s, t) is what the code does between two reads: with t as the    *)
(* new LookAhead it runs from location s.loc up to the next Next(), or to  *)
(* the return of parse().                                                  *)
(*                                                                         *)
(* A word stands for its text.  nextToken is any sequence of tokens it may *)
(* return; Terror is an unmatched quote, a word that is too long or ends   *)
(* with the input.  Tapp, ToutErr and TappErr are treated as Tout is.      *)
(***************************************************************************)
EXTENDS Integers, FiniteSets, SequencesExt

CONSTANTS MaxTokens    \* bound on the tokens of one call of parse()

VARIABLES
    typed,   \* the tokens read in this call
    s        \* where parse() is, with its locals

vars == <<typed, s>>

Token(kind, word) == [kind |-> kind, word |-> word]

\* The macros of parse.c.
OutToken(t) == t.kind \in {"Tout", "ToutErr", "Tapp", "TappErr"}
PipeToken(t) == t.kind \in {"Tpipe", "TpipeErr"}
CmdToken(t) == t.kind \in {"Tsemi", "Tamp"}
EndOfInput(t) == t.kind \in {"Tend", "Tnl", "Terror"}

(***************************************************************************)
(* Commands.  room is maxargs, the size of the array of arguments.         *)
(***************************************************************************)
newCmd(word, inpipe) ==
    [args |-> <<word>>, room |-> 4, in |-> inpipe, out |-> "Tnil",
     infile |-> <<>>, outfile |-> <<>>, exec |-> "Tsemi"]
\* The static command for the end of the input; its one word, "end", is left out.
End == [args |-> <<>>, room |-> 1, in |-> "Tnil", out |-> "Tnil",
        infile |-> <<>>, outfile |-> <<>>, exec |-> "Tnil"]

\* mutant: no place is kept for the NULL behind the last argument
RoomWithoutNull(cmd) == IF Len(cmd.args) + 1 > cmd.room THEN 2 * cmd.room ELSE cmd.room
RoomFor(cmd) == IF Len(cmd.args) + 2 > cmd.room THEN 2 * cmd.room ELSE cmd.room
\* mutant: the argument that makes the array grow is lost
WithArgLost(cmd, word) ==
    IF RoomFor(cmd) = cmd.room THEN [cmd EXCEPT !.args = Append(@, word)]
    ELSE [cmd EXCEPT !.room = RoomFor(cmd)]
WithArg(cmd, word) == [cmd EXCEPT !.args = Append(@, word), !.room = RoomFor(cmd)]

(***************************************************************************)
(* The state of a call: pipes are the complete ones, cmds the complete     *)
(* commands of the pipe being made, cmd the command being read.            *)
(***************************************************************************)
StartState == [loc |-> "start", pipes |-> <<>>, cmds |-> <<>>, cmd |-> End, result |-> <<>>]
InPipe(st) == IF st.cmds = <<>> THEN "Tnil" ELSE Last(st.cmds).out
At(st, loc) == [st EXCEPT !.loc = loc]
\* parse() returns; <<>> is NULL.
Return(st, pipes) == [StartState EXCEPT !.loc = "done", !.result = pipes]

\* mkPipe returns NULL and the line is at its end: what was complete is kept.
DropPipe(st) == Return(st, st.pipes)
\* mkPipe returns NULL and LookAhead is a token that cannot begin a command.
\* Every mkPipe that is still in its loop tries again to read a next pipe,
\* fails, and loses the one it had: the first pipe remains.
\* mutant: the loop stops at the first failure
LosesNothing(st) == Return(st, st.pipes)
Unwind(st) == Return(st, IF st.pipes = <<>> THEN <<>> ELSE <<Head(st.pipes)>>)

\* The loops that read on to the end of the input.
SkipAtLeastOne(st) == At(st, "skip")
SkipTo(st, t) == IF EndOfInput(t) THEN DropPipe(st) ELSE At(st, "skip")

\* mkCmd returns NULL, or &Empty, to mkPipe.
CmdFails(st, t) ==
    IF st.cmds # <<>> THEN SkipTo(st, t)
    ELSE IF EndOfInput(t) THEN DropPipe(st)
    ELSE Unwind(st)

-----------------------------------------------------------------------------
(***************************************************************************)
(* mkCmd up to the name of the command.                                    *)
(***************************************************************************)
BeginCmd(st, t) ==
    IF CmdToken(t) THEN At(st, "start")
    ELSE IF t.kind = "Tword"
         THEN [st EXCEPT !.loc = "incmd", !.cmd = newCmd(t.word, InPipe(st))]
    ELSE IF t.kind = "Tend"
         THEN Return(st, Append(st.pipes, Append(st.cmds, End)))
    ELSE CmdFails(st, t)

\* mkPipe has a command and LookAhead is t.
\* mutant: the output file gives way to the pipe
AfterCmdOverriding(st, t) ==
    LET piped == [st.cmd EXCEPT !.out = t.kind]
        pipes == Append(st.pipes, Append(st.cmds, st.cmd))
    IN  IF PipeToken(t)
        THEN [st EXCEPT !.loc = "start", !.cmds = Append(@, piped), !.cmd = End]
        ELSE IF EndOfInput(t) THEN Return(st, pipes)
        ELSE BeginCmd([StartState EXCEPT !.pipes = pipes], t)
AfterCmd(st, t) ==
    LET piped == [st.cmd EXCEPT !.out = t.kind]
        pipes == Append(st.pipes, Append(st.cmds, st.cmd))
    IN  IF PipeToken(t)
        THEN IF st.cmd.out # "Tnil" THEN SkipAtLeastOne(st)
             ELSE [st EXCEPT !.loc = "start", !.cmds = Append(@, piped), !.cmd = End]
        ELSE IF EndOfInput(t) THEN Return(st, pipes)
        ELSE BeginCmd([StartState EXCEPT !.pipes = pipes], t)

(***************************************************************************)
(* The loop of mkCmd, and what follows it.                                 *)
(***************************************************************************)
InCmd(st, t) ==
    IF t.kind = "Tword" THEN [st EXCEPT !.cmd = WithArg(@, t.word)]
    ELSE IF t.kind = "Tin"
         THEN IF st.cmd.in # "Tnil" THEN SkipAtLeastOne(st)
              ELSE [st EXCEPT !.loc = "infile", !.cmd = [@ EXCEPT !.in = "Tin"]]
    ELSE IF OutToken(t)
         THEN IF st.cmd.out # "Tnil" THEN SkipAtLeastOne(st)
              ELSE [st EXCEPT !.loc = "outfile", !.cmd = [@ EXCEPT !.out = t.kind]]
    ELSE IF t.kind = "Terror" THEN CmdFails(st, t)
    ELSE IF CmdToken(t) THEN [st EXCEPT !.loc = "aftercmd", !.cmd = [@ EXCEPT !.exec = t.kind]]
    ELSE AfterCmd(st, t)

\* A redirection wants a word; do { Next(); } reads on even if LookAhead was
\* the end of the line.
FileName(st, t) ==
    IF t.kind # "Tword" THEN SkipAtLeastOne(st)
    ELSE IF st.loc = "infile"
         THEN [st EXCEPT !.loc = "incmd", !.cmd = [@ EXCEPT !.infile = <<t.word>>]]
         ELSE [st EXCEPT !.loc = "incmd", !.cmd = [@ EXCEPT !.outfile = <<t.word>>]]

Consume(st, t) ==
    CASE st.loc = "start" -> BeginCmd(st, t)
      [] st.loc = "incmd" -> InCmd(st, t)
      [] st.loc \in {"infile", "outfile"} -> FileName(st, t)
      [] st.loc = "aftercmd" -> AfterCmd(st, t)
      [] st.loc = "skip" -> SkipTo(st, t)
      [] OTHER -> st

\* parse() as a function of the tokens it finds, if they are enough for it.
Parse(ts) == FoldLeft(Consume, StartState, ts)

-----------------------------------------------------------------------------
Init == typed = <<>> /\ s = StartState

Kinds == {"Tword", "Tsemi", "Tpipe", "Tin", "Tout", "Tnl", "Tend", "Terror"}

\* Next(): a word is known by its place in the text.
NextToken(kind) ==
    /\ s.loc # "done" /\ Len(typed) < MaxTokens
    /\ LET t == Token(kind, IF kind = "Tword" THEN Len(typed) + 1 ELSE 0) IN
         /\ typed' = Append(typed, t)
         /\ s' = Consume(s, t)

\* main calls parse() again.
NextLine ==
    /\ s.loc = "done"
    /\ typed' = <<>> /\ s' = StartState

Next == NextLine \/ \E kind \in Kinds : NextToken(kind)

Spec == Init /\ [][Next]_vars

-----------------------------------------------------------------------------
(***************************************************************************)
(* What a line means, from the text alone.                                 *)
(***************************************************************************)
Words(ts, S) == [i \in 1 .. Cardinality(S) |-> ts[SetToSortSeq(S, <)[i]].word]
Redirects(t) == t.kind = "Tin" \/ OutToken(t)
Parts(t) == CmdToken(t) \/ PipeToken(t)
\* The places where a command begins, and where the one from i on ends.
Begins(ts) == {i \in DOMAIN ts : ts[i].kind = "Tword" /\ (i = 1 \/ Parts(ts[i - 1]))}
Stop(ts, i) == CHOOSE j \in i + 1 .. Len(ts) :
    (Parts(ts[j]) \/ j = Len(ts)) /\ \A k \in i + 1 .. j - 1 : ~Parts(ts[k])
AfterPipe(ts, i) == i > 1 /\ PipeToken(ts[i - 1])
BeforePipe(ts, i) == PipeToken(ts[Stop(ts, i)])
Inputs(ts, i) == {j \in i .. Stop(ts, i) - 1 : ts[j].kind = "Tin"}
Outputs(ts, i) == {j \in i .. Stop(ts, i) - 1 : OutToken(ts[j])}

Legal(ts) ==
    /\ ts # <<>> /\ Last(ts).kind = "Tnl"
    /\ \A i \in 1 .. Len(ts) - 1 :
         /\ ~EndOfInput(ts[i])
         /\ Redirects(ts[i]) \/ PipeToken(ts[i]) => ts[i + 1].kind = "Tword"
         /\ i = 1 \/ CmdToken(ts[i - 1]) => ts[i].kind = "Tword" \/ CmdToken(ts[i])
    /\ \A i \in Begins(ts) :
         /\ Cardinality(Inputs(ts, i)) + (IF AfterPipe(ts, i) THEN 1 ELSE 0) <= 1
         /\ Cardinality(Outputs(ts, i)) + (IF BeforePipe(ts, i) THEN 1 ELSE 0) <= 1

CommandAt(ts, i) ==
    LET files == {j + 1 : j \in Inputs(ts, i) \cup Outputs(ts, i)}
        Only(S) == [k \in 1 .. Cardinality(S) |-> ts[CHOOSE j \in S : TRUE].kind]
        File(S) == [k \in 1 .. Cardinality(S) |-> ts[1 + CHOOSE j \in S : TRUE].word]
        Or(seq, place, x) == IF seq # <<>> THEN seq[1] ELSE IF place THEN ts[x].kind ELSE "Tnil"
    IN  [args |-> Words(ts, {j \in i .. Stop(ts, i) - 1 : ts[j].kind = "Tword"} \ files),
         in |-> Or(Only(Inputs(ts, i)), AfterPipe(ts, i), i - 1),
         out |-> Or(Only(Outputs(ts, i)), BeforePipe(ts, i), Stop(ts, i)),
         infile |-> File(Inputs(ts, i)), outfile |-> File(Outputs(ts, i))]

\* The pipe that begins at i: its commands, up to the first that no pipe follows.
PipeAt(ts, i) ==
    LET members == {j \in Begins(ts) : j >= i /\
                       \A k \in Begins(ts) : i <= k /\ k < j => BeforePipe(ts, k)}
        places == SetToSortSeq(members, <)
    IN  [k \in DOMAIN places |-> CommandAt(ts, places[k])]
Meaning(ts) ==
    LET firsts == SetToSortSeq({i \in Begins(ts) : ~AfterPipe(ts, i)}, <)
    IN  [k \in DOMAIN firsts |-> PipeAt(ts, firsts[k])]

\* The same of what parse() returns.
Plain(pipes) ==
    [k \in DOMAIN pipes |-> [j \in DOMAIN pipes[k] |->
       [f \in {"args", "in", "out", "infile", "outfile"} |-> pipes[k][j][f]]]]
AllCmds(pipes) == FlattenSeq(pipes)

(***************************************************************************)
(* A line that is correct, by the grammar of the shell alone, is parsed to *)
(* what it means: every command with its words in their order and its      *)
(* redirections, every pipe in its place.                                  *)
(***************************************************************************)
Done == s.loc = "done"
LegalIsParsed == Done /\ Legal(typed) => Plain(s.result) = Meaning(typed)

(***************************************************************************)
(* Whatever the line is, what parse() hands to the shell is a beginning of *)
(* it: up to the last word kept no word is missing, and none is moved.     *)
(***************************************************************************)
WordsOf(cmd) == cmd.args \o cmd.infile \o cmd.outfile
Kept == FlattenSeq([k \in DOMAIN AllCmds(s.result) |->
           IF AllCmds(s.result)[k] = End THEN <<>> ELSE WordsOf(AllCmds(s.result)[k])])
KeepsABeginning ==
    Done =>
        /\ IsInjective(Kept)
        /\ \A i \in DOMAIN typed :
              typed[i].kind = "Tword" /\ (\E w \in Range(Kept) : i <= w) => i \in Range(Kept)
        /\ \A j, k \in DOMAIN AllCmds(s.result) : j < k /\ AllCmds(s.result)[k] # End =>
              \A v \in Range(WordsOf(AllCmds(s.result)[j])),
                 w \in Range(WordsOf(AllCmds(s.result)[k])) : v < w
        /\ \A k \in DOMAIN AllCmds(s.result) : AllCmds(s.result)[k] # End =>
              LET a == AllCmds(s.result)[k].args IN
              \A i, j \in DOMAIN a : i < j => a[i] < a[j]

(***************************************************************************)
(* What the shell relies on.  Pipes connect neighbours, an input file is   *)
(* for the first command of a pipe and an output file for the last; End is *)
(* last; and the array of arguments has a place for the NULL behind them.  *)
(***************************************************************************)
PipesConnect(p) ==
    \A k \in DOMAIN p :
        LET cmd == p[k] IN
        /\ IF k = 1 THEN cmd.in \in {"Tnil", "Tin"} ELSE cmd = End \/ cmd.in = p[k - 1].out
        /\ IF k = Len(p) THEN cmd.out = "Tnil" \/ OutToken(Token(cmd.out, 0))
           ELSE PipeToken(Token(cmd.out, 0))
        /\ cmd = End => k = Len(p)
        /\ (cmd.in = "Tin") <=> (cmd.infile # <<>>)
        /\ OutToken(Token(cmd.out, 0)) <=> cmd.outfile # <<>>
        /\ cmd # End => Len(cmd.args) + 1 <= cmd.room
CommandsAreSound ==
    /\ \A k \in DOMAIN s.result : PipesConnect(s.result[k])
    /\ \A k \in DOMAIN s.result : Last(s.result[k]) = End => k = Len(s.result)

(***************************************************************************)
(* parse() reads to the end of its line and no further, with two           *)
(* exceptions.  A file name that is missing at the end of a line takes the *)
(* next line with it.  Where a command should begin and something else     *)
(* stands, parse() stops, keeps the first pipe at most, and the rest of    *)
(* the line is taken for a line.                                           *)
(***************************************************************************)
ReadsItsLine ==
    Done =>
        /\ \A i \in 1 .. Len(typed) - 1 : EndOfInput(typed[i]) => i > 1 /\ Redirects(typed[i - 1])
        /\ ~EndOfInput(Last(typed)) =>
              /\ Redirects(Last(typed)) \/ PipeToken(Last(typed))
              /\ Len(typed) > 1 => CmdToken(typed[Len(typed) - 1])
              /\ Len(s.result) <= 1

-----------------------------------------------------------------------------
(***************************************************************************)
(* The inductive invariant behind CommandsAreSound and ReadsItsLine.       *)
(***************************************************************************)
Cmds == [args : Seq(Nat), room : Nat, in : Kinds \cup {"Tnil"},
         out : Kinds \cup {"Tnil"}, infile : Seq(Nat), outfile : Seq(Nat),
         exec : Kinds \cup {"Tnil"}]
InCommand == {"incmd", "infile", "outfile", "aftercmd"}
States == [loc : InCommand \cup {"start", "skip", "done"},
           pipes : Seq(Seq(Cmds)), cmds : Seq(Cmds), cmd : Cmds,
           result : Seq(Seq(Cmds))]

\* The command being read: what is open is the file that has still to come.
HasRoom(cmd) == cmd.args # <<>> /\ Len(cmd.args) + 1 <= cmd.room
InputNamed(cmd) == cmd.in = "Tin" <=> cmd.infile # <<>>
OutputNamed(cmd) == OutToken(Token(cmd.out, 0)) <=> cmd.outfile # <<>>
Reading(st) ==
    /\ HasRoom(st.cmd)
    /\ IF st.cmds = <<>> THEN st.cmd.in \in {"Tnil", "Tin"}
       ELSE st.cmd.in = Last(st.cmds).out
    /\ IF st.loc = "infile" THEN st.cmd.in = "Tin" ELSE InputNamed(st.cmd)
    /\ st.cmd.out = "Tnil" \/ OutToken(Token(st.cmd.out, 0))
    /\ IF st.loc = "outfile" THEN OutToken(Token(st.cmd.out, 0))
       ELSE OutputNamed(st.cmd)

\* The commands of the pipe being made, and a pipe that is complete.
Piped(cmds) ==
    \A k \in DOMAIN cmds :
        /\ HasRoom(cmds[k]) /\ InputNamed(cmds[k]) /\ OutputNamed(cmds[k])
        /\ PipeToken(Token(cmds[k].out, 0))
        /\ IF k = 1 THEN cmds[k].in \in {"Tnil", "Tin"}
           ELSE cmds[k].in = cmds[k - 1].out
Complete(p) == p # <<>> /\ PipesConnect(p) /\ Last(p) # End

Made(st) ==
    /\ \A k \in DOMAIN st.pipes : Complete(st.pipes[k])
    /\ Piped(st.cmds)
    /\ st.loc \in InCommand => Reading(st)

\* Where the end of a line was passed over, and how parse() stands to the token
\* read last.
EndsPassed(ts) ==
    \A i \in DOMAIN ts : EndOfInput(ts[i]) => i > 1 /\ Redirects(ts[i - 1])
AtToken(ts, st) ==
    /\ st.loc = "start" /\ st.cmds = <<>> => ts = <<>> \/ CmdToken(Last(ts))
    /\ st.loc \in {"infile", "outfile"} => ts # <<>> /\ Redirects(Last(ts))
    /\ st.loc = "aftercmd" => ts # <<>> /\ CmdToken(Last(ts))
    /\ st.loc # "done" => EndsPassed(ts)

IInv ==
    /\ typed \in Seq([kind : Kinds, word : Nat]) /\ s \in States
    /\ Made(s) /\ CommandsAreSound
    /\ AtToken(typed, s) /\ ReadsItsLine
=============================================================================
