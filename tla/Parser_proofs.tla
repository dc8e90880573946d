--------------------------- MODULE Parser_proofs ---------------------------
(***************************************************************************)
(* Proofs about the shell's parser: whatever tokens a line has, and        *)
(* however many, the pipes that parse() returns are ones the shell can     *)
(* run, and parse() reads to the end of its line.  Each place where the    *)
(* code reads a token has a lemma, about any state and any token; the step *)
(* of the specification puts them together.                                *)
(***************************************************************************)
EXTENDS Parser, SequenceTheorems, TLAPS

Tokens == [kind : Kinds, word : Nat]

\* CommandsAreSound of a list of pipes.
Sound(pipes) ==
    /\ \A k \in DOMAIN pipes : PipesConnect(pipes[k])
    /\ \A k \in DOMAIN pipes : Last(pipes[k]) = End => k = Len(pipes)
AllComplete(pipes) ==
    pipes \in Seq(Seq(Cmds)) /\ \A k \in DOMAIN pipes : Complete(pipes[k])
\* A state whose pipes, and whose answer, can be run.
Good(st) == st \in States /\ Made(st) /\ Sound(st.result)

\* The command of st could be the last of its pipe.
Closed(cmds, cmd) ==
    /\ cmd \in Cmds
    /\ HasRoom(cmd) /\ InputNamed(cmd) /\ OutputNamed(cmd)
    /\ IF cmds = <<>> THEN cmd.in \in {"Tnil", "Tin"} ELSE cmd.in = Last(cmds).out
    /\ cmd.out = "Tnil" \/ OutToken(Token(cmd.out, 0))

-----------------------------------------------------------------------------
(***************************************************************************)
(* Sequences and commands.                                                 *)
(***************************************************************************)
LEMMA Appended ==
    ASSUME NEW S, NEW seq \in Seq(S), NEW e \in S
    PROVE  /\ Append(seq, e) \in Seq(S) /\ Append(seq, e) # <<>>
           /\ Len(seq) \in Nat /\ DOMAIN seq = 1 .. Len(seq)
           /\ Len(Append(seq, e)) = Len(seq) + 1
           /\ DOMAIN Append(seq, e) = 1 .. Len(seq) + 1
           /\ \A i \in 1 .. Len(seq) : Append(seq, e)[i] = seq[i]
           /\ Append(seq, e)[Len(seq) + 1] = e
           /\ Last(Append(seq, e)) = e
BY AppendProperties DEF Last

\* The element before the new one.
LEMMA Before ==
    ASSUME NEW S, NEW seq \in Seq(S), NEW e \in S, seq # <<>>
    PROVE  /\ Len(seq) \in Nat \ {0} /\ Last(seq) = seq[Len(seq)]
           /\ Last(seq) \in S
           /\ Append(seq, e)[Len(seq)] = Last(seq)
BY AppendProperties DEF Last

LEMMA EndIsCmd ==
    /\ End \in Cmds /\ End.in = "Tnil" /\ End.out = "Tnil"
    /\ End.infile = <<>> /\ End.outfile = <<>> /\ End.args = <<>>
BY DEF End, Cmds, Kinds

LEMMA StartIsState ==
    /\ StartState \in States /\ StartState.loc = "start" /\ StartState.pipes = <<>>
    /\ StartState.cmds = <<>> /\ StartState.result = <<>>
BY EndIsCmd DEF StartState, States, InCommand

LEMMA StartIsGood == Good(StartState)
<1>1. StartState \in States
  BY StartIsState
<1>2. Made(StartState) /\ Sound(StartState.result)
  BY DEF StartState, Made, InCommand, Piped, Sound
<1> QED
  BY <1>1, <1>2 DEF Good

\* A command with room for its arguments is not the one for the end of the input.
LEMMA RoomIsNotEnd ==
    ASSUME NEW cmd \in Cmds, HasRoom(cmd)
    PROVE  cmd # End
BY EndIsCmd DEF HasRoom

\* Complete pipes are pipes the shell can run.
LEMMA CompleteIsSound ==
    ASSUME NEW pipes, AllComplete(pipes)
    PROVE  Sound(pipes)
BY DEF AllComplete, Sound, Complete

\* A pipe that may end with End, behind complete ones.
LEMMA OneMorePipe ==
    ASSUME NEW pipes, AllComplete(pipes), NEW p \in Seq(Cmds), PipesConnect(p)
    PROVE  Append(pipes, p) \in Seq(Seq(Cmds)) /\ Sound(Append(pipes, p))
<1> DEFINE ps == Append(pipes, p)
           n == Len(pipes)
<1>1. pipes \in Seq(Seq(Cmds)) /\ \A k \in DOMAIN pipes : PipesConnect(pipes[k]) /\ Last(pipes[k]) # End
  BY DEF AllComplete, Complete
<1>2. /\ ps \in Seq(Seq(Cmds)) /\ n \in Nat /\ DOMAIN pipes = 1 .. n
      /\ Len(ps) = n + 1 /\ DOMAIN ps = 1 .. n + 1
      /\ \A i \in 1 .. n : ps[i] = pipes[i]
      /\ ps[n + 1] = p
  BY <1>1, Appended
<1> HIDE DEF ps, n
<1>3. \A k \in DOMAIN ps : k = n + 1 \/ k \in 1 .. n
  BY <1>2
<1>4. ASSUME NEW k \in DOMAIN ps
      PROVE  PipesConnect(ps[k]) /\ (Last(ps[k]) = End => k = Len(ps))
  BY <1>1, <1>2, <1>3
<1> QED
  BY <1>2, <1>4 DEF Sound, ps

LEMMA OneMoreComplete ==
    ASSUME NEW pipes, AllComplete(pipes), NEW p \in Seq(Cmds), Complete(p)
    PROVE  AllComplete(Append(pipes, p))
<1> DEFINE ps == Append(pipes, p)
           n == Len(pipes)
<1>1. pipes \in Seq(Seq(Cmds)) /\ \A k \in DOMAIN pipes : Complete(pipes[k])
  BY DEF AllComplete
<1>2. /\ ps \in Seq(Seq(Cmds)) /\ n \in Nat /\ DOMAIN pipes = 1 .. n
      /\ DOMAIN ps = 1 .. n + 1
      /\ \A i \in 1 .. n : ps[i] = pipes[i]
      /\ ps[n + 1] = p
  BY <1>1, Appended
<1> HIDE DEF ps, n
<1>3. \A k \in DOMAIN ps : k = n + 1 \/ k \in 1 .. n
  BY <1>2
<1>4. ASSUME NEW k \in DOMAIN ps PROVE Complete(ps[k])
  BY <1>1, <1>2, <1>3
<1> QED
  BY <1>2, <1>4 DEF AllComplete, ps

\* The conditions of PipesConnect on one command.
Fits(p, k) ==
    LET cmd == p[k] IN
        /\ IF k = 1 THEN cmd.in \in {"Tnil", "Tin"} ELSE cmd = End \/ cmd.in = p[k - 1].out
        /\ IF k = Len(p) THEN cmd.out = "Tnil" \/ OutToken(Token(cmd.out, 0))
           ELSE PipeToken(Token(cmd.out, 0))
        /\ cmd = End => k = Len(p)
        /\ (cmd.in = "Tin") <=> (cmd.infile # <<>>)
        /\ OutToken(Token(cmd.out, 0)) <=> cmd.outfile # <<>>
        /\ cmd # End => Len(cmd.args) + 1 <= cmd.room

LEMMA ConnectIsFit ==
    ASSUME NEW p, \A k \in DOMAIN p : Fits(p, k)
    PROVE  PipesConnect(p)
BY DEF PipesConnect, Fits

\* The commands that a pipe follows, and one more.
LEMMA PipedFit ==
    ASSUME NEW cmds \in Seq(Cmds), Piped(cmds), NEW cmd \in Cmds,
           NEW k \in 1 .. Len(cmds)
    PROVE  Fits(Append(cmds, cmd), k)
<1> DEFINE p == Append(cmds, cmd)
           n == Len(cmds)
<1>1. /\ n \in Nat /\ DOMAIN cmds = 1 .. n /\ Len(p) = n + 1
      /\ \A i \in 1 .. n : p[i] = cmds[i]
  BY Appended
<1> HIDE DEF p, n
<1>2. k \in 1 .. n /\ k # n + 1 /\ (k # 1 => k - 1 \in 1 .. n)
  BY <1>1 DEF n
<1>3. p[k] = cmds[k] /\ (k # 1 => p[k - 1] = cmds[k - 1])
  BY <1>1, <1>2
<1>4. /\ HasRoom(cmds[k]) /\ InputNamed(cmds[k]) /\ OutputNamed(cmds[k])
      /\ PipeToken(Token(cmds[k].out, 0))
      /\ IF k = 1 THEN cmds[k].in \in {"Tnil", "Tin"}
         ELSE cmds[k].in = cmds[k - 1].out
  BY <1>1, <1>2 DEF Piped
<1>5. cmds[k] # End
  <2>1. cmds[k] \in Cmds
    BY <1>1, <1>2
  <2> QED
    BY <1>4, <2>1, RoomIsNotEnd
<1>6. Len(p) # k
  BY <1>1, <1>2
<1>7. Fits(p, k)
  BY <1>3, <1>4, <1>5, <1>6 DEF Fits, HasRoom, InputNamed, OutputNamed
<1> QED
  BY <1>7 DEF p

LEMMA EndClosesPipe ==
    ASSUME NEW cmds \in Seq(Cmds), Piped(cmds)
    PROVE  Append(cmds, End) \in Seq(Cmds) /\ PipesConnect(Append(cmds, End))
<1> DEFINE p == Append(cmds, End)
           n == Len(cmds)
<1>1. /\ p \in Seq(Cmds) /\ n \in Nat /\ DOMAIN p = 1 .. n + 1 /\ Len(p) = n + 1
      /\ p[n + 1] = End
  BY Appended, EndIsCmd
<1>2. ASSUME NEW k \in 1 .. n PROVE Fits(p, k)
  BY <1>2, EndIsCmd, PipedFit
<1> HIDE DEF p, n
<1>3. Fits(p, n + 1)
  BY <1>1, EndIsCmd DEF Fits, OutToken, Token
<1>4. \A k \in DOMAIN p : Fits(p, k)
  <2>1. \A k \in DOMAIN p : k = n + 1 \/ k \in 1 .. n
    BY <1>1
  <2> QED
    BY <1>2, <1>3, <2>1
<1>5. PipesConnect(p)
  BY <1>4, ConnectIsFit
<1> QED
  BY <1>1, <1>5 DEF p

LEMMA CmdClosesPipe ==
    ASSUME NEW cmds \in Seq(Cmds), Piped(cmds), NEW cmd, Closed(cmds, cmd)
    PROVE  Append(cmds, cmd) \in Seq(Cmds) /\ Complete(Append(cmds, cmd))
<1> DEFINE p == Append(cmds, cmd)
           n == Len(cmds)
<1>0. cmd \in Cmds
  BY DEF Closed
<1>1. /\ p \in Seq(Cmds) /\ p # <<>> /\ n \in Nat /\ DOMAIN p = 1 .. n + 1
      /\ Len(p) = n + 1 /\ p[n + 1] = cmd /\ Last(p) = cmd
      /\ n = 0 <=> cmds = <<>>
  BY <1>0, Appended
<1>2. ASSUME NEW k \in 1 .. n PROVE Fits(p, k)
  BY <1>0, <1>2, PipedFit
<1>3. n # 0 => p[n + 1 - 1] = Last(cmds)
  <2>1. n # 0 => p[n] = Last(cmds)
    BY <1>0, <1>1, Before
  <2> HIDE DEF p, n
  <2> QED
    BY <1>1, <2>1
<1>4. cmd # End
  BY <1>0, RoomIsNotEnd DEF Closed
<1> HIDE DEF p, n
<1>5. Fits(p, n + 1)
  <2>1. n + 1 = 1 <=> cmds = <<>>
    BY <1>1
  <2> QED
    BY <1>1, <1>3, <1>4, <2>1 DEF Fits, Closed, HasRoom, InputNamed, OutputNamed
<1>6. \A k \in DOMAIN p : Fits(p, k)
  <2>1. \A k \in DOMAIN p : k = n + 1 \/ k \in 1 .. n
    BY <1>1
  <2> QED
    BY <1>2, <1>5, <2>1
<1>7. PipesConnect(p)
  BY <1>6, ConnectIsFit
<1> QED
  BY <1>1, <1>4, <1>7 DEF p, Complete

\* A pipe token goes behind a command with no output file.
LEMMA OneMorePiped ==
    ASSUME NEW cmds \in Seq(Cmds), Piped(cmds), NEW cmd, Closed(cmds, cmd),
           cmd.out = "Tnil", NEW t \in Tokens, PipeToken(t)
    PROVE  LET piped == [cmd EXCEPT !.out = t.kind]
           IN  piped \in Cmds /\ Append(cmds, piped) \in Seq(Cmds) /\ Piped(Append(cmds, piped))
<1> DEFINE piped == [cmd EXCEPT !.out = t.kind]
           cs == Append(cmds, piped)
           n == Len(cmds)
<1>0. cmd \in Cmds /\ t.kind \in Kinds
  BY DEF Closed, Tokens
<1>1. /\ piped \in Cmds /\ piped.out = t.kind /\ piped.in = cmd.in
      /\ piped.args = cmd.args /\ piped.room = cmd.room
      /\ piped.infile = cmd.infile /\ piped.outfile = cmd.outfile
  BY <1>0 DEF Cmds
<1>2. /\ HasRoom(piped) /\ InputNamed(piped) /\ OutputNamed(piped)
      /\ PipeToken(Token(piped.out, 0))
      /\ IF cmds = <<>> THEN piped.in \in {"Tnil", "Tin"} ELSE piped.in = Last(cmds).out
  BY <1>1 DEF Closed, HasRoom, InputNamed, OutputNamed, OutToken, PipeToken, Token
<1>3. /\ cs \in Seq(Cmds) /\ n \in Nat /\ DOMAIN cs = 1 .. n + 1 /\ DOMAIN cmds = 1 .. n
      /\ \A i \in 1 .. n : cs[i] = cmds[i]
      /\ cs[n + 1] = piped
      /\ n = 0 <=> cmds = <<>>
  BY <1>1, Appended
<1>4. n # 0 => cs[n + 1 - 1] = Last(cmds)
  <2>0. piped \in Cmds /\ (n # 0 => cmds # <<>>)
    BY <1>1, <1>3
  <2> HIDE DEF piped
  <2>1. n # 0 => cs[n] = Last(cmds)
    BY <2>0, Before
  <2> HIDE DEF cs, n
  <2> QED
    BY <1>3, <2>1
<1> HIDE DEF piped, cs, n
<1>5. ASSUME NEW k \in DOMAIN cs
      PROVE  /\ HasRoom(cs[k]) /\ InputNamed(cs[k]) /\ OutputNamed(cs[k])
             /\ PipeToken(Token(cs[k].out, 0))
             /\ IF k = 1 THEN cs[k].in \in {"Tnil", "Tin"}
                ELSE cs[k].in = cs[k - 1].out
  <2>1. CASE k = n + 1
    <3>1. k = 1 <=> cmds = <<>>
      BY <1>3, <2>1
    <3>2. k # 1 => cs[k - 1] = Last(cmds)
      BY <1>3, <1>4, <2>1
    <3> QED
      BY <1>2, <1>3, <2>1, <3>1, <3>2
  <2>2. CASE k \in 1 .. n
    <3>1. cs[k] = cmds[k] /\ (k # 1 => k - 1 \in 1 .. n /\ cs[k - 1] = cmds[k - 1])
      BY <1>3, <2>2
    <3> QED
      BY <1>3, <2>2, <3>1 DEF Piped
  <2> QED
    BY <1>3, <2>1, <2>2
<1>6. Piped(cs)
  BY <1>5 DEF Piped
<1> QED
  BY <1>1, <1>3, <1>6 DEF cs, piped

-----------------------------------------------------------------------------
(***************************************************************************)
(* What is between two reads, place by place, keeps a state good.          *)
(***************************************************************************)
LEMMA Returned ==
    ASSUME NEW st, NEW pipes \in Seq(Seq(Cmds)), Sound(pipes)
    PROVE  Good(Return(st, pipes))
<1> DEFINE r == Return(st, pipes)
<1>1. /\ r \in States /\ r.loc = "done" /\ r.result = pipes
      /\ r.pipes = <<>> /\ r.cmds = <<>>
  BY StartIsState DEF Return, States
<1> HIDE DEF r
<1>2. Made(r)
  BY <1>1 DEF Made, InCommand, Piped
<1> QED
  BY <1>1, <1>2 DEF Good, r

LEMMA PipesComplete ==
    ASSUME NEW st, Good(st)
    PROVE  /\ AllComplete(st.pipes) /\ Sound(st.pipes) /\ st.pipes \in Seq(Seq(Cmds))
           /\ st.cmds \in Seq(Cmds) /\ Piped(st.cmds) /\ st.cmd \in Cmds
<1>1. AllComplete(st.pipes)
  BY DEF Good, Made, States, AllComplete
<1> QED
  BY <1>1, CompleteIsSound DEF Good, Made, States

LEMMA DropPipeIsGood ==
    ASSUME NEW st, Good(st) PROVE Good(DropPipe(st))
BY PipesComplete, Returned DEF DropPipe

LEMMA UnwindIsGood ==
    ASSUME NEW st, Good(st) PROVE Good(Unwind(st))
<1>1. AllComplete(st.pipes)
  BY PipesComplete
<1>2. <<>> \in Seq(Seq(Cmds)) /\ Sound(<<>>)
  BY DEF Sound
<1>3. CASE st.pipes = <<>>
  BY <1>2, <1>3, Returned DEF Unwind
<1>4. CASE st.pipes # <<>>
  <2> DEFINE p == Head(st.pipes)
  <2>1. p \in Seq(Cmds) /\ Complete(p)
    BY <1>1, <1>4 DEF AllComplete
  <2> HIDE DEF p
  <2>2. <<p>> \in Seq(Seq(Cmds)) /\ \A k \in DOMAIN <<p>> : Complete(<<p>>[k])
    BY <2>1
  <2>3. Sound(<<p>>)
    BY <2>2, CompleteIsSound DEF AllComplete
  <2>4. Unwind(st) = Return(st, <<p>>)
    BY <1>4 DEF Unwind, p
  <2> QED
    BY <2>2, <2>3, <2>4, Returned
<1> QED
  BY <1>3, <1>4

\* A change of place only.
LEMMA AtIsGood ==
    ASSUME NEW st, Good(st), NEW loc \in {"start", "skip"}
    PROVE  Good(At(st, loc))
<1> DEFINE r == At(st, loc)
<1>1. /\ r \in States /\ r.loc = loc /\ r.pipes = st.pipes /\ r.cmds = st.cmds
      /\ r.result = st.result
  BY DEF At, Good, States
<1> HIDE DEF r
<1>2. Made(r)
  BY <1>1 DEF Made, Good, InCommand
<1> QED
  BY <1>1, <1>2 DEF Good, r

LEMMA SkipToIsGood ==
    ASSUME NEW st, Good(st), NEW t PROVE Good(SkipTo(st, t))
BY DropPipeIsGood, AtIsGood DEF SkipTo

LEMMA CmdFailsIsGood ==
    ASSUME NEW st, Good(st), NEW t PROVE Good(CmdFails(st, t))
BY DropPipeIsGood, UnwindIsGood, SkipToIsGood DEF CmdFails

LEMMA BeginCmdIsGood ==
    ASSUME NEW st, Good(st), NEW t \in Tokens PROVE Good(BeginCmd(st, t))
<1>1. CASE CmdToken(t)
  BY <1>1, AtIsGood DEF BeginCmd
<1>2. CASE t.kind = "Tword"
  <2> DEFINE new == newCmd(t.word, InPipe(st))
             r == [st EXCEPT !.loc = "incmd", !.cmd = new]
  <2>1. st.cmds \in Seq(Cmds) /\ Piped(st.cmds) /\ st \in States /\ t.word \in Nat
    BY PipesComplete DEF Good, Tokens
  <2>2. InPipe(st) \in Kinds \cup {"Tnil"}
    <3>1. st.cmds # <<>> => Last(st.cmds) \in Cmds
      BY <2>1, Before
    <3> QED
      BY <3>1 DEF InPipe, Cmds
  <2>3. /\ new \in Cmds /\ new.in = InPipe(st) /\ new.out = "Tnil"
        /\ new.args = <<t.word>> /\ new.room = 4 /\ new.infile = <<>> /\ new.outfile = <<>>
    BY <2>1, <2>2 DEF newCmd, Cmds, Kinds
  <2>4. st.cmds # <<>> => InPipe(st) = Last(st.cmds).out /\ InPipe(st) # "Tin"
    <3>1. st.cmds # <<>> => Len(st.cmds) \in DOMAIN st.cmds
      BY <2>1
    <3> QED
      BY <2>1, <3>1 DEF Piped, InPipe, Last, PipeToken, Token
  <2>5. st.cmds = <<>> => InPipe(st) = "Tnil"
    BY DEF InPipe
  <2> HIDE DEF new
  <2>6. /\ r \in States /\ r.loc = "incmd" /\ r.pipes = st.pipes /\ r.cmds = st.cmds
        /\ r.result = st.result /\ r.cmd = new
    BY <2>1, <2>3 DEF States, InCommand
  <2> HIDE DEF r
  <2>7. Reading(r)
    <3>1. HasRoom(new)
      BY <2>3 DEF HasRoom
    <3>2. InputNamed(new) /\ OutputNamed(new)
      BY <2>3, <2>4, <2>5 DEF InputNamed, OutputNamed, OutToken, Token
    <3> QED
      BY <2>3, <2>4, <2>5, <2>6, <3>1, <3>2 DEF Reading
  <2>8. Made(r)
    BY <2>6, <2>7 DEF Made, Good
  <2>9. BeginCmd(st, t) = r
    BY <1>2 DEF BeginCmd, CmdToken, r, new
  <2> QED
    BY <2>6, <2>8, <2>9 DEF Good
<1>3. CASE t.kind = "Tend"
  <2>1. /\ Append(st.cmds, End) \in Seq(Cmds) /\ PipesConnect(Append(st.cmds, End))
        /\ AllComplete(st.pipes)
    BY PipesComplete, EndClosesPipe
  <2>2. LET ps == Append(st.pipes, Append(st.cmds, End))
        IN  ps \in Seq(Seq(Cmds)) /\ Sound(ps)
    BY <2>1, OneMorePipe
  <2> QED
    BY <1>3, <2>2, Returned DEF BeginCmd, CmdToken
<1>4. CASE ~CmdToken(t) /\ t.kind # "Tword" /\ t.kind # "Tend"
  BY <1>4, CmdFailsIsGood DEF BeginCmd
<1> QED
  BY <1>1, <1>2, <1>3, <1>4

LEMMA ReadingCloses ==
    ASSUME NEW st, Good(st), st.loc \in {"incmd", "aftercmd"}
    PROVE  Closed(st.cmds, st.cmd)
<1>1. Reading(st) /\ st.cmd \in Cmds
  BY PipesComplete DEF Good, Made, InCommand
<1> QED
  BY <1>1 DEF Reading, Closed

\* parse() goes on to the next pipe.
LEMMA StartsAgain ==
    ASSUME NEW pipes, AllComplete(pipes)
    PROVE  Good([StartState EXCEPT !.pipes = pipes])
<1> DEFINE r == [StartState EXCEPT !.pipes = pipes]
<1>1. /\ r \in States /\ r.loc = "start" /\ r.pipes = pipes /\ r.cmds = <<>>
      /\ r.result = <<>>
  BY StartIsState DEF States, AllComplete
<1> HIDE DEF r
<1>2. Made(r) /\ Sound(r.result)
  BY <1>1 DEF Made, AllComplete, InCommand, Piped, Sound
<1> QED
  BY <1>1, <1>2 DEF Good, r

LEMMA AfterCmdIsGood ==
    ASSUME NEW st, Good(st), st.loc \in {"incmd", "aftercmd"}, NEW t \in Tokens
    PROVE  Good(AfterCmd(st, t))
<1> DEFINE piped == [st.cmd EXCEPT !.out = t.kind]
           pipes == Append(st.pipes, Append(st.cmds, st.cmd))
<1>1. /\ Closed(st.cmds, st.cmd) /\ st \in States /\ Made(st) /\ Sound(st.result)
      /\ AllComplete(st.pipes) /\ st.cmds \in Seq(Cmds) /\ Piped(st.cmds)
  BY PipesComplete, ReadingCloses DEF Good
<1>2. AllComplete(pipes) /\ Sound(pipes) /\ pipes \in Seq(Seq(Cmds))
  <2>1. AllComplete(pipes)
    BY <1>1, CmdClosesPipe, OneMoreComplete
  <2> HIDE DEF pipes
  <2> QED
    BY <2>1, CompleteIsSound DEF AllComplete
<1>3. CASE PipeToken(t) /\ st.cmd.out # "Tnil"
  BY <1>3, AtIsGood DEF AfterCmd, SkipAtLeastOne
<1>4. CASE PipeToken(t) /\ st.cmd.out = "Tnil"
  <2> DEFINE cs == Append(st.cmds, piped)
             r == [st EXCEPT !.loc = "start", !.cmds = cs, !.cmd = End]
  <2>1. cs \in Seq(Cmds) /\ Piped(cs)
    BY <1>1, <1>4, OneMorePiped
  <2>2. AfterCmd(st, t) = r
    BY <1>1, <1>4 DEF AfterCmd, States
  <2> HIDE DEF cs
  <2>3. /\ r \in States /\ r.loc = "start" /\ r.pipes = st.pipes /\ r.cmds = cs
        /\ r.result = st.result
    BY <1>1, <2>1, EndIsCmd DEF States
  <2> HIDE DEF r
  <2>4. Made(r)
    BY <1>1, <2>1, <2>3 DEF Made, InCommand
  <2> QED
    BY <1>1, <2>2, <2>3, <2>4 DEF Good
<1>5. CASE ~PipeToken(t) /\ EndOfInput(t)
  BY <1>2, <1>5, Returned DEF AfterCmd
<1>6. CASE ~PipeToken(t) /\ ~EndOfInput(t)
  <2> DEFINE r == [StartState EXCEPT !.pipes = pipes]
  <2>1. AfterCmd(st, t) = BeginCmd(r, t)
    BY <1>6 DEF AfterCmd
  <2> HIDE DEF pipes
  <2> QED
    BY <1>2, <2>1, StartsAgain, BeginCmdIsGood
<1> QED
  BY <1>3, <1>4, <1>5, <1>6

\* The command being read changes, and what holds of it is known.
LEMMA CmdChanged ==
    ASSUME NEW st, Good(st), NEW cmd \in Cmds, NEW loc \in InCommand,
           NEW r, r = [st EXCEPT !.loc = loc, !.cmd = cmd],
           HasRoom(cmd),
           IF st.cmds = <<>> THEN cmd.in \in {"Tnil", "Tin"} ELSE cmd.in = Last(st.cmds).out,
           IF loc = "infile" THEN cmd.in = "Tin" ELSE InputNamed(cmd),
           cmd.out = "Tnil" \/ OutToken(Token(cmd.out, 0)),
           IF loc = "outfile" THEN OutToken(Token(cmd.out, 0)) ELSE OutputNamed(cmd)
    PROVE  Good(r)
<1>1. /\ r \in States /\ r.loc = loc /\ r.pipes = st.pipes /\ r.cmds = st.cmds
      /\ r.result = st.result /\ r.cmd = cmd
  BY DEF Good, States
<1>2. Reading(r)
  BY <1>1 DEF Reading
<1>3. Made(r)
  BY <1>1, <1>2 DEF Made, Good
<1> QED
  BY <1>1, <1>3 DEF Good

LEMMA ArgHasRoom ==
    ASSUME NEW cmd \in Cmds, HasRoom(cmd), NEW word \in Nat
    PROVE  /\ WithArg(cmd, word) \in Cmds /\ HasRoom(WithArg(cmd, word))
           /\ WithArg(cmd, word).in = cmd.in /\ WithArg(cmd, word).out = cmd.out
           /\ WithArg(cmd, word).infile = cmd.infile /\ WithArg(cmd, word).outfile = cmd.outfile
<1> DEFINE new == WithArg(cmd, word)
<1>1. cmd.args \in Seq(Nat) /\ cmd.room \in Nat
  BY DEF Cmds
<1>2. PICK n \in Nat : n = Len(cmd.args)
  BY <1>1
<1>3. n + 1 <= cmd.room /\ n # 0
  BY <1>1, <1>2 DEF HasRoom
<1>4. /\ Append(cmd.args, word) \in Seq(Nat) /\ Append(cmd.args, word) # <<>>
      /\ Len(Append(cmd.args, word)) = n + 1
  BY <1>1, <1>2, Appended
<1>5. RoomFor(cmd) \in Nat /\ n + 2 <= RoomFor(cmd)
  BY <1>1, <1>2, <1>3 DEF RoomFor
<1>6. /\ new \in Cmds /\ new.args = Append(cmd.args, word) /\ new.room = RoomFor(cmd)
      /\ new.in = cmd.in /\ new.out = cmd.out
      /\ new.infile = cmd.infile /\ new.outfile = cmd.outfile
  BY <1>4, <1>5 DEF WithArg, Cmds
<1> HIDE DEF new
<1>7. HasRoom(new)
  <2>1. Len(new.args) + 1 = n + 2
    BY <1>4, <1>6
  <2> QED
    BY <1>4, <1>5, <1>6, <2>1 DEF HasRoom
<1> QED
  BY <1>6, <1>7 DEF new

LEMMA InCmdIsGood ==
    ASSUME NEW st, Good(st), st.loc = "incmd", NEW t \in Tokens
    PROVE  Good(InCmd(st, t))
<1>1. /\ st \in States /\ st.cmds \in Seq(Cmds) /\ Piped(st.cmds) /\ st.cmd \in Cmds
      /\ Closed(st.cmds, st.cmd) /\ t.kind \in Kinds /\ t.word \in Nat
  BY PipesComplete, ReadingCloses DEF Good, Tokens
<1>2. /\ HasRoom(st.cmd) /\ InputNamed(st.cmd) /\ OutputNamed(st.cmd)
      /\ IF st.cmds = <<>> THEN st.cmd.in \in {"Tnil", "Tin"}
         ELSE st.cmd.in = Last(st.cmds).out
      /\ st.cmd.out = "Tnil" \/ OutToken(Token(st.cmd.out, 0))
  BY <1>1 DEF Closed
<1>3. CASE t.kind = "Tword"
  <2> DEFINE cmd == WithArg(st.cmd, t.word)
             r == [st EXCEPT !.loc = "incmd", !.cmd = cmd]
  <2>1. /\ cmd \in Cmds /\ HasRoom(cmd) /\ cmd.in = st.cmd.in /\ cmd.out = st.cmd.out
        /\ cmd.infile = st.cmd.infile /\ cmd.outfile = st.cmd.outfile
    BY <1>1, <1>2, ArgHasRoom
  <2>2. InCmd(st, t) = r
    BY <1>1, <1>3 DEF InCmd, States
  <2> HIDE DEF cmd
  <2>3. InputNamed(cmd) /\ OutputNamed(cmd)
    BY <1>2, <2>1 DEF InputNamed, OutputNamed
  <2>4. Good(r)
    BY <1>2, <2>1, <2>3, CmdChanged DEF InCommand
  <2> QED
    BY <2>2, <2>4
<1>4. CASE t.kind = "Tin" /\ st.cmd.in = "Tnil"
  <2> DEFINE cmd == [st.cmd EXCEPT !.in = "Tin"]
             r == [st EXCEPT !.loc = "infile", !.cmd = cmd]
  <2>1. /\ cmd \in Cmds /\ cmd.in = "Tin" /\ cmd.out = st.cmd.out
        /\ cmd.args = st.cmd.args /\ cmd.room = st.cmd.room
        /\ cmd.outfile = st.cmd.outfile
    BY <1>1 DEF Cmds, Kinds
  <2>2. InCmd(st, t) = r
    BY <1>1, <1>4 DEF InCmd, States
  <2> HIDE DEF cmd
  <2>3. HasRoom(cmd) /\ OutputNamed(cmd)
    BY <1>2, <2>1 DEF HasRoom, OutputNamed
  <2>4. st.cmds = <<>>
    <3>1. st.cmds # <<>> => Len(st.cmds) \in DOMAIN st.cmds
      BY <1>1
    <3> QED
      BY <1>1, <1>2, <1>4, <3>1 DEF Piped, Last, PipeToken, Token
  <2>5. Good(r)
    BY <1>2, <2>1, <2>3, <2>4, CmdChanged DEF InCommand
  <2> QED
    BY <2>2, <2>5
<1>5. CASE OutToken(t) /\ st.cmd.out = "Tnil"
  <2> DEFINE cmd == [st.cmd EXCEPT !.out = t.kind]
             r == [st EXCEPT !.loc = "outfile", !.cmd = cmd]
  <2>1. /\ cmd \in Cmds /\ cmd.in = st.cmd.in /\ cmd.out = t.kind
        /\ cmd.args = st.cmd.args /\ cmd.room = st.cmd.room
        /\ cmd.infile = st.cmd.infile
    BY <1>1 DEF Cmds
  <2>2. InCmd(st, t) = r
    BY <1>1, <1>5 DEF InCmd, States, OutToken
  <2> HIDE DEF cmd
  <2>3. HasRoom(cmd) /\ InputNamed(cmd) /\ OutToken(Token(cmd.out, 0))
    BY <1>2, <1>5, <2>1 DEF HasRoom, InputNamed, OutToken, Token
  <2>4. Good(r)
    BY <1>2, <2>1, <2>3, CmdChanged DEF InCommand
  <2> QED
    BY <2>2, <2>4
<1>6. CASE \/ t.kind = "Tin" /\ st.cmd.in # "Tnil"
           \/ OutToken(t) /\ st.cmd.out # "Tnil"
  BY <1>6, AtIsGood DEF InCmd, SkipAtLeastOne, OutToken
<1>7. CASE t.kind = "Terror"
  BY <1>7, CmdFailsIsGood DEF InCmd, OutToken
<1>8. CASE CmdToken(t)
  <2> DEFINE cmd == [st.cmd EXCEPT !.exec = t.kind]
             r == [st EXCEPT !.loc = "aftercmd", !.cmd = cmd]
  <2>1. /\ cmd \in Cmds /\ cmd.in = st.cmd.in /\ cmd.out = st.cmd.out
        /\ cmd.args = st.cmd.args /\ cmd.room = st.cmd.room
        /\ cmd.infile = st.cmd.infile /\ cmd.outfile = st.cmd.outfile
    BY <1>1 DEF Cmds
  <2>2. InCmd(st, t) = r
    BY <1>1, <1>8 DEF InCmd, States, OutToken, CmdToken
  <2> HIDE DEF cmd
  <2>3. HasRoom(cmd) /\ InputNamed(cmd) /\ OutputNamed(cmd)
    BY <1>2, <2>1 DEF HasRoom, InputNamed, OutputNamed
  <2>4. Good(r)
    BY <1>2, <2>1, <2>3, CmdChanged DEF InCommand
  <2> QED
    BY <2>2, <2>4
<1>9. CASE /\ t.kind # "Tword" /\ t.kind # "Tin" /\ ~OutToken(t)
           /\ t.kind # "Terror" /\ ~CmdToken(t)
  BY <1>9, AfterCmdIsGood DEF InCmd
<1> QED
  BY <1>3, <1>4, <1>5, <1>6, <1>7, <1>8, <1>9

LEMMA FileNameIsGood ==
    ASSUME NEW st, Good(st), st.loc \in {"infile", "outfile"}, NEW t \in Tokens
    PROVE  Good(FileName(st, t))
<1>1. /\ st \in States /\ st.cmd \in Cmds /\ Reading(st) /\ t.word \in Nat
  BY PipesComplete DEF Good, Made, InCommand, Tokens
<1>2. <<t.word>> \in Seq(Nat) /\ <<t.word>> # <<>>
  BY <1>1
<1>3. CASE t.kind # "Tword"
  BY <1>3, AtIsGood DEF FileName, SkipAtLeastOne
<1>4. CASE t.kind = "Tword" /\ st.loc = "infile"
  <2> DEFINE cmd == [st.cmd EXCEPT !.infile = <<t.word>>]
             r == [st EXCEPT !.loc = "incmd", !.cmd = cmd]
  <2>1. /\ cmd \in Cmds /\ cmd.in = st.cmd.in /\ cmd.out = st.cmd.out
        /\ cmd.args = st.cmd.args /\ cmd.room = st.cmd.room
        /\ cmd.infile = <<t.word>> /\ cmd.outfile = st.cmd.outfile
    BY <1>1, <1>2 DEF Cmds
  <2>2. FileName(st, t) = r
    BY <1>1, <1>4 DEF FileName, States
  <2> HIDE DEF cmd
  <2>3. /\ HasRoom(cmd) /\ InputNamed(cmd) /\ OutputNamed(cmd)
        /\ IF st.cmds = <<>> THEN cmd.in \in {"Tnil", "Tin"} ELSE cmd.in = Last(st.cmds).out
        /\ cmd.out = "Tnil" \/ OutToken(Token(cmd.out, 0))
    BY <1>1, <1>2, <1>4, <2>1 DEF Reading, HasRoom, InputNamed, OutputNamed
  <2>4. Good(r)
    BY <2>1, <2>3, CmdChanged DEF InCommand
  <2> QED
    BY <2>2, <2>4
<1>5. CASE t.kind = "Tword" /\ st.loc = "outfile"
  <2> DEFINE cmd == [st.cmd EXCEPT !.outfile = <<t.word>>]
             r == [st EXCEPT !.loc = "incmd", !.cmd = cmd]
  <2>1. /\ cmd \in Cmds /\ cmd.in = st.cmd.in /\ cmd.out = st.cmd.out
        /\ cmd.args = st.cmd.args /\ cmd.room = st.cmd.room
        /\ cmd.infile = st.cmd.infile /\ cmd.outfile = <<t.word>>
    BY <1>1, <1>2 DEF Cmds
  <2>2. FileName(st, t) = r
    BY <1>1, <1>5 DEF FileName, States
  <2> HIDE DEF cmd
  <2>3. /\ HasRoom(cmd) /\ InputNamed(cmd) /\ OutputNamed(cmd)
        /\ IF st.cmds = <<>> THEN cmd.in \in {"Tnil", "Tin"} ELSE cmd.in = Last(st.cmds).out
        /\ cmd.out = "Tnil" \/ OutToken(Token(cmd.out, 0))
    BY <1>1, <1>2, <1>5, <2>1 DEF Reading, HasRoom, InputNamed, OutputNamed
  <2>4. Good(r)
    BY <2>1, <2>3, CmdChanged DEF InCommand
  <2> QED
    BY <2>2, <2>4
<1> QED
  BY <1>3, <1>4, <1>5

LEMMA ConsumeIsGood ==
    ASSUME NEW st, Good(st), NEW t \in Tokens
    PROVE  Good(Consume(st, t))
<1>1. st.loc \in InCommand \cup {"start", "skip", "done"}
  BY DEF Good, States
<1>2. CASE st.loc = "start"
  BY <1>2, BeginCmdIsGood DEF Consume
<1>3. CASE st.loc = "incmd"
  BY <1>3, InCmdIsGood DEF Consume
<1>4. CASE st.loc \in {"infile", "outfile"}
  BY <1>4, FileNameIsGood DEF Consume
<1>5. CASE st.loc = "aftercmd"
  BY <1>5, AfterCmdIsGood DEF Consume
<1>6. CASE st.loc = "skip"
  BY <1>6, SkipToIsGood DEF Consume
<1>7. CASE st.loc = "done"
  BY <1>7 DEF Consume
<1> QED
  BY <1>1, <1>2, <1>3, <1>4, <1>5, <1>6, <1>7 DEF InCommand

-----------------------------------------------------------------------------
(***************************************************************************)
(* Where parse() stands to the end of the line, place by place.            *)
(***************************************************************************)
\* ReadsItsLine of some tokens and a state.
Line(ts, st) ==
    st.loc = "done" =>
        /\ \A i \in 1 .. Len(ts) - 1 : EndOfInput(ts[i]) => i > 1 /\ Redirects(ts[i - 1])
        /\ ~EndOfInput(Last(ts)) =>
              /\ Redirects(Last(ts)) \/ PipeToken(Last(ts))
              /\ Len(ts) > 1 => CmdToken(ts[Len(ts) - 1])
              /\ Len(st.result) <= 1
Placed(ts, st) == AtToken(ts, st) /\ Line(ts, st)
\* A token after which a command may begin.
FreshLine(ts) == ts = <<>> \/ CmdToken(Last(ts))
AfterRedirect(ts) == ts # <<>> /\ Redirects(Last(ts))

LEMMA OneMoreToken ==
    ASSUME NEW ts \in Seq(Tokens), EndsPassed(ts), NEW t \in Tokens
    PROVE  /\ Last(Append(ts, t)) = t /\ Append(ts, t) # <<>>
           /\ ~EndOfInput(t) \/ AfterRedirect(ts) => EndsPassed(Append(ts, t))
<1> DEFINE us == Append(ts, t)
           n == Len(ts)
<1>1. /\ n \in Nat /\ DOMAIN ts = 1 .. n /\ DOMAIN us = 1 .. n + 1
      /\ \A i \in 1 .. n : us[i] = ts[i]
      /\ us[n + 1] = t /\ Last(us) = t /\ us # <<>>
  BY Appended
<1>2. ts # <<>> => n # 0 /\ Last(ts) = ts[n]
  BY Before
<1> HIDE DEF us, n
<1>3. ASSUME ~EndOfInput(t) \/ AfterRedirect(ts),
             NEW i \in DOMAIN us, EndOfInput(us[i])
      PROVE  i > 1 /\ Redirects(us[i - 1])
  <2>1. CASE i \in 1 .. n
    <3>1. i > 1 /\ Redirects(ts[i - 1])
      BY <1>1, <1>3, <2>1 DEF EndsPassed
    <3> QED
      BY <1>1, <2>1, <3>1
  <2>2. CASE i = n + 1
    <3>1. n # 0 /\ Redirects(ts[n])
      BY <1>1, <1>2, <1>3, <2>2 DEF AfterRedirect
    <3>2. i > 1 /\ i - 1 = n /\ us[n] = ts[n]
      BY <1>1, <2>2, <3>1
    <3> QED
      BY <3>1, <3>2
  <2> QED
    BY <1>1, <2>1, <2>2
<1> QED
  BY <1>1, <1>3 DEF EndsPassed, us

\* parse() returns at the end of the line.
LEMMA LineEnds ==
    ASSUME NEW ts \in Seq(Tokens), EndsPassed(ts), NEW t \in Tokens, EndOfInput(t),
           NEW st, st.loc = "done"
    PROVE  Placed(Append(ts, t), st)
<1> DEFINE us == Append(ts, t)
           n == Len(ts)
<1>1. /\ n \in Nat /\ DOMAIN ts = 1 .. n /\ Len(us) = n + 1
      /\ \A i \in 1 .. n : us[i] = ts[i]
      /\ Last(us) = t
  BY Appended
<1> HIDE DEF us, n
<1>2. ASSUME NEW i \in 1 .. Len(us) - 1, EndOfInput(us[i])
      PROVE  i > 1 /\ Redirects(us[i - 1])
  <2>1. i \in 1 .. n
    BY <1>1
  <2>2. i > 1 /\ Redirects(ts[i - 1])
    BY <1>1, <1>2, <2>1 DEF EndsPassed
  <2> QED
    BY <1>1, <2>1, <2>2
<1>3. Line(us, st)
  BY <1>1, <1>2 DEF Line
<1>4. AtToken(us, st)
  BY DEF AtToken
<1> QED
  BY <1>3, <1>4 DEF Placed, us

\* parse() returns where a command should begin, with one pipe at most.
LEMMA LineStops ==
    ASSUME NEW ts \in Seq(Tokens), EndsPassed(ts), NEW t \in Tokens, ~EndOfInput(t),
           Redirects(t) \/ PipeToken(t), FreshLine(ts),
           NEW st, st.loc = "done", Len(st.result) <= 1
    PROVE  Placed(Append(ts, t), st)
<1> DEFINE us == Append(ts, t)
           n == Len(ts)
<1>1. /\ n \in Nat /\ DOMAIN ts = 1 .. n /\ Len(us) = n + 1
      /\ \A i \in 1 .. n : us[i] = ts[i]
      /\ Last(us) = t /\ (n = 0 <=> ts = <<>>)
  BY Appended
<1>2. n # 0 => Last(ts) = ts[n]
  BY <1>1, Before
<1> HIDE DEF us, n
<1>3. ASSUME NEW i \in 1 .. Len(us) - 1, EndOfInput(us[i])
      PROVE  i > 1 /\ Redirects(us[i - 1])
  <2>1. i \in 1 .. n
    BY <1>1
  <2>2. i > 1 /\ Redirects(ts[i - 1])
    BY <1>1, <1>3, <2>1 DEF EndsPassed
  <2> QED
    BY <1>1, <2>1, <2>2
<1>4. ASSUME Len(us) > 1 PROVE CmdToken(us[Len(us) - 1])
  <2>1. n # 0 /\ Len(us) - 1 = n /\ us[n] = ts[n]
    BY <1>1, <1>4
  <2>2. CmdToken(ts[n])
    BY <1>1, <1>2, <2>1 DEF FreshLine
  <2> QED
    BY <2>1, <2>2
<1>5. Line(us, st)
  BY <1>1, <1>3, <1>4 DEF Line
<1>6. AtToken(us, st)
  BY DEF AtToken
<1> QED
  BY <1>5, <1>6 DEF Placed, us

LEMMA ReturnsDone ==
    ASSUME NEW st, NEW pipes
    PROVE  Return(st, pipes).loc = "done" /\ Return(st, pipes).result = pipes
BY DEF Return, StartState

LEMMA SkipToIsPlaced ==
    ASSUME NEW ts \in Seq(Tokens), EndsPassed(ts), NEW t \in Tokens, NEW st \in States
    PROVE  Placed(Append(ts, t), SkipTo(st, t))
<1>1. CASE EndOfInput(t)
  BY <1>1, LineEnds, ReturnsDone DEF SkipTo, DropPipe
<1>2. CASE ~EndOfInput(t)
  <2>1. SkipTo(st, t).loc = "skip"
    BY <1>2 DEF SkipTo, At, States
  <2>2. EndsPassed(Append(ts, t))
    BY <1>2, OneMoreToken
  <2> QED
    BY <2>1, <2>2 DEF Placed, AtToken, Line
<1> QED
  BY <1>1, <1>2

LEMMA CmdFailsIsPlaced ==
    ASSUME NEW ts \in Seq(Tokens), EndsPassed(ts), NEW t \in Tokens, NEW st, Good(st),
           \/ st.cmds # <<>>
           \/ EndOfInput(t)
           \/ (Redirects(t) \/ PipeToken(t)) /\ FreshLine(ts)
    PROVE  Placed(Append(ts, t), CmdFails(st, t))
<1>1. CASE st.cmds # <<>>
  BY <1>1, SkipToIsPlaced DEF CmdFails, Good
<1>2. CASE st.cmds = <<>> /\ EndOfInput(t)
  BY <1>2, LineEnds, ReturnsDone DEF CmdFails, DropPipe
<1>3. CASE st.cmds = <<>> /\ ~EndOfInput(t)
  <2> DEFINE r == Unwind(st)
  <2>1. r.loc = "done" /\ Len(r.result) <= 1
    <3> DEFINE kept == IF st.pipes = <<>> THEN <<>> ELSE <<Head(st.pipes)>>
    <3>1. r = Return(st, kept)
      BY DEF Unwind
    <3>2. Len(kept) <= 1
      <4>1. CASE st.pipes = <<>>
        BY <4>1
      <4>2. CASE st.pipes # <<>>
        BY <4>2
      <4> QED
        BY <4>1, <4>2
    <3> HIDE DEF r, kept
    <3> QED
      BY <3>1, <3>2, ReturnsDone
  <2>2. CmdFails(st, t) = r
    BY <1>3 DEF CmdFails
  <2> HIDE DEF r
  <2> QED
    BY <1>3, <2>1, <2>2, LineStops
<1> QED
  BY <1>1, <1>2, <1>3

LEMMA BeginCmdIsPlaced ==
    ASSUME NEW ts \in Seq(Tokens), EndsPassed(ts), NEW t \in Tokens, NEW st, Good(st),
           st.cmds # <<>> \/ FreshLine(ts)
    PROVE  Placed(Append(ts, t), BeginCmd(st, t))
<1>0. st \in States /\ t.kind \in Kinds
  BY DEF Good, Tokens
<1>1. CASE CmdToken(t)
  <2>1. BeginCmd(st, t).loc = "start"
    BY <1>0, <1>1 DEF BeginCmd, At, States
  <2>2. EndsPassed(Append(ts, t)) /\ Last(Append(ts, t)) = t
    BY <1>1, OneMoreToken DEF CmdToken, EndOfInput
  <2> QED
    BY <1>1, <2>1, <2>2 DEF Placed, AtToken, Line
<1>2. CASE t.kind = "Tword"
  <2>1. BeginCmd(st, t).loc = "incmd"
    BY <1>0, <1>2 DEF BeginCmd, CmdToken, States
  <2>2. EndsPassed(Append(ts, t))
    BY <1>2, OneMoreToken DEF EndOfInput
  <2> QED
    BY <2>1, <2>2 DEF Placed, AtToken, Line
<1>3. CASE t.kind = "Tend"
  <2>1. BeginCmd(st, t).loc = "done"
    BY <1>3, ReturnsDone DEF BeginCmd, CmdToken
  <2> QED
    BY <1>3, <2>1, LineEnds DEF EndOfInput
<1>4. CASE ~CmdToken(t) /\ t.kind # "Tword" /\ t.kind # "Tend"
  <2>1. BeginCmd(st, t) = CmdFails(st, t)
    BY <1>4 DEF BeginCmd
  <2>2. EndOfInput(t) \/ Redirects(t) \/ PipeToken(t)
    BY <1>0, <1>4 DEF Kinds, CmdToken, EndOfInput, Redirects, OutToken, PipeToken
  <2> QED
    BY <2>1, <2>2, CmdFailsIsPlaced
<1> QED
  BY <1>1, <1>2, <1>3, <1>4

LEMMA AfterCmdIsPlaced ==
    ASSUME NEW ts \in Seq(Tokens), EndsPassed(ts), NEW t \in Tokens, NEW st, Good(st),
           st.loc \in {"incmd", "aftercmd"},
           PipeToken(t) \/ EndOfInput(t) \/ FreshLine(ts)
    PROVE  Placed(Append(ts, t), AfterCmd(st, t))
<1>0. st \in States /\ st.cmds \in Seq(Cmds) /\ st.cmd \in Cmds
  BY PipesComplete DEF Good
<1>1. CASE PipeToken(t)
  <2>1. EndsPassed(Append(ts, t))
    BY <1>1, OneMoreToken DEF PipeToken, EndOfInput
  <2>2. CASE st.cmd.out # "Tnil"
    <3>1. AfterCmd(st, t).loc = "skip"
      BY <1>0, <1>1, <2>2 DEF AfterCmd, SkipAtLeastOne, At, States
    <3> QED
      BY <2>1, <3>1 DEF Placed, AtToken, Line
  <2>3. CASE st.cmd.out = "Tnil"
    <3> DEFINE piped == [st.cmd EXCEPT !.out = t.kind]
               cs == Append(st.cmds, piped)
    <3>1. piped \in Cmds
      BY <1>0 DEF Cmds, Tokens
    <3>2. cs # <<>>
      <4> HIDE DEF piped
      <4> QED
        BY <1>0, <3>1, Appended
    <3>3. AfterCmd(st, t) = [st EXCEPT !.loc = "start", !.cmds = cs, !.cmd = End]
      BY <1>0, <1>1, <2>3 DEF AfterCmd, States
    <3> HIDE DEF cs
    <3>4. AfterCmd(st, t).loc = "start" /\ AfterCmd(st, t).cmds = cs
      BY <1>0, <3>3 DEF States
    <3> QED
      BY <2>1, <3>2, <3>4 DEF Placed, AtToken, Line
  <2> QED
    BY <2>2, <2>3
<1>2. CASE ~PipeToken(t) /\ EndOfInput(t)
  <2>1. AfterCmd(st, t).loc = "done"
    BY <1>2, ReturnsDone DEF AfterCmd
  <2> QED
    BY <1>2, <2>1, LineEnds
<1>3. CASE ~PipeToken(t) /\ ~EndOfInput(t)
  <2> DEFINE pipes == Append(st.pipes, Append(st.cmds, st.cmd))
             r == [StartState EXCEPT !.pipes = pipes]
  <2>1. AfterCmd(st, t) = BeginCmd(r, t)
    BY <1>3 DEF AfterCmd
  <2>2. AllComplete(pipes)
    <3>1. Closed(st.cmds, st.cmd) /\ AllComplete(st.pipes) /\ Piped(st.cmds)
      BY PipesComplete, ReadingCloses
    <3> QED
      BY <1>0, <3>1, CmdClosesPipe, OneMoreComplete
  <2> HIDE DEF pipes
  <2>3. Good(r)
    BY <2>2, StartsAgain
  <2> QED
    BY <1>3, <2>1, <2>3, BeginCmdIsPlaced
<1> QED
  BY <1>1, <1>2, <1>3

LEMMA InCmdIsPlaced ==
    ASSUME NEW ts \in Seq(Tokens), EndsPassed(ts), NEW t \in Tokens, NEW st, Good(st),
           st.loc = "incmd"
    PROVE  Placed(Append(ts, t), InCmd(st, t))
<1> DEFINE us == Append(ts, t)
           r == InCmd(st, t)
<1>0. st \in States /\ t.kind \in Kinds
  BY DEF Good, Tokens
<1>1. /\ Last(us) = t /\ us # <<>>
      /\ ~EndOfInput(t) => EndsPassed(us)
  BY OneMoreToken
<1>2. CASE t.kind = "Tword"
  <2>1. r.loc = "incmd"
    BY <1>0, <1>2 DEF InCmd, States
  <2>2. EndsPassed(us)
    BY <1>1, <1>2 DEF EndOfInput
  <2> QED
    BY <2>1, <2>2 DEF Placed, AtToken, Line
<1>3. CASE t.kind = "Tin" \/ OutToken(t)
  <2>1. r.loc \in {"skip", "infile", "outfile"}
    BY <1>0, <1>3 DEF InCmd, SkipAtLeastOne, At, OutToken, States
  <2>2. EndsPassed(us) /\ Redirects(t)
    BY <1>1, <1>3 DEF EndOfInput, OutToken, Redirects
  <2> HIDE DEF r, us
  <2>3. Placed(us, r)
    BY <1>1, <2>1, <2>2 DEF Placed, AtToken, Line
  <2> QED
    BY <2>3 DEF r, us
<1>4. CASE t.kind = "Terror"
  <2>1. r = CmdFails(st, t) /\ EndOfInput(t)
    BY <1>4 DEF InCmd, OutToken, EndOfInput
  <2> QED
    BY <2>1, CmdFailsIsPlaced
<1>5. CASE CmdToken(t)
  <2>1. r.loc = "aftercmd"
    BY <1>0, <1>5 DEF InCmd, OutToken, CmdToken, States
  <2>2. EndsPassed(us)
    BY <1>1, <1>5 DEF EndOfInput, CmdToken
  <2> HIDE DEF r, us
  <2>3. Placed(us, r)
    BY <1>1, <1>5, <2>1, <2>2 DEF Placed, AtToken, Line
  <2> QED
    BY <2>3 DEF r, us
<1>6. CASE /\ t.kind # "Tword" /\ t.kind # "Tin" /\ ~OutToken(t)
           /\ t.kind # "Terror" /\ ~CmdToken(t)
  <2>1. r = AfterCmd(st, t)
    BY <1>6 DEF InCmd
  <2>2. PipeToken(t) \/ EndOfInput(t)
    BY <1>0, <1>6 DEF Kinds, CmdToken, EndOfInput, OutToken, PipeToken
  <2> QED
    BY <2>1, <2>2, AfterCmdIsPlaced
<1> QED
  BY <1>2, <1>3, <1>4, <1>5, <1>6

LEMMA FileNameIsPlaced ==
    ASSUME NEW ts \in Seq(Tokens), EndsPassed(ts), AfterRedirect(ts), NEW t \in Tokens,
           NEW st \in States, st.loc \in {"infile", "outfile"}
    PROVE  Placed(Append(ts, t), FileName(st, t))
<1>1. EndsPassed(Append(ts, t))
  BY OneMoreToken
<1>2. FileName(st, t).loc \in {"skip", "incmd"}
  BY DEF FileName, SkipAtLeastOne, At, States
<1> QED
  BY <1>1, <1>2 DEF Placed, AtToken, Line

LEMMA ConsumeIsPlaced ==
    ASSUME NEW ts \in Seq(Tokens), NEW t \in Tokens, NEW st, Good(st),
           AtToken(ts, st), st.loc # "done"
    PROVE  Placed(Append(ts, t), Consume(st, t))
<1>1. /\ st.loc \in InCommand \cup {"start", "skip", "done"} /\ EndsPassed(ts)
      /\ st \in States
  BY DEF Good, States, AtToken
<1>2. CASE st.loc = "start"
  BY <1>1, <1>2, BeginCmdIsPlaced DEF Consume, AtToken, FreshLine
<1>3. CASE st.loc = "incmd"
  BY <1>1, <1>3, InCmdIsPlaced DEF Consume
<1>4. CASE st.loc \in {"infile", "outfile"}
  BY <1>1, <1>4, FileNameIsPlaced DEF Consume, AtToken, AfterRedirect
<1>5. CASE st.loc = "aftercmd"
  BY <1>1, <1>5, AfterCmdIsPlaced DEF Consume, AtToken, FreshLine
<1>6. CASE st.loc = "skip"
  BY <1>1, <1>6, SkipToIsPlaced DEF Consume
<1> QED
  BY <1>1, <1>2, <1>3, <1>4, <1>5, <1>6 DEF InCommand

-----------------------------------------------------------------------------
(***************************************************************************)
(* The invariant.                                                          *)
(***************************************************************************)
\* IInv of some tokens and a state, in the parts the lemmas are about.
InvOf(ts, st) == ts \in Seq(Tokens) /\ Good(st) /\ Placed(ts, st)

LEMMA InvParts == IInv <=> InvOf(typed, s)
BY DEF IInv, InvOf, Good, Sound, CommandsAreSound, Placed, Line, ReadsItsLine, Done, Tokens

LEMMA InvPartsNext == IInv' <=> InvOf(typed', s')
BY DEF IInv, InvOf, Good, Sound, CommandsAreSound, Placed, Line, ReadsItsLine, Done, Tokens,
       AtToken, Made, Reading

\* Before the first token of a line.
LEMMA LineBegins == InvOf(<<>>, StartState)
<1>1. <<>> \in Seq(Tokens)
  OBVIOUS
<1>2. AtToken(<<>>, StartState) /\ Line(<<>>, StartState)
  BY StartIsState DEF AtToken, Line, EndsPassed
<1> QED
  BY <1>1, <1>2, StartIsGood DEF Placed, InvOf

LEMMA InitInv == Init => IInv
BY LineBegins, InvParts DEF Init

LEMMA NextInv == IInv /\ [Next]_vars => IInv'
<1> SUFFICES ASSUME IInv, [Next]_vars PROVE IInv'
  OBVIOUS
<1>1. typed \in Seq(Tokens) /\ Good(s) /\ Placed(typed, s)
  BY InvParts DEF InvOf
<1>2. CASE NextLine
  BY <1>2, LineBegins, InvPartsNext DEF NextLine
<1>3. ASSUME NEW kind \in Kinds, NextToken(kind) PROVE IInv'
  <2> DEFINE t == Token(kind, IF kind = "Tword" THEN Len(typed) + 1 ELSE 0)
  <2>1. t \in Tokens
    <3>1. Len(typed) + 1 \in Nat
      BY <1>1
    <3> QED
      BY <3>1 DEF Token, Tokens
  <2>2. typed' = Append(typed, t) /\ s' = Consume(s, t) /\ s.loc # "done"
    BY <1>3 DEF NextToken
  <2> HIDE DEF t
  <2>3. Append(typed, t) \in Seq(Tokens)
    BY <1>1, <2>1, Appended
  <2>4. Good(Consume(s, t))
    BY <1>1, <2>1, ConsumeIsGood
  <2>5. Placed(Append(typed, t), Consume(s, t))
    BY <1>1, <2>1, <2>2, ConsumeIsPlaced DEF Placed
  <2> QED
    BY <2>2, <2>3, <2>4, <2>5, InvPartsNext DEF InvOf
<1>4. CASE UNCHANGED vars
  <2>1. typed' = typed /\ s' = s
    BY <1>4 DEF vars
  <2> QED
    BY <2>1, InvParts, InvPartsNext
<1> QED
  BY <1>2, <1>3, <1>4 DEF Next

(***************************************************************************)
(* Between two tokens, and when parse() has returned: its pipes, its       *)
(* commands and its locals have the form their types say, the pipes it has *)
(* made are complete, the command it is reading wants at most the file it  *)
(* has been promised, and it has not gone past the end of the line except  *)
(* for a file name.                                                        *)
(***************************************************************************)
THEOREM Invariance == Spec => []IInv
<1> QED
  BY InitInv, NextInv, PTL DEF Spec

(***************************************************************************)
(* Whatever tokens a line has, and however many, the pipes that parse()    *)
(* returns are ones the shell can run: a pipe connects each command with   *)
(* its neighbour, a file is there for each redirection and for no more,    *)
(* End is last, and there is a place for the NULL behind the arguments.    *)
(***************************************************************************)
THEOREM CommandsSound == Spec => []CommandsAreSound
<1>1. IInv => CommandsAreSound
  BY DEF IInv
<1> QED
  BY <1>1, Invariance, PTL

(***************************************************************************)
(* parse() reads to the end of its line and no further, but for a missing  *)
(* file name, and for a line that it gives up where a command should       *)
(* begin.                                                                  *)
(***************************************************************************)
THEOREM LineRead == Spec => []ReadsItsLine
<1>1. IInv => ReadsItsLine
  BY DEF IInv
<1> QED
  BY <1>1, Invariance, PTL
=============================================================================
