------------------------------- MODULE Builtins -------------------------------
(***************************************************************************)
(* P2: the built-in commands of ush, and the search for a file to execute. *)
(*                                                                         *)
(* A session is a sequence of commands that share the process they run in: *)
(* its working directory, environment and priority, and the text ush keeps *)
(* of its working directory.  A command of a pipeline is executed by a     *)
(* copy of the process.                                                    *)
(*                                                                         *)
(* There is one file name, tool; what a directory holds by that name is    *)
(* fixed in a session.  An argument that is a path stands for a directory  *)
(* after cd, and for the tool in it as a command.                          *)
(***************************************************************************)
EXTENDS Integers, SequencesExt

CONSTANTS
    Dirs,       \* the directories: sequences of names, from the root
    Home,       \* the home directory
    Trees,      \* what tool may be in each: functions on Dirs
    PathLists,  \* values of PATH: sequences of texts
    Commands    \* command lines that may be typed: sequences of arguments

ASSUME TreeAssumption ==
    /\ <<>> \in Dirs /\ \A d \in Dirs : d # <<>> => Front(d) \in Dirs
    /\ Home \in Dirs
    \* "dir" is a directory or a link that leads nowhere
    /\ \A t \in Trees : DOMAIN t = Dirs /\ Range(t) \subseteq {"file", "dir", "none"}

VARIABLES
    homeDir,    \* ush_engine->homeDir
    tree,       \* what tool is in each directory
    privileged, \* may lower its nice value
    ush,        \* the process of the shell
    status      \* "running", "exited" or "crashed"

fixed == <<homeDir, tree, privileged>>
vars == <<fixed, ush, status>>

(***************************************************************************)
(* Paths.  A text is absolute, or relative to some directory; ".." is the  *)
(* directory above.                                                        *)
(***************************************************************************)
Text(abs, names) == [abs |-> abs, names |-> names]
Down(dir, name) ==
    IF name # ".." THEN Append(dir, name) ELSE IF dir = <<>> THEN dir ELSE Front(dir)
Resolve(dir, text) == FoldLeft(Down, IF text.abs THEN <<>> ELSE dir, text.names)
Behind(text, rest) == Text(text.abs, text.names \o rest.names)

(***************************************************************************)
(* Arguments, counted from 0 as in c->args.                                *)
(***************************************************************************)
Argument(word, num, dirs) == [word |-> word, num |-> num, dirs |-> dirs]
Word(w) == Argument(w, 0, <<>>)
Number(n) == Argument("number", n, <<>>)
Path(text) == Argument("path", 0, <<text>>)
List(dirs) == Argument("list", 0, dirs)
NULL == Argument("", 0, <<>>)
Arg(args, i) == IF i + 1 \in DOMAIN args THEN args[i + 1] ELSE NULL

isBuiltinCmd(arg) == arg.word \in
    {"cd", "echo", "logout", "nice", "pwd", "setenv", "unsetenv", "where"}

(***************************************************************************)
(* What a command does to the process p, what it prints, and the program   *)
(* it has run: where and how nice.                                         *)
(***************************************************************************)
Effect(p) == [p |-> p, status |-> "running", says |-> "", prints |-> <<>>, ran |-> <<>>]
Says(p, text) == [Effect(p) EXCEPT !.says = text]
Prints(p, texts) == [Effect(p) EXCEPT !.prints = texts]
Ends(p, how) == [Effect(p) EXCEPT !.status = how]

\* What tool is in the directory a text names.
Entry(p, text) ==
    IF Resolve(p.cwd, text) \in Dirs THEN tree[Resolve(p.cwd, text)] ELSE "none"

(***************************************************************************)
(* searchFileCMD.  The loop over PATH goes on when the file is found, and  *)
(* so the last directory counts; found_flag stays set.                     *)
(***************************************************************************)
\* mutant: the loop over PATH ends too
LookUntilFound(p, acc, text) ==
    IF acc.found \/ Entry(p, text) = "none" THEN acc
    ELSE [cmd_buf |-> <<text>>, found |-> Entry(p, text) = "file"]
Look(p, acc, text) ==
    IF Entry(p, text) = "none" THEN acc
    ELSE [cmd_buf |-> <<text>>, found |-> acc.found \/ Entry(p, text) = "file"]
searchFileCMD(p, arg) ==
    IF arg.word # "path"
    THEN FoldLeft(LAMBDA acc, text : Look(p, acc, text),
                  [cmd_buf |-> <<>>, found |-> FALSE], p.path.dirs)
    ELSE LET text == arg.dirs[1] IN
         [cmd_buf |-> <<IF text.abs THEN text ELSE Behind(p.currentDir, text)>>, found |-> TRUE]

\* The child has the priority prio when it calls execv.
processFileCmd(p, arg, prio) ==
    LET s == searchFileCMD(p, arg) IN
    IF arg.word # "path" /\ ~p.path.set THEN Ends(p, "crashed")   \* strlen(NULL)
    ELSE IF s.cmd_buf = <<>> THEN Says(p, "command not found")
    ELSE IF ~s.found \/ Entry(p, s.cmd_buf[1]) # "file" THEN Says(p, "permission denied")
    ELSE [Effect(p) EXCEPT !.ran = <<[in |-> Resolve(p.cwd, s.cmd_buf[1]), prio |-> prio]>>]

(***************************************************************************)
(* The built-ins.                                                          *)
(***************************************************************************)
\* chdir, and what ush notes of it.
\* mutant: the text is noted first
MovedAnyway(p, text) ==
    [p EXCEPT !.cwd = IF Resolve(@, text) \in Dirs THEN Resolve(@, text) ELSE @,
              !.currentDir = text]
Moved(p, text) ==
    IF Resolve(p.cwd, text) \in Dirs
    THEN [p EXCEPT !.cwd = Resolve(@, text), !.currentDir = text] ELSE p
\* nice cd does not note the home directory.
cd(p, arg, niced) ==
    IF arg = NULL
    THEN LET q == Moved(p, homeDir) IN
         Effect(IF niced THEN [q EXCEPT !.currentDir = p.currentDir] ELSE q)
    ELSE Says(Moved(p, arg.dirs[1]),
              IF Resolve(p.cwd, arg.dirs[1]) \in Dirs THEN "" ELSE "permission denied")

\* setenv(VAR, NULL) takes the length of the value; without arguments all is printed.
setenv(p, var, value) ==
    IF var = NULL THEN Says(p, "environment")
    ELSE IF value = NULL THEN Ends(p, "crashed")
    ELSE IF var = Word("PATH") THEN Effect([p EXCEPT !.path = [set |-> TRUE, dirs |-> value.dirs]])
    ELSE Effect(p)
unsetenv(p, var) ==
    Effect(IF var = Word("PATH") THEN [p EXCEPT !.path = [set |-> FALSE, dirs |-> <<>>]] ELSE p)

\* Without a name, strcmp gets NULL with the first entry of a directory.
Opens(p, text) == Resolve(p.cwd, text) \in Dirs
\* mutant: the name is looked at before PATH
WhereComparesFirst(p, arg) ==
    IF ~p.path.set \/ arg = NULL THEN Ends(p, "crashed")
    ELSE Prints(p, SelectSeq(p.path.dirs,
             LAMBDA text : arg = Word("tool") /\ Entry(p, text) = "file"))
where(p, arg) ==
    IF ~p.path.set \/ (arg = NULL /\ \E d \in Range(p.path.dirs) : Opens(p, d))
    THEN Ends(p, "crashed")
    ELSE [Prints(p, SelectSeq(p.path.dirs,
             LAMBDA text : arg = Word("tool") /\ Entry(p, text) = "file"))
          EXCEPT !.says = IF isBuiltinCmd(arg) THEN "is a shell built-in" ELSE ""]

\* The built-in at args[i], except nice: for nice, i is 1.
Builtin(p, args, i) ==
    CASE Arg(args, i).word = "cd" -> cd(p, Arg(args, i + 1), i = 1)
      [] Arg(args, i).word = "echo" -> Says(p, "words")
      [] Arg(args, i).word = "logout" -> Ends(p, "exited")
      [] Arg(args, i).word = "pwd" -> Prints(p, <<p.currentDir>>)
      [] Arg(args, i).word = "setenv" -> setenv(p, Arg(args, i + 1), Arg(args, i + 2))
      [] Arg(args, i).word = "unsetenv" -> unsetenv(p, Arg(args, i + 1))
      [] Arg(args, i).word = "where" -> where(p, Arg(args, i + 1))
      [] OTHER -> Effect(p)

(***************************************************************************)
(* nice [number] [command].                                                *)
(***************************************************************************)
Clamp(n) == IF n > 19 THEN 19 ELSE IF n < -20 THEN -20 ELSE n
\* setpriority; without privilege a nice value cannot be lowered.
setpriority(old, n) == IF privileged \/ Clamp(n) >= old THEN Clamp(n) ELSE old
\* mutant: the priority is set before fork
NiceFileInShell(p, arg, n) ==
    LET q == [p EXCEPT !.prio = setpriority(@, n)] IN processFileCmd(q, arg, q.prio)
NiceFile(p, arg, n) == processFileCmd(p, arg, setpriority(p.prio, n))
\* A built-in is looked for at args[1] even behind a number, where it is not.
nice(p, args) ==
    LET first == Arg(args, 1)
        numeric == first.word = "number"
        adjustment == IF numeric THEN first.num ELSE 4
        command == IF numeric THEN Arg(args, 2) ELSE first
    IN  IF command = NULL
        THEN Effect([p EXCEPT !.prio = setpriority(@, adjustment)])
        ELSE IF isBuiltinCmd(command) THEN Builtin(p, args, 1)
        ELSE NiceFile(p, command, adjustment)

executeCmd(p, args) ==
    IF Arg(args, 0).word = "nice" THEN nice(p, args)
    ELSE IF isBuiltinCmd(Arg(args, 0)) THEN Builtin(p, args, 0)
    ELSE processFileCmd(p, Arg(args, 0), p.prio)

-----------------------------------------------------------------------------
\* ush_init.  The home directory that the password file names may not exist.
HomeText == Text(TRUE, Home)
NoHome == Text(TRUE, <<"nonexistent">>)
Init ==
    /\ homeDir \in {HomeText, NoHome}
    /\ tree \in Trees /\ privileged \in BOOLEAN
    /\ \E d \in Dirs, p \in PathLists :
         ush = [cwd |-> d, currentDir |-> Text(TRUE, d),
                path |-> [set |-> TRUE, dirs |-> p], prio |-> 0]
    /\ status = "running"

\* The shell executes a command itself; in a pipeline its copy would have the
\* effect and the shell none.
Execute(args) ==
    /\ status = "running"
    /\ LET e == executeCmd(ush, args) IN ush' = e.p /\ status' = e.status
    /\ UNCHANGED fixed

Next == \E args \in Commands : Execute(args)
Spec == Init /\ [][Next]_vars

-----------------------------------------------------------------------------
TypeOK ==
    /\ ush.cwd \in Dirs /\ ush.prio \in -20 .. 19
    /\ ush.path.dirs \in PathLists \cup {<<>>}
    /\ status \in {"running", "exited", "crashed"}

(***************************************************************************)
(* While ush's note of its working directory is absolute it names that     *)
(* directory, or nice cd has gone home since.  A note that is relative     *)
(* names the directory from where ush was before, so that its last name is *)
(* the directory's.  (cd, nice cd, pwd.)                                   *)
(***************************************************************************)
PwdIsCwd ==
    LET note == ush.currentDir IN
    /\ TypeOK
    /\ \/ ush.cwd = Home /\ homeDir = HomeText
       \/ note.abs /\ Resolve(<<>>, note) = ush.cwd
       \/ /\ ~note.abs
          /\ note.names # <<>> /\ Last(note.names) # ".." => Last(ush.cwd) = Last(note.names)

(***************************************************************************)
(* Whatever happened before in the session: a command given by its name    *)
(* runs the last of the files where lists, and it runs one unless a        *)
(* directory of that name comes after them.  One given by a path runs from *)
(* the working directory as long as the note of it is right.               *)
(* (searchFileCMD and the loop of where.)                                  *)
(***************************************************************************)
\* Where the command itself is on a line: behind nice, and its number.
Position(args) ==
    IF args[1] # Word("nice") THEN 0 ELSE IF Arg(args, 1).word = "number" THEN 2 ELSE 1
Command(args) == Arg(args, Position(args))
\* The places in PATH that hold something by the name.
Hits(p) == {i \in DOMAIN p.path.dirs : Entry(p, p.path.dirs[i]) # "none"}
NamedOne(args) ==
    LET ran == executeCmd(ush, args).ran
        list == where(ush, Word("tool")).prints
        cmd == Command(args)
    IN  /\ cmd = Word("tool") =>
             IF list # <<>> /\ Entry(ush, ush.path.dirs[Max(Hits(ush))]) = "file"
             THEN ran # <<>> /\ ran[1].in = Resolve(ush.cwd, Last(list))
             ELSE ran = <<>>
        /\ cmd.word = "path" /\ ran # <<>> =>
             \/ ran[1].in = Resolve(ush.cwd, cmd.dirs[1])
             \/ ~cmd.dirs[1].abs /\ Resolve(ush.cwd, ush.currentDir) # ush.cwd
RunsWhatIsNamed == status = "running" => \A args \in Commands : NamedOne(args)

(***************************************************************************)
(* ush crashes by three commands only: setenv without a word, a name to be *)
(* searched when PATH is gone, and where without a name when there is a    *)
(* directory to look at.  Behind a number no built-in crashes it.          *)
(***************************************************************************)
CrashesIt(args) ==
    LET x == Arg(args, Position(args) + 1) IN
    CASE Command(args) = Word("setenv") -> x # NULL /\ Arg(args, Position(args) + 2) = NULL
      [] Command(args) = Word("where") ->
           ~ush.path.set \/ (x = NULL /\ \E d \in Range(ush.path.dirs) : Opens(ush, d))
      [] OTHER -> Command(args) = Word("tool") /\ ~ush.path.set
CrashesAreKnown ==
    status = "running" => \A args \in Commands :
        (executeCmd(ush, args).status = "crashed") <=>
            (CrashesIt(args) /\ ~(Position(args) = 2 /\ isBuiltinCmd(Command(args))))

(***************************************************************************)
(* nice with a command is for this command alone: the shell's priority     *)
(* changes by nice without one.  The command has the priority asked for,   *)
(* or the shell's if that is nicer and ush may not go below.               *)
(***************************************************************************)
Nicer(args) ==
    LET e == executeCmd(ush, args)
        asked == IF args[1] # Word("nice") THEN ush.prio
                 ELSE IF Arg(args, 1).word = "number" THEN Clamp(Arg(args, 1).num) ELSE 4
        granted == IF privileged \/ asked > ush.prio THEN asked ELSE ush.prio
    IN  /\ e.p.prio = IF args[1] = Word("nice") /\ Command(args) = NULL THEN granted ELSE ush.prio
        /\ e.ran # <<>> => e.ran[1].prio = granted
NiceIsForTheCommand == status = "running" => \A args \in Commands : Nicer(args)
=============================================================================
