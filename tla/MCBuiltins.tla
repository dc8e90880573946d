------------------------------ MODULE MCBuiltins ------------------------------
\* Builtins on a tree of four directories, two of them of the same name, for TLC.
EXTENDS Builtins

MCDirs == {<<>>, <<"a">>, <<"a", "a">>, <<"b">>}
MCHome == <<"b">>

\* Nothing, a file or a directory in the places where PATH looks.
MCTrees == {[d \in MCDirs |-> IF d = <<"a">> THEN x ELSE IF d = <<"b">> THEN y ELSE z] :
              x, y \in {"file", "dir", "none"}, z \in {"file"}}

A == Text(TRUE, <<"a">>)
B == Text(TRUE, <<"b">>)
Here == Text(FALSE, <<>>)
MCPathLists == {<<A, B>>, <<B, Here>>, <<Text(TRUE, <<"c">>)>>, <<>>}

Places == {A, B, Text(FALSE, <<"a">>), Text(FALSE, <<"..">>), Text(TRUE, <<"c">>)}
Plain ==
    {<<Word(w)>> : w \in {"cd", "echo", "logout", "pwd", "setenv", "where", "unsetenv", "tool"}}
    \cup {<<Word("cd"), Path(t)>> : t \in Places}
    \cup {<<Path(t)>> : t \in {A, Text(FALSE, <<"a">>), Here}}
    \cup {<<Word("setenv"), Word("PATH"), List(l)>> : l \in MCPathLists}
    \cup {<<Word("setenv"), Word(v)>> : v \in {"PATH", "OTHER"}}
    \cup {<<Word("setenv"), Word("OTHER"), Word("x")>>}
    \cup {<<Word("unsetenv"), Word(v)>> : v \in {"PATH", "OTHER"}}
    \cup {<<Word("where"), Word(w)>> : w \in {"tool", "cd", "other"}}
\* Every one of them also behind nice, and behind nice and a number.
MCCommands ==
    Plain \cup {<<Word("nice")>>, <<Word("nice"), Word("nice")>>}
    \cup {<<Word("nice"), Number(n)>> : n \in {-3, 2, 30}}
    \cup {<<Word("nice")>> \o l : l \in Plain}
    \cup {<<Word("nice"), Number(n)>> \o l : n \in {-3, 2, 30}, l \in Plain}
=============================================================================
