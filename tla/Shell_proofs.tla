---------------------------- MODULE Shell_proofs ----------------------------
(***************************************************************************)
(* Proofs about Shell: the descriptor tables of shell, stage and command   *)
(* at every step, what is written and read through them, the lines of      *)
(* files and the units of a line.  First what each system call does to any *)
(* table; then what parseCmd and parsePipe make of one; then a lemma for   *)
(* each step of the shell on tables, on output, on lines and on units, and *)
(* the theorems.                                                           *)
(***************************************************************************)
EXTENDS Shell, CommonFacts

-----------------------------------------------------------------------------
(***************************************************************************)
(* The lowest free numbers.                                                *)
(***************************************************************************)
LEMMA FreeIs ==
    ASSUME NEW t, DOMAIN t \subseteq Nat, IsFiniteSet(DOMAIN t), NEW i \in Nat \ {0}
    PROVE  /\ Free(t, i) \in Nat \ DOMAIN t
           /\ Cardinality((0 .. Free(t, i) - 1) \ DOMAIN t) = i - 1
           /\ Free(t, i) <= Cardinality(DOMAIN t) + i - 1
<1> DEFINE D == DOMAIN t
           g(n) == Cardinality((0 .. n - 1) \ D)
           size == Cardinality(D)
<1>1. size \in Nat
  BY FS_CardinalityType
<1>2. ASSUME NEW n \in Nat
      PROVE  /\ IsFiniteSet((0 .. n - 1) \ D) /\ g(n) \in Nat
             /\ g(n) >= n - size
  <2> DEFINE S == 0 .. n - 1
  <2>1. IsFiniteSet(S) /\ Cardinality(S) = n
    BY FS_Interval
  <2>2. /\ IsFiniteSet(S \ D) /\ Cardinality(S \ D) = Cardinality(S) - Cardinality(S \cap D)
    <3> HIDE DEF S, D
    <3> QED
      BY <2>1, FS_Difference
  <2>3. Cardinality(S \cap D) <= size /\ Cardinality(S \cap D) \in Nat
    <3>1. S \cap D \subseteq D
      OBVIOUS
    <3> QED
      BY <3>1, FS_Subset, FS_CardinalityType
  <2>4. Cardinality(S \ D) \in Nat
    BY <2>2, FS_CardinalityType
  <2> QED
    BY <1>1, <2>1, <2>2, <2>3, <2>4
<1>3. g(0) = 0
  <2>1. (0 .. 0 - 1) \ D = {}
    OBVIOUS
  <2> QED
    BY <2>1, FS_EmptySet
<1>4. ASSUME NEW n \in Nat
      PROVE  g(n + 1) = IF n \in D THEN g(n) ELSE g(n) + 1
  <2> DEFINE S == (0 .. n - 1) \ D
  <2>1. (0 .. (n + 1) - 1) \ D = IF n \in D THEN S ELSE S \cup {n}
    OBVIOUS
  <2>2. n \notin S /\ IsFiniteSet(S)
    BY <1>2
  <2> HIDE DEF S
  <2>3. Cardinality(S \cup {n}) = Cardinality(S) + 1
    BY <2>2, FS_AddElement
  <2> QED
    BY <2>1, <2>3 DEF S
<1> HIDE DEF g, D, size
<1> DEFINE C == {n \in Nat : g(n) >= i}
<1>5. PICK n \in C : \A m \in C : n <= m
  <2>1. size + i \in Nat
    BY <1>1
  <2>2. g(size + i) >= (size + i) - size
    BY <1>2, <2>1
  <2>3. size + i \in C
    BY <1>1, <2>1, <2>2
  <2> HIDE DEF C
  <2>4. C \subseteq Nat
    BY DEF C
  <2> QED
    BY <2>3, <2>4, LeastNumber
<1>6. n # 0 /\ n \in Nat
  BY <1>3, <1>5
<1>7. PICK m \in Nat : n = m + 1
  BY <1>6
<1>8. m \notin D /\ g(m) = i - 1
  <2>1. g(m) \in Nat /\ g(m + 1) = (IF m \in D THEN g(m) ELSE g(m) + 1)
    BY <1>2, <1>4
  <2>2. m \notin C /\ m + 1 \in C
    BY <1>5, <1>7
  <2> QED
    BY <2>1, <2>2
<1>9. m \in 0 .. size + i
  <2>1. g(m) >= m - size
    BY <1>2
  <2> QED
    BY <1>1, <1>8, <2>1
<1>10. /\ Free(t, i) \in 0 .. size + i /\ Free(t, i) \notin D
       /\ g(Free(t, i)) = i - 1
  <2> DEFINE Q(x) == x \notin D /\ g(x) = i - 1
  <2>1. \E x \in 0 .. size + i : Q(x)
    BY <1>8, <1>9
  <2>2. Free(t, i) = CHOOSE x \in 0 .. size + i : Q(x)
    BY DEF Free, g, D, size
  <2>3. Free(t, i) \in 0 .. size + i /\ Q(Free(t, i))
    <3> HIDE DEF Q
    <3> QED
      BY <2>1, <2>2
  <2> QED
    BY <2>3
<1> QED
  BY <1>1, <1>2, <1>10 DEF g, D, size

LEMMA FreeDiffer ==
    ASSUME NEW t, DOMAIN t \subseteq Nat, IsFiniteSet(DOMAIN t),
           NEW i \in Nat \ {0}, NEW j \in Nat \ {0}, Free(t, i) = Free(t, j)
    PROVE  i = j
<1>1. Cardinality((0 .. Free(t, i) - 1) \ DOMAIN t) = i - 1
  BY FreeIs
<1>2. Cardinality((0 .. Free(t, j) - 1) \ DOMAIN t) = j - 1
  BY FreeIs
<1> QED
  BY <1>1, <1>2

-----------------------------------------------------------------------------
(***************************************************************************)
(* What the system calls do to a table.                                    *)
(***************************************************************************)
\* A table has finitely many numbers.
LEMMA TableIsFinite ==
    ASSUME NEW t, NEW w, w.failures \in Nat, IsTable(t, w)
    PROVE  /\ DOMAIN t \subseteq Nat /\ IsFiniteSet(DOMAIN t)
           /\ Cardinality(DOMAIN t) \in Nat
<1> DEFINE N == 0 .. LastFd(w)
<1>1. DOMAIN t \subseteq N /\ N \subseteq Nat
  BY DEF IsTable, LastFd
<1>2. IsFiniteSet(N)
  BY FS_Interval DEF LastFd
<1> HIDE DEF N
<1>3. IsFiniteSet(DOMAIN t)
  BY <1>1, <1>2, FS_Subset
<1> QED
  BY <1>1, <1>3, FS_CardinalityType

-----------------------------------------------------------------------------
(***************************************************************************)
(* What parseCmd opens: a list of names and what they stand for, no name   *)
(* twice.                                                                  *)
(***************************************************************************)
Distinct(opened) == \A i, j \in DOMAIN opened : opened[i][1] = opened[j][1] => i = j

LEMMA Joined ==
    ASSUME NEW S, NEW u \in Seq(S), NEW v \in Seq(S), Distinct(u), Distinct(v),
           \A o \in Range(u), q \in Range(v) : o[1] # q[1]
    PROVE  /\ u \o v \in Seq(S) /\ Len(u \o v) = Len(u) + Len(v)
           /\ Range(u \o v) = Range(u) \cup Range(v) /\ Distinct(u \o v)
<1> DEFINE z == u \o v
<1>1. /\ z \in Seq(S) /\ Len(z) = Len(u) + Len(v)
      /\ DOMAIN z = 1 .. Len(u) + Len(v) /\ DOMAIN u = 1 .. Len(u) /\ DOMAIN v = 1 .. Len(v)
      /\ Len(u) \in Nat /\ Len(v) \in Nat
  OBVIOUS
<1>2. /\ \A i \in 1 .. Len(u) : z[i] = u[i]
      /\ \A i \in 1 .. Len(v) : z[Len(u) + i] = v[i]
  OBVIOUS
<1>3. \A i \in 1 .. Len(u) + Len(v) :
        \/ i \in 1 .. Len(u) /\ z[i] = u[i]
        \/ i - Len(u) \in 1 .. Len(v) /\ z[i] = v[i - Len(u)]
  <2> TAKE i \in 1 .. Len(u) + Len(v)
  <2>1. CASE i <= Len(u)
    BY <1>1, <1>2, <2>1
  <2>2. CASE i > Len(u)
    <3>1. i - Len(u) \in 1 .. Len(v) /\ Len(u) + (i - Len(u)) = i
      BY <1>1, <2>2
    <3>2. z[Len(u) + (i - Len(u))] = v[i - Len(u)]
      BY <1>2, <3>1
    <3> QED
      BY <3>1, <3>2
  <2> QED
    BY <1>1, <2>1, <2>2
<1> HIDE DEF z
<1>4. Range(z) = Range(u) \cup Range(v)
  <2>1. ASSUME NEW o \in Range(u) PROVE o \in Range(z)
    <3>1. PICK i \in 1 .. Len(u) : o = u[i]
      BY <1>1 DEF Range
    <3> QED
      BY <1>1, <1>2, <3>1 DEF Range
  <2>2. ASSUME NEW o \in Range(v) PROVE o \in Range(z)
    <3>1. PICK i \in 1 .. Len(v) : o = v[i]
      BY <1>1 DEF Range
    <3>2. Len(u) + i \in DOMAIN z /\ z[Len(u) + i] = o
      BY <1>1, <1>2, <3>1
    <3> QED
      BY <3>2 DEF Range
  <2>3. ASSUME NEW o \in Range(z) PROVE o \in Range(u) \cup Range(v)
    <3>1. PICK i \in 1 .. Len(u) + Len(v) : o = z[i]
      BY <1>1 DEF Range
    <3>2. CASE i \in 1 .. Len(u) /\ z[i] = u[i]
      BY <1>1, <3>1, <3>2 DEF Range
    <3>3. CASE i - Len(u) \in 1 .. Len(v) /\ z[i] = v[i - Len(u)]
      BY <1>1, <3>1, <3>3 DEF Range
    <3> QED
      BY <1>3, <3>2, <3>3
  <2> QED
    BY <2>1, <2>2, <2>3
<1>5. Distinct(z)
  <2> SUFFICES ASSUME NEW i \in 1 .. Len(u) + Len(v), NEW j \in 1 .. Len(u) + Len(v),
                      z[i][1] = z[j][1]
               PROVE  i = j
    BY <1>1 DEF Distinct
  <2>1. CASE i \in 1 .. Len(u) /\ z[i] = u[i]
    <3>1. CASE j \in 1 .. Len(u) /\ z[j] = u[j]
      BY <1>1, <2>1, <3>1 DEF Distinct
    <3>2. CASE j - Len(u) \in 1 .. Len(v) /\ z[j] = v[j - Len(u)]
      BY <1>1, <2>1, <3>2 DEF Range
    <3> QED
      BY <1>3, <3>1, <3>2
  <2>2. CASE i - Len(u) \in 1 .. Len(v) /\ z[i] = v[i - Len(u)]
    <3>1. CASE j \in 1 .. Len(u) /\ z[j] = u[j]
      BY <1>1, <2>2, <3>1 DEF Range
    <3>2. CASE j - Len(u) \in 1 .. Len(v) /\ z[j] = v[j - Len(u)]
      <4>1. i - Len(u) = j - Len(u)
        BY <1>1, <2>2, <3>2 DEF Distinct
      <4> QED
        BY <1>1, <4>1
    <3> QED
      BY <1>3, <3>1, <3>2
  <2> QED
    BY <1>3, <2>1, <2>2
<1> QED
  BY <1>1, <1>4, <1>5 DEF z

LEMMA One ==
    ASSUME NEW S, NEW cond \in BOOLEAN, NEW o \in S
    PROVE  /\ If(cond, <<o>>) \in Seq(S) /\ Len(If(cond, <<o>>)) <= 1
           /\ Len(If(cond, <<o>>)) \in Nat
           /\ Range(If(cond, <<o>>)) = IF cond THEN {o} ELSE {}
           /\ Distinct(If(cond, <<o>>))
<1>1. CASE cond
  <2>1. /\ <<o>> \in Seq(S) /\ Len(<<o>>) = 1 /\ DOMAIN <<o>> = {1} /\ <<o>>[1] = o
    OBVIOUS
  <2>2. Range(<<o>>) = {o}
    BY <2>1 DEF Range
  <2>3. Distinct(<<o>>)
    BY <2>1 DEF Distinct
  <2> QED
    BY <1>1, <2>1, <2>2, <2>3 DEF If
<1>2. CASE ~cond
  <2>1. /\ <<>> \in Seq(S) /\ Len(<<>>) = 0 /\ DOMAIN <<>> = {}
    OBVIOUS
  <2>2. Range(<<>>) = {}
    BY <2>1 DEF Range
  <2>3. Distinct(<<>>)
    BY <2>1 DEF Distinct
  <2> QED
    BY <1>2, <2>1, <2>2, <2>3 DEF If
<1> QED
  BY <1>1, <1>2

\* What Locals and WithOpened make of a list: each name gets a new number, which
\* stands for what was opened.
LEMMA OpenedIs ==
    ASSUME NEW t, DOMAIN t \subseteq Nat, IsFiniteSet(DOMAIN t),
           NEW S, NEW opened \in Seq((DOMAIN NoSaved) \X S), Distinct(opened)
    PROVE  LET u == WithOpened(t, opened)
               s == Locals(t, opened)
           IN  /\ u = [m \in DOMAIN u |-> u[m]]
               /\ \A m \in DOMAIN t : m \in DOMAIN u /\ u[m] = t[m]
               /\ s = [x \in DOMAIN NoSaved |-> s[x]]
               /\ \A o \in Range(opened) :
                    /\ o[1] \in DOMAIN NoSaved /\ s[o[1]] \in Nat \ DOMAIN t
                    /\ s[o[1]] \in DOMAIN u /\ u[s[o[1]]] = o[2]
                    /\ s[o[1]] <= Cardinality(DOMAIN t) + Len(opened) - 1
               /\ \A x \in DOMAIN NoSaved :
                    (\A o \in Range(opened) : o[1] # x) => s[x] = None
               /\ \A m \in DOMAIN u \ DOMAIN t :
                    \E o \in Range(opened) : m = s[o[1]] /\ u[m] = o[2]
<1> DEFINE u == WithOpened(t, opened)
           s == Locals(t, opened)
<1>1. /\ DOMAIN opened = 1 .. Len(opened) /\ Len(opened) \in Nat
      /\ Cardinality(DOMAIN t) \in Nat
  BY FS_CardinalityType
<1>2. ASSUME NEW i \in DOMAIN opened
      PROVE  /\ opened[i][1] \in DOMAIN NoSaved
             /\ Free(t, i) \in Nat \ DOMAIN t
             /\ Free(t, i) <= Cardinality(DOMAIN t) + Len(opened) - 1
             /\ \A j \in DOMAIN opened : Free(t, j) = Free(t, i) => j = i
  <2>1. i \in Nat \ {0} /\ i <= Len(opened)
    BY <1>1
  <2>2. opened[i] \in (DOMAIN NoSaved) \X S
    BY <1>1
  <2>3. /\ Free(t, i) \in Nat \ DOMAIN t
        /\ Free(t, i) <= Cardinality(DOMAIN t) + i - 1
    BY <2>1, FreeIs
  <2>4. ASSUME NEW j \in DOMAIN opened, Free(t, j) = Free(t, i)
        PROVE  j = i
    <3>1. j \in Nat \ {0}
      BY <1>1
    <3> QED
      BY <2>1, <2>4, <3>1, FreeDiffer
  <2> QED
    BY <1>1, <2>1, <2>2, <2>3, <2>4
<1>3. /\ DOMAIN u = DOMAIN t \cup {Free(t, i) : i \in DOMAIN opened}
      /\ u = [m \in DOMAIN u |-> u[m]]
      /\ \A m \in DOMAIN t : m \in DOMAIN u /\ u[m] = t[m]
  BY DEF WithOpened
<1>4. ASSUME NEW i \in DOMAIN opened
      PROVE  /\ Free(t, i) \in DOMAIN u /\ u[Free(t, i)] = opened[i][2]
             /\ s[opened[i][1]] = Free(t, i)
  <2> DEFINE n == Free(t, i)
             j == CHOOSE j \in DOMAIN opened : n = Free(t, j)
             h == CHOOSE h \in DOMAIN opened : opened[h][1] = opened[i][1]
  <2>1. n \in DOMAIN u /\ n \notin DOMAIN t
    BY <1>2, <1>3
  <2>2. j = i
    <3>1. j \in DOMAIN opened /\ n = Free(t, j)
      OBVIOUS
    <3> QED
      BY <3>1, <1>2
  <2>3. u[n] = opened[j][2]
    <3>1. n \in DOMAIN t \cup {Free(t, x) : x \in DOMAIN opened}
      BY <2>1, <1>3
    <3> QED
      BY <2>1, <3>1 DEF WithOpened
  <2>4. h = i
    <3>1. h \in DOMAIN opened /\ opened[h][1] = opened[i][1]
      OBVIOUS
    <3> QED
      BY <3>1 DEF Distinct
  <2>5. s[opened[i][1]] = Free(t, h)
    BY <1>2 DEF Locals
  <2> QED
    BY <2>1, <2>2, <2>3, <2>4, <2>5
<1>5. ASSUME NEW o \in Range(opened)
      PROVE  \E i \in DOMAIN opened : o = opened[i]
  BY DEF Range
<1>6. ASSUME NEW i \in DOMAIN opened
      PROVE  opened[i] \in Range(opened)
  BY DEF Range
<1>7. ASSUME NEW x \in DOMAIN NoSaved, \A o \in Range(opened) : o[1] # x
      PROVE  s[x] = None
  <2>1. ~ \E i \in DOMAIN opened : opened[i][1] = x
    BY <1>6, <1>7
  <2> QED
    BY <2>1 DEF Locals
<1>8. s = [x \in DOMAIN NoSaved |-> s[x]]
  BY DEF Locals
<1>9. ASSUME NEW m \in DOMAIN u \ DOMAIN t
      PROVE  \E o \in Range(opened) : m = s[o[1]] /\ u[m] = o[2]
  <2>1. PICK i \in DOMAIN opened : m = Free(t, i)
    BY <1>3
  <2> QED
    BY <1>4, <1>6, <2>1
<1> HIDE DEF u, s
<1>10. \A o \in Range(opened) :
         /\ o[1] \in DOMAIN NoSaved /\ s[o[1]] \in Nat \ DOMAIN t
         /\ s[o[1]] \in DOMAIN u /\ u[s[o[1]]] = o[2]
         /\ s[o[1]] <= Cardinality(DOMAIN t) + Len(opened) - 1
  BY <1>2, <1>4, <1>5
<1> QED
  BY <1>3, <1>7, <1>8, <1>9, <1>10 DEF u, s

IsCommand(cmd) ==
    /\ cmd.in \in {"Tnil", "Tin", "Tpipe", "TpipeErr"}
    /\ cmd.out \in {"Tnil", "Tout", "ToutErr", "Tpipe", "TpipeErr"}
Opened(t, cmd, k, in_ok) == OpensInput(t, cmd, k, in_ok) \o OpensOutput(t, cmd, k)
OpenedFor(t, cmd, k, in_ok) ==
    {o \in {<<"stdout_bak", t[1]>>, <<"stdin_bak", t[0]>>, <<"inFile", <<"infile", k>> >>} :
       /\ o[1] = "stdout_bak" => ToFile(cmd.out)
       /\ o[1] # "stdout_bak" => cmd.in = "Tin"
       /\ o[1] = "inFile" => in_ok}
OpenedToo(t, cmd, k) ==
    {o \in {<<"outFile", <<"outfile", k>> >>, <<"stderr_bak", t[2]>>} :
       /\ o[1] = "outFile" => ToFile(cmd.out)
       /\ o[1] = "stderr_bak" => cmd.out = "ToutErr"}

LEMMA OpensAre ==
    ASSUME NEW t, NEW w, IsTable(t, w), NEW k \in Commands, NEW cmd, NEW in_ok \in BOOLEAN
    PROVE  /\ OpensInput(t, cmd, k, in_ok) \in Seq((DOMAIN NoSaved) \X Entries(w))
           /\ Len(OpensInput(t, cmd, k, in_ok)) <= 3
           /\ Distinct(OpensInput(t, cmd, k, in_ok))
           /\ Range(OpensInput(t, cmd, k, in_ok)) = OpenedFor(t, cmd, k, in_ok)
           /\ Opened(t, cmd, k, in_ok) \in Seq((DOMAIN NoSaved) \X Entries(w))
           /\ Len(Opened(t, cmd, k, in_ok)) <= 5
           /\ Distinct(Opened(t, cmd, k, in_ok))
           /\ Range(Opened(t, cmd, k, in_ok)) =
                OpenedFor(t, cmd, k, in_ok) \cup OpenedToo(t, cmd, k)
<1> DEFINE S == (DOMAIN NoSaved) \X Entries(w)
           o1 == <<"stdout_bak", t[1]>>
           o2 == <<"stdin_bak", t[0]>>
           o3 == <<"inFile", <<"infile", k>> >>
           o4 == <<"outFile", <<"outfile", k>> >>
           o5 == <<"stderr_bak", t[2]>>
           c1 == ToFile(cmd.out)
           c2 == cmd.in = "Tin"
           c3 == cmd.in = "Tin" /\ in_ok
           c5 == cmd.out = "ToutErr"
           u1 == If(c1, <<o1>>)
           u2 == If(c2, <<o2>>)
           u3 == If(c3, <<o3>>)
           u4 == If(c1, <<o4>>)
           u5 == If(c5, <<o5>>)
<1>1. o1 \in S /\ o2 \in S /\ o3 \in S /\ o4 \in S /\ o5 \in S
  <2>1. t[0] \in Entries(w) /\ t[1] \in Entries(w) /\ t[2] \in Entries(w)
    <3>1. 0 \in DOMAIN t /\ 1 \in DOMAIN t /\ 2 \in DOMAIN t
      BY DEF IsTable
    <3> QED
      BY <3>1 DEF IsTable
  <2>2. <<"infile", k>> \in Entries(w) /\ <<"outfile", k>> \in Entries(w)
    BY DEF Entries, Kinds, Commands
  <2>3. DOMAIN NoSaved = {"stdin_bak", "stdout_bak", "stderr_bak", "inFile", "outFile"}
    BY DEF NoSaved
  <2> HIDE DEF S
  <2> QED
    BY <2>1, <2>2, <2>3 DEF S
<1>2. /\ o1[1] = "stdout_bak" /\ o2[1] = "stdin_bak" /\ o3[1] = "inFile"
      /\ o4[1] = "outFile" /\ o5[1] = "stderr_bak"
  OBVIOUS
<1>3. c1 \in BOOLEAN /\ c2 \in BOOLEAN /\ c3 \in BOOLEAN /\ c5 \in BOOLEAN
  BY DEF ToFile
<1>4. /\ OpensInput(t, cmd, k, in_ok) = (u1 \o u2) \o u3
      /\ OpensOutput(t, cmd, k) = u4 \o u5
  BY DEF OpensInput, OpensOutput
<1>5. /\ OpenedFor(t, cmd, k, in_ok) =
           (IF c1 THEN {o1} ELSE {}) \cup (IF c2 THEN {o2} ELSE {}) \cup (IF c3 THEN {o3} ELSE {})
      /\ OpenedToo(t, cmd, k) = (IF c1 THEN {o4} ELSE {}) \cup (IF c5 THEN {o5} ELSE {})
  BY DEF OpenedFor, OpenedToo
<1> HIDE DEF S, o1, o2, o3, o4, o5, c1, c2, c3, c5
<1>6. /\ u1 \in Seq(S) /\ Len(u1) <= 1 /\ Len(u1) \in Nat /\ Distinct(u1)
      /\ Range(u1) = IF c1 THEN {o1} ELSE {}
  BY <1>1, <1>3, One
<1>7. /\ u2 \in Seq(S) /\ Len(u2) <= 1 /\ Len(u2) \in Nat /\ Distinct(u2)
      /\ Range(u2) = IF c2 THEN {o2} ELSE {}
  BY <1>1, <1>3, One
<1>8. /\ u3 \in Seq(S) /\ Len(u3) <= 1 /\ Len(u3) \in Nat /\ Distinct(u3)
      /\ Range(u3) = IF c3 THEN {o3} ELSE {}
  BY <1>1, <1>3, One
<1>9. /\ u4 \in Seq(S) /\ Len(u4) <= 1 /\ Len(u4) \in Nat /\ Distinct(u4)
      /\ Range(u4) = IF c1 THEN {o4} ELSE {}
  BY <1>1, <1>3, One
<1>10. /\ u5 \in Seq(S) /\ Len(u5) <= 1 /\ Len(u5) \in Nat /\ Distinct(u5)
       /\ Range(u5) = IF c5 THEN {o5} ELSE {}
  BY <1>1, <1>3, One
<1> HIDE DEF u1, u2, u3, u4, u5
<1>11. /\ u1 \o u2 \in Seq(S) /\ Len(u1 \o u2) = Len(u1) + Len(u2)
       /\ Range(u1 \o u2) = Range(u1) \cup Range(u2) /\ Distinct(u1 \o u2)
  <2>1. \A o \in Range(u1), q \in Range(u2) : o[1] # q[1]
    BY <1>2, <1>6, <1>7
  <2> QED
    BY <1>6, <1>7, <2>1, Joined
<1> DEFINE v == (u1 \o u2) \o u3
           z == u4 \o u5
<1>12. /\ v \in Seq(S) /\ Len(v) = Len(u1 \o u2) + Len(u3)
       /\ Range(v) = Range(u1 \o u2) \cup Range(u3) /\ Distinct(v)
  <2>1. \A o \in Range(u1 \o u2), q \in Range(u3) : o[1] # q[1]
    BY <1>2, <1>6, <1>7, <1>8, <1>11
  <2> QED
    BY <1>8, <1>11, <2>1, Joined
<1>13. /\ z \in Seq(S) /\ Len(z) = Len(u4) + Len(u5)
       /\ Range(z) = Range(u4) \cup Range(u5) /\ Distinct(z)
  <2>1. \A o \in Range(u4), q \in Range(u5) : o[1] # q[1]
    BY <1>2, <1>9, <1>10
  <2> QED
    BY <1>9, <1>10, <2>1, Joined
<1> HIDE DEF v, z
<1>14. /\ v \o z \in Seq(S) /\ Len(v \o z) = Len(v) + Len(z)
       /\ Range(v \o z) = Range(v) \cup Range(z) /\ Distinct(v \o z)
  <2>1. \A o \in Range(v), q \in Range(z) : o[1] # q[1]
    BY <1>2, <1>6, <1>7, <1>8, <1>9, <1>10, <1>11, <1>12, <1>13
  <2> QED
    BY <1>12, <1>13, <2>1, Joined
<1>15. /\ OpensInput(t, cmd, k, in_ok) = v /\ Opened(t, cmd, k, in_ok) = v \o z
  BY <1>4 DEF v, z, Opened
<1>16. Len(v) <= 3 /\ Len(v \o z) <= 5
  BY <1>6, <1>7, <1>8, <1>9, <1>10, <1>11, <1>12, <1>13, <1>14
<1>17. /\ Range(v) = OpenedFor(t, cmd, k, in_ok)
       /\ Range(v \o z) = OpenedFor(t, cmd, k, in_ok) \cup OpenedToo(t, cmd, k)
  BY <1>5, <1>6, <1>7, <1>8, <1>9, <1>10, <1>11, <1>12, <1>13, <1>14
<1> QED
  BY <1>12, <1>14, <1>15, <1>16, <1>17 DEF S

-----------------------------------------------------------------------------
(***************************************************************************)
(* The redirections of parseCmd, and their end.                            *)
(***************************************************************************)
\* With the files open, the new table writes and reads them, and what parseCmd
\* does at its end gives back the old one.
LEMMA Redirecting ==
    ASSUME NEW t, NEW w, w.failures \in Nat, IsTable(t, w), IsSmall(t, w),
           NEW k \in Commands, NEW cmd, IsCommand(cmd), NEW in_ok \in BOOLEAN
    PROVE  LET opened == Opened(t, cmd, k, in_ok)
               s == Locals(t, opened)
               new == OutputOnto(InputOnto(WithOpened(t, opened), cmd, k, in_ok), cmd, k)
           IN  /\ IsTable(new, w) /\ s \in [DOMAIN NoSaved -> -1 .. LastFd(w)]
               /\ IsSaved(new, s, cmd) /\ Restored(new, s, cmd) = t
               /\ new[0] = (IF cmd.in = "Tin" /\ in_ok THEN <<"infile", k>> ELSE t[0])
               /\ new[1] = (IF ToFile(cmd.out) THEN <<"outfile", k>> ELSE t[1])
               /\ s["inFile"] # None <=> cmd.in = "Tin" /\ in_ok
               /\ \A m \in DOMAIN new :
                    \/ new[m] \in {<<"infile", k>>, <<"outfile", k>>}
                    \/ \E n \in DOMAIN t : new[m] = t[n]
<1> DEFINE opened == Opened(t, cmd, k, in_ok)
           s == Locals(t, opened)
           u == WithOpened(t, opened)
           a == InputOnto(u, cmd, k, in_ok)
           new == OutputOnto(a, cmd, k)
           size == Cardinality(DOMAIN t)
           O == OpenedFor(t, cmd, k, in_ok) \cup OpenedToo(t, cmd, k)
<1>1. /\ DOMAIN t \subseteq Nat /\ IsFiniteSet(DOMAIN t) /\ size \in Nat
      /\ size <= 5 + 3 * w.failures
      /\ 0 \in DOMAIN t /\ 1 \in DOMAIN t /\ 2 \in DOMAIN t
      /\ DOMAIN t \subseteq 0 .. LastFd(w) /\ LastFd(w) = 9 + 3 * w.failures
      /\ t \in [DOMAIN t -> Entries(w)]
  BY TableIsFinite DEF IsTable, IsSmall, LastFd
<1>2. /\ opened \in Seq((DOMAIN NoSaved) \X Entries(w)) /\ Len(opened) <= 5
      /\ Len(opened) \in Nat /\ Distinct(opened) /\ Range(opened) = O
  <2>1. /\ opened \in Seq((DOMAIN NoSaved) \X Entries(w)) /\ Len(opened) <= 5
        /\ Distinct(opened) /\ Range(opened) = O
    BY OpensAre
  <2> HIDE DEF opened
  <2> QED
    BY <2>1
<1>3. /\ u = [m \in DOMAIN u |-> u[m]]
      /\ \A m \in DOMAIN t : m \in DOMAIN u /\ u[m] = t[m]
      /\ s = [x \in DOMAIN NoSaved |-> s[x]]
      /\ \A o \in O :
           /\ o[1] \in DOMAIN NoSaved /\ s[o[1]] \in Nat \ DOMAIN t
           /\ s[o[1]] \in DOMAIN u /\ u[s[o[1]]] = o[2]
           /\ s[o[1]] <= size + Len(opened) - 1
      /\ \A x \in DOMAIN NoSaved : (\A o \in O : o[1] # x) => s[x] = None
      /\ \A m \in DOMAIN u \ DOMAIN t : \E o \in O : m = s[o[1]] /\ u[m] = o[2]
  <2> HIDE DEF opened, O, size
  <2>1. /\ DOMAIN t \subseteq Nat /\ IsFiniteSet(DOMAIN t) /\ Distinct(opened)
        /\ opened \in Seq((DOMAIN NoSaved) \X Entries(w))
    BY <1>1, <1>2
  <2>2. /\ u = [m \in DOMAIN u |-> u[m]]
        /\ \A m \in DOMAIN t : m \in DOMAIN u /\ u[m] = t[m]
        /\ s = [x \in DOMAIN NoSaved |-> s[x]]
        /\ \A o \in Range(opened) :
             /\ o[1] \in DOMAIN NoSaved /\ s[o[1]] \in Nat \ DOMAIN t
             /\ s[o[1]] \in DOMAIN u /\ u[s[o[1]]] = o[2]
             /\ s[o[1]] <= Cardinality(DOMAIN t) + Len(opened) - 1
        /\ \A x \in DOMAIN NoSaved :
             (\A o \in Range(opened) : o[1] # x) => s[x] = None
        /\ \A m \in DOMAIN u \ DOMAIN t :
             \E o \in Range(opened) : m = s[o[1]] /\ u[m] = o[2]
    BY <2>1, OpenedIs
  <2> HIDE DEF u, s
  <2> QED
    BY <1>2, <2>2 DEF size
<1> HIDE DEF opened, s, u, size
<1>4. ASSUME NEW x \in DOMAIN NoSaved
      PROVE  /\ s[x] \in -1 .. LastFd(w)
             /\ s[x] = None \/ s[x] \in DOMAIN u \ DOMAIN t
  <2> HIDE DEF O
  <2>1. CASE \A o \in O : o[1] # x
    BY <1>1, <1>3, <2>1 DEF None
  <2>2. CASE \E o \in O : o[1] = x
    BY <1>1, <1>2, <1>3, <2>2
  <2> QED
    BY <2>1, <2>2
<1>5. \A m \in DOMAIN u \ DOMAIN t : \E x \in DOMAIN NoSaved : m = s[x]
  <2> HIDE DEF O
  <2> QED
    BY <1>3
<1>6. s \in [DOMAIN NoSaved -> -1 .. LastFd(w)]
  BY <1>3, <1>4
<1>7. Range(s) \cap DOMAIN t = {} /\ DOMAIN u \ DOMAIN t \subseteq Range(s)
  <2>1. DOMAIN s = DOMAIN NoSaved
    BY <1>3
  <2> QED
    BY <1>1, <1>4, <1>5, <2>1 DEF Range, None
<1>8. ASSUME NEW n \in PutBack(cmd)
      PROVE  /\ s[Backup(n)] \in DOMAIN u \ DOMAIN t /\ u[s[Backup(n)]] = t[n]
             /\ n \in {0, 1, 2}
  <2>1. n \in {0, 1, 2}
    BY DEF PutBack
  <2>2. <<Backup(n), t[n]>> \in O
    <3>1. CASE n = 0
      <4>1. cmd.in = "Tin" /\ Backup(n) = "stdin_bak"
        BY <3>1 DEF PutBack, Backup
      <4> QED
        BY <3>1, <4>1 DEF OpenedFor
    <3>2. CASE n = 1
      <4>1. ToFile(cmd.out) /\ Backup(n) = "stdout_bak"
        BY <3>2 DEF PutBack, Backup
      <4> QED
        BY <3>2, <4>1 DEF OpenedFor
    <3>3. CASE n = 2
      <4>1. cmd.out = "ToutErr" /\ Backup(n) = "stderr_bak"
        BY <3>3 DEF PutBack, Backup
      <4> QED
        BY <3>3, <4>1 DEF OpenedToo
    <3> QED
      BY <2>1, <3>1, <3>2, <3>3
  <2> DEFINE o == <<Backup(n), t[n]>>
  <2>3. o[1] = Backup(n) /\ o[2] = t[n]
    OBVIOUS
  <2> HIDE DEF O, o
  <2>4. o \in O
    BY <2>2 DEF o
  <2> QED
    BY <1>3, <2>1, <2>3, <2>4
<1>9. /\ DOMAIN a = DOMAIN u /\ a = [m \in DOMAIN u |-> a[m]]
      /\ a[0] = IF cmd.in = "Tin" /\ in_ok THEN <<"infile", k>> ELSE u[0]
      /\ \A m \in DOMAIN u \ {0} : a[m] = u[m]
  BY <1>1, <1>3 DEF InputOnto
<1>10. /\ DOMAIN new = DOMAIN u /\ new = [m \in DOMAIN u |-> new[m]]
       /\ \A m \in DOMAIN u :
            new[m] = IF (m = 1 /\ ToFile(cmd.out)) \/ (m = 2 /\ cmd.out = "ToutErr")
                     THEN <<"outfile", k>> ELSE a[m]
  <2> HIDE DEF a
  <2> QED
    BY <1>9 DEF OutputOnto
<1> HIDE DEF a, new
<1>11. /\ new[0] = (IF cmd.in = "Tin" /\ in_ok THEN <<"infile", k>> ELSE t[0])
       /\ new[1] = (IF ToFile(cmd.out) THEN <<"outfile", k>> ELSE t[1])
       /\ \A m \in DOMAIN u \ {0, 1, 2} : new[m] = u[m]
       /\ \A m \in {0, 1, 2} \ PutBack(cmd) : new[m] = t[m]
  <2>1. 0 \in DOMAIN u /\ 1 \in DOMAIN u /\ 2 \in DOMAIN u
    BY <1>1, <1>3
  <2>2. u[0] = t[0] /\ u[1] = t[1] /\ u[2] = t[2]
    BY <1>1, <1>3
  <2>3. a[1] = u[1] /\ a[2] = u[2]
    BY <1>9, <2>1
  <2>4. new[0] = a[0] /\ new[1] = (IF ToFile(cmd.out) THEN <<"outfile", k>> ELSE a[1])
    BY <1>10, <2>1 DEF ToFile
  <2>5. \A m \in DOMAIN u \ {0, 1, 2} : new[m] = u[m]
    BY <1>9, <1>10
  <2>6. \A m \in {0, 1, 2} \ PutBack(cmd) : new[m] = t[m]
    BY <1>9, <1>10, <2>1, <2>2, <2>3, <2>4 DEF PutBack
  <2> QED
    BY <1>9, <2>2, <2>3, <2>4, <2>5, <2>6
<1>12. ASSUME NEW m \in DOMAIN new
       PROVE  \/ new[m] \in {<<"infile", k>>, <<"outfile", k>>}
              \/ \E n \in DOMAIN t : new[m] = t[n]
  <2>1. CASE m \in {0, 1, 2}
    BY <1>1, <1>3, <1>9, <1>10, <2>1
  <2>2. CASE m \in DOMAIN t \ {0, 1, 2}
    BY <1>3, <1>11, <2>2
  <2>3. CASE m \in DOMAIN u \ DOMAIN t
    <3>1. PICK o \in O : u[m] = o[2]
      <4> HIDE DEF O
      <4> QED
        BY <1>3, <2>3
    <3>2. o[2] \in {t[0], t[1], t[2], <<"infile", k>>, <<"outfile", k>>}
      <4>1. CASE o \in OpenedFor(t, cmd, k, in_ok)
        BY <4>1 DEF OpenedFor
      <4>2. CASE o \in OpenedToo(t, cmd, k)
        BY <4>2 DEF OpenedToo
      <4> QED
        BY <4>1, <4>2
    <3>3. new[m] = u[m]
      BY <1>1, <1>11, <2>3
    <3> QED
      BY <1>1, <3>1, <3>2, <3>3
  <2> QED
    BY <1>10, <2>1, <2>2, <2>3
<1>13. IsTable(new, w)
  <2>1. <<"infile", k>> \in Entries(w) /\ <<"outfile", k>> \in Entries(w)
    BY DEF Entries, Kinds, Commands
  <2>2. \A m \in DOMAIN new : new[m] \in Entries(w)
    BY <1>1, <1>12, <2>1
  <2>3. DOMAIN new \subseteq 0 .. LastFd(w)
    <3>1. \A m \in DOMAIN u \ DOMAIN t : m \in 0 .. LastFd(w)
      BY <1>3, <1>4, <1>5, <1>1 DEF None
    <3> QED
      BY <1>1, <1>10, <3>1
  <2>4. 0 .. 2 = {0, 1, 2}
    OBVIOUS
  <2> QED
    BY <1>1, <1>3, <1>10, <2>2, <2>3, <2>4 DEF IsTable
<1>14. IsSaved(new, s, cmd)
  <2>1. 0 .. 2 = {0, 1, 2}
    OBVIOUS
  <2> QED
    BY <1>1, <1>7, <1>8, <1>10, <2>1 DEF IsSaved
<1>15. Restored(new, s, cmd) = t
  <2> DEFINE b == BackIn(new, s, cmd)
             r == Close(b, Range(s))
  <2>1. /\ DOMAIN b = DOMAIN u \cup PutBack(cmd)
        /\ \A m \in DOMAIN b : b[m] = IF m \in PutBack(cmd) THEN new[s[Backup(m)]] ELSE new[m]
    BY <1>10 DEF BackIn
  <2> HIDE DEF b
  <2>2. /\ DOMAIN r = DOMAIN b \ Range(s) /\ r = [m \in DOMAIN r |-> r[m]]
        /\ \A m \in DOMAIN r : r[m] = b[m]
    BY DEF Close, Restrict
  <2> HIDE DEF r
  <2>3. DOMAIN r = DOMAIN t
    <3>1. PutBack(cmd) \subseteq DOMAIN t
      BY <1>1 DEF PutBack
    <3>2. DOMAIN t \subseteq DOMAIN u
      BY <1>3
    <3> QED
      BY <1>7, <2>1, <2>2, <3>1, <3>2
  <2>4. ASSUME NEW m \in DOMAIN t
        PROVE  r[m] = t[m]
    <3>1. m \in DOMAIN b /\ r[m] = b[m]
      BY <2>2, <2>3
    <3>2. CASE m \in PutBack(cmd)
      <4>1. s[Backup(m)] \in DOMAIN u \ {0, 1, 2} /\ u[s[Backup(m)]] = t[m]
        BY <1>1, <1>8, <3>2
      <4> QED
        BY <1>11, <2>1, <3>1, <3>2, <4>1
    <3>3. CASE m \notin PutBack(cmd)
      <4>1. b[m] = new[m]
        BY <2>1, <3>1, <3>3
      <4>2. new[m] = t[m]
        BY <1>3, <1>11, <3>3
      <4> QED
        BY <3>1, <4>1, <4>2
    <3> QED
      BY <3>2, <3>3
  <2>5. r = t
    BY <1>1, <2>2, <2>3, <2>4
  <2> QED
    BY <2>5 DEF Restored, r, b
<1>16. s["inFile"] # None <=> cmd.in = "Tin" /\ in_ok
  <2> DEFINE o == <<"inFile", <<"infile", k>> >>
  <2>1. /\ "inFile" \in DOMAIN NoSaved /\ o[1] = "inFile"
        /\ o \in O <=> cmd.in = "Tin" /\ in_ok
        /\ \A x \in O : x[1] = "inFile" => x = o
    BY DEF NoSaved, OpenedFor, OpenedToo
  <2> HIDE DEF O, o
  <2>2. o \in O => s["inFile"] \in Nat
    BY <1>3, <2>1
  <2>3. o \notin O => s["inFile"] = None
    BY <1>3, <2>1
  <2> QED
    BY <2>1, <2>2, <2>3 DEF None
<1> QED
  BY <1>6, <1>11, <1>12, <1>13, <1>14, <1>15, <1>16 DEF new, s, u, a, opened

LEMMA OneMore ==
    ASSUME NEW S, IsFiniteSet(S), NEW x
    PROVE  IsFiniteSet(S \cup {x}) /\ Cardinality(S \cup {x}) <= Cardinality(S) + 1
<1>1. Cardinality(S) \in Nat
  BY FS_CardinalityType
<1>2. Cardinality(S \cup {x}) = IF x \in S THEN Cardinality(S) ELSE Cardinality(S) + 1
  BY FS_AddElement
<1> QED
  BY <1>1, <1>2, FS_AddElement

\* With the output file missing, parseCmd leaves up to three more numbers behind,
\* and standard input is redirected if an input file was opened.
LEMMA Failing ==
    ASSUME NEW t, NEW w, w.failures \in Nat, IsTable(t, w), IsSmall(t, w),
           NEW k \in Commands, NEW cmd, NEW in_ok \in BOOLEAN
    PROVE  LET new == InputOnto(WithOpened(t, OpensInput(t, cmd, k, in_ok)), cmd, k, in_ok)
           IN  /\ IsTable(new, w)
               /\ Cardinality(DOMAIN new) <= Cardinality(DOMAIN t) + 3
               /\ new[0] = (IF cmd.in = "Tin" /\ in_ok THEN <<"infile", k>> ELSE t[0])
               /\ \A m \in DOMAIN t : m \in DOMAIN new /\ (m # 0 => new[m] = t[m])
               /\ \A m \in DOMAIN new :
                    new[m] = <<"infile", k>> \/ \E n \in DOMAIN t : new[m] = t[n]
<1> DEFINE opened == OpensInput(t, cmd, k, in_ok)
           s == Locals(t, opened)
           u == WithOpened(t, opened)
           new == InputOnto(u, cmd, k, in_ok)
           size == Cardinality(DOMAIN t)
           O == OpenedFor(t, cmd, k, in_ok)
           more == (DOMAIN t \cup {s["stdout_bak"]} \cup {s["stdin_bak"]}) \cup {s["inFile"]}
<1>1. /\ DOMAIN t \subseteq Nat /\ IsFiniteSet(DOMAIN t) /\ size \in Nat
      /\ size <= 5 + 3 * w.failures
      /\ 0 \in DOMAIN t /\ 1 \in DOMAIN t /\ 2 \in DOMAIN t
      /\ DOMAIN t \subseteq 0 .. LastFd(w) /\ LastFd(w) = 9 + 3 * w.failures
      /\ t \in [DOMAIN t -> Entries(w)]
  BY TableIsFinite DEF IsTable, IsSmall, LastFd
<1>2. /\ opened \in Seq((DOMAIN NoSaved) \X Entries(w)) /\ Len(opened) <= 3
      /\ Distinct(opened) /\ Range(opened) = O
  BY OpensAre
<1>3. Len(opened) \in Nat
  <2> HIDE DEF opened
  <2> QED
    BY <1>2
<1>4. /\ u = [m \in DOMAIN u |-> u[m]]
      /\ \A m \in DOMAIN t : m \in DOMAIN u /\ u[m] = t[m]
      /\ \A o \in O :
           /\ s[o[1]] \in Nat /\ s[o[1]] \in DOMAIN u /\ u[s[o[1]]] = o[2]
           /\ s[o[1]] <= size + Len(opened) - 1
      /\ \A m \in DOMAIN u \ DOMAIN t : \E o \in O : m = s[o[1]] /\ u[m] = o[2]
  <2> HIDE DEF opened, O, size
  <2>1. /\ DOMAIN t \subseteq Nat /\ IsFiniteSet(DOMAIN t) /\ Distinct(opened)
        /\ opened \in Seq((DOMAIN NoSaved) \X Entries(w))
    BY <1>1, <1>2
  <2>2. /\ u = [m \in DOMAIN u |-> u[m]]
        /\ \A m \in DOMAIN t : m \in DOMAIN u /\ u[m] = t[m]
        /\ s = [x \in DOMAIN NoSaved |-> s[x]]
        /\ \A o \in Range(opened) :
             /\ o[1] \in DOMAIN NoSaved /\ s[o[1]] \in Nat \ DOMAIN t
             /\ s[o[1]] \in DOMAIN u /\ u[s[o[1]]] = o[2]
             /\ s[o[1]] <= Cardinality(DOMAIN t) + Len(opened) - 1
        /\ \A x \in DOMAIN NoSaved :
             (\A o \in Range(opened) : o[1] # x) => s[x] = None
        /\ \A m \in DOMAIN u \ DOMAIN t :
             \E o \in Range(opened) : m = s[o[1]] /\ u[m] = o[2]
    BY <2>1, OpenedIs
  <2> HIDE DEF u, s
  <2> QED
    BY <1>2, <2>2 DEF size
<1> HIDE DEF opened, s, u, size
<1>5. ASSUME NEW o \in O
      PROVE  /\ o[1] \in {"stdout_bak", "stdin_bak", "inFile"}
             /\ o[2] \in {t[0], t[1], <<"infile", k>>}
  BY <1>5 DEF OpenedFor
<1>6. ASSUME NEW m \in DOMAIN u \ DOMAIN t
      PROVE  /\ m \in {s["stdout_bak"], s["stdin_bak"], s["inFile"]}
             /\ m \in 0 .. LastFd(w) /\ u[m] \in {t[0], t[1], <<"infile", k>>}
  <2> HIDE DEF O
  <2>1. PICK o \in O : m = s[o[1]] /\ u[m] = o[2]
    BY <1>4
  <2>2. m \in Nat /\ m <= size + Len(opened) - 1
    BY <1>4, <2>1
  <2>3. m \in {s["stdout_bak"], s["stdin_bak"], s["inFile"]}
    BY <1>5, <2>1
  <2>4. m \in 0 .. LastFd(w)
    BY <1>1, <1>2, <1>3, <2>2
  <2> QED
    BY <1>5, <2>1, <2>3, <2>4
<1> HIDE DEF O
<1>7. Cardinality(DOMAIN u) <= size + 3
  <2> DEFINE one == DOMAIN t \cup {s["stdout_bak"]}
             two == one \cup {s["stdin_bak"]}
  <2>0. more = two \cup {s["inFile"]}
    OBVIOUS
  <2>1. IsFiniteSet(one) /\ Cardinality(one) <= size + 1
    BY <1>1, OneMore DEF size
  <2>4. DOMAIN u \subseteq more
    BY <1>6
  <2> HIDE DEF one, more
  <2>2. IsFiniteSet(two) /\ Cardinality(two) <= Cardinality(one) + 1
    BY <2>1, OneMore
  <2> HIDE DEF two
  <2>3. IsFiniteSet(more) /\ Cardinality(more) <= Cardinality(two) + 1
    BY <2>0, <2>2, OneMore
  <2>5. Cardinality(DOMAIN u) <= Cardinality(more) /\ IsFiniteSet(DOMAIN u)
    BY <2>3, <2>4, FS_Subset
  <2>6. /\ Cardinality(one) \in Nat /\ Cardinality(two) \in Nat
        /\ Cardinality(more) \in Nat /\ Cardinality(DOMAIN u) \in Nat
    BY <2>1, <2>2, <2>3, <2>5, FS_CardinalityType
  <2> QED
    BY <1>1, <2>1, <2>2, <2>3, <2>5, <2>6
<1>8. /\ DOMAIN new = DOMAIN u /\ new = [m \in DOMAIN u |-> new[m]]
      /\ new[0] = IF cmd.in = "Tin" /\ in_ok THEN <<"infile", k>> ELSE u[0]
      /\ \A m \in DOMAIN u \ {0} : new[m] = u[m]
  BY <1>1, <1>4 DEF InputOnto
<1> HIDE DEF new
<1>9. ASSUME NEW m \in DOMAIN new
      PROVE  new[m] = <<"infile", k>> \/ \E n \in DOMAIN t : new[m] = t[n]
  BY <1>1, <1>4, <1>6, <1>8
<1>10. IsTable(new, w)
  <2>1. <<"infile", k>> \in Entries(w)
    BY DEF Entries, Kinds, Commands
  <2>2. \A m \in DOMAIN new : new[m] \in Entries(w)
    BY <1>1, <1>9, <2>1
  <2>3. DOMAIN new \subseteq 0 .. LastFd(w)
    BY <1>1, <1>6, <1>8
  <2>4. 0 .. 2 = {0, 1, 2}
    OBVIOUS
  <2> QED
    BY <1>1, <1>4, <1>8, <2>2, <2>3, <2>4 DEF IsTable
<1>11. /\ new[0] = (IF cmd.in = "Tin" /\ in_ok THEN <<"infile", k>> ELSE t[0])
       /\ \A m \in DOMAIN t : m \in DOMAIN new /\ (m # 0 => new[m] = t[m])
  BY <1>1, <1>4, <1>8
<1> QED
  BY <1>7, <1>8, <1>9, <1>10, <1>11 DEF new, u, size, opened

\* A shell that executes a command itself has a base for it.
LEMMA BaseForCommand ==
    ASSUME NEW t, NEW w, IsBase(t, w), NEW k, NEW cmd, ~NeedsStage(cmd)
    PROVE  ForCommand(t, cmd, k, w)
BY DEF IsBase, ForCommand, NeedsStage, UsesPipes

LEMMA OpensItsFiles ==
    ASSUME NEW t, NEW w, w.failures \in Nat,
           NEW k \in Commands, NEW cmd, IsCommand(cmd), NEW in_ok \in BOOLEAN,
           ForCommand(t, cmd, k, w)
    PROVE  LET opened == Opened(t, cmd, k, in_ok)
               s == Locals(t, opened)
               new == OutputOnto(InputOnto(WithOpened(t, opened), cmd, k, in_ok), cmd, k)
           IN  /\ Redirected(new, cmd, k, w) /\ IsSaved(new, s, cmd)
               /\ Restored(new, s, cmd) = t
               /\ s \in [DOMAIN NoSaved -> -1 .. LastFd(w)]
               /\ ~Piped(cmd.in) => IF s["inFile"] # None THEN new[0] = <<"infile", k>>
                                    ELSE Inherited(new[0], w)
<1> DEFINE opened == Opened(t, cmd, k, in_ok)
           s == Locals(t, opened)
           new == OutputOnto(InputOnto(WithOpened(t, opened), cmd, k, in_ok), cmd, k)
<1>1. IsTable(t, w) /\ IsSmall(t, w) /\ UsesPipes(t, cmd, k)
  BY DEF ForCommand
<1>2. /\ IsTable(new, w) /\ s \in [DOMAIN NoSaved -> -1 .. LastFd(w)]
      /\ IsSaved(new, s, cmd) /\ Restored(new, s, cmd) = t
      /\ new[0] = (IF cmd.in = "Tin" /\ in_ok THEN <<"infile", k>> ELSE t[0])
      /\ new[1] = (IF ToFile(cmd.out) THEN <<"outfile", k>> ELSE t[1])
      /\ s["inFile"] # None <=> cmd.in = "Tin" /\ in_ok
      /\ \A m \in DOMAIN new :
           \/ new[m] \in {<<"infile", k>>, <<"outfile", k>>}
           \/ \E n \in DOMAIN t : new[m] = t[n]
  BY <1>1, Redirecting
<1> HIDE DEF new, s
<1>3. UsesPipes(new, cmd, k)
  <2> SUFFICES ASSUME NEW m \in DOMAIN new
               PROVE  /\ new[m][1] = "read" => Piped(cmd.in) /\ new[m][2] = k - 1
                      /\ new[m][1] = "write" => Piped(cmd.out) /\ new[m][2] = k
    BY DEF UsesPipes
  <2>1. CASE new[m] \in {<<"infile", k>>, <<"outfile", k>>}
    BY <2>1
  <2>2. CASE \E n \in DOMAIN t : new[m] = t[n]
    BY <1>1, <2>2 DEF UsesPipes
  <2> QED
    BY <1>2, <2>1, <2>2
<1>4. ReadsFrom(new[0], cmd, k, w)
  <2>1. CASE Piped(cmd.in)
    <3>1. cmd.in # "Tin"
      BY <2>1 DEF Piped
    <3> QED
      BY <1>2, <2>1, <3>1 DEF ForCommand, ReadsFrom
  <2>2. CASE ~Piped(cmd.in)
    BY <1>2, <2>2 DEF ForCommand, ReadsFrom
  <2> QED
    BY <2>1, <2>2
<1>5. new[1] = Goes(cmd, k)
  BY <1>2 DEF ForCommand, Goes
<1>6. ~Piped(cmd.in) => IF s["inFile"] # None THEN new[0] = <<"infile", k>>
                        ELSE Inherited(new[0], w)
  BY <1>2 DEF ForCommand
<1> QED
  BY <1>2, <1>3, <1>4, <1>5, <1>6 DEF Redirected, new, s

\* An output file that cannot be opened leaves the shell with a base again, but
\* one for which a redirection has failed; ...
LEMMA FailsInShell ==
    ASSUME NEW t, NEW w, w.failures \in Nat, IsBase(t, w),
           NEW v, v.failures = w.failures + 1, v.rc = w.rc, v.ushrc = w.ushrc,
           NEW k \in Commands, NEW cmd, NEW in_ok \in BOOLEAN
    PROVE  LET new == InputOnto(WithOpened(t, OpensInput(t, cmd, k, in_ok)), cmd, k, in_ok)
           IN  IsBase(new, v)
<1> DEFINE new == InputOnto(WithOpened(t, OpensInput(t, cmd, k, in_ok)), cmd, k, in_ok)
<1>1. IsTable(t, w) /\ IsSmall(t, w)
  BY DEF IsBase
<1>2. /\ IsTable(new, w)
      /\ Cardinality(DOMAIN new) <= Cardinality(DOMAIN t) + 3
      /\ new[0] = (IF cmd.in = "Tin" /\ in_ok THEN <<"infile", k>> ELSE t[0])
      /\ \A m \in DOMAIN t : m \in DOMAIN new /\ (m # 0 => new[m] = t[m])
      /\ \A m \in DOMAIN new :
           new[m] = <<"infile", k>> \/ \E n \in DOMAIN t : new[m] = t[n]
  BY <1>1, Failing
<1> HIDE DEF new
<1>3. IsTable(new, v)
  <2>1. Entries(v) = Entries(w)
    BY DEF Entries
  <2>2. 0 .. LastFd(w) \subseteq 0 .. LastFd(v)
    BY DEF LastFd
  <2> QED
    BY <1>2, <2>1, <2>2 DEF IsTable
<1>4. IsSmall(new, v)
  <2>1. Cardinality(DOMAIN new) \in Nat /\ Cardinality(DOMAIN t) \in Nat
    BY <1>1, <1>2, TableIsFinite
  <2> QED
    BY <1>1, <1>2, <2>1 DEF IsSmall
<1>5. Inherited(new[0], v)
  BY <1>2 DEF Inherited, IsBase
<1>6. 0 \in DOMAIN t /\ 1 \in DOMAIN t /\ 2 \in DOMAIN t /\ 0 .. 2 = {0, 1, 2}
  BY <1>1 DEF IsTable
<1>7. new[1] = <<"stdout", 0>> /\ new[2] = <<"stderr", 0>>
  BY <1>2, <1>6 DEF IsBase
<1>8. \A m \in DOMAIN new : new[m][1] \notin {"read", "write"}
  <2> TAKE m \in DOMAIN new
  <2>1. CASE new[m] = <<"infile", k>>
    BY <2>1
  <2>2. CASE \E n \in DOMAIN t : new[m] = t[n]
    BY <2>2 DEF IsBase
  <2> QED
    BY <1>2, <2>1, <2>2
<1>9. KeepsUshrc(new, v)
  BY <1>2, <1>6 DEF IsBase, KeepsUshrc
<1> QED
  BY <1>3, <1>4, <1>5, <1>7, <1>8, <1>9 DEF IsBase, new

\* ... in a stage, the pipes stay where they are.
LEMMA FailsInStage ==
    ASSUME NEW t, NEW w, w.failures \in Nat,
           NEW k \in Commands, NEW cmd, NEW in_ok \in BOOLEAN, ForCommand(t, cmd, k, w)
    PROVE  LET new == InputOnto(WithOpened(t, OpensInput(t, cmd, k, in_ok)), cmd, k, in_ok)
           IN  IsTable(new, w) /\ UsesPipes(new, cmd, k)
<1> DEFINE new == InputOnto(WithOpened(t, OpensInput(t, cmd, k, in_ok)), cmd, k, in_ok)
<1>1. IsTable(t, w) /\ IsSmall(t, w) /\ UsesPipes(t, cmd, k)
  BY DEF ForCommand
<1>2. /\ IsTable(new, w)
      /\ Cardinality(DOMAIN new) <= Cardinality(DOMAIN t) + 3
      /\ new[0] = (IF cmd.in = "Tin" /\ in_ok THEN <<"infile", k>> ELSE t[0])
      /\ \A m \in DOMAIN t : m \in DOMAIN new /\ (m # 0 => new[m] = t[m])
      /\ \A m \in DOMAIN new :
           new[m] = <<"infile", k>> \/ \E n \in DOMAIN t : new[m] = t[n]
  BY <1>1, Failing
<1> HIDE DEF new
<1>3. UsesPipes(new, cmd, k)
  <2> SUFFICES ASSUME NEW m \in DOMAIN new
               PROVE  /\ new[m][1] = "read" => Piped(cmd.in) /\ new[m][2] = k - 1
                      /\ new[m][1] = "write" => Piped(cmd.out) /\ new[m][2] = k
    BY DEF UsesPipes
  <2>1. CASE new[m] = <<"infile", k>>
    BY <2>1
  <2>2. CASE \E n \in DOMAIN t : new[m] = t[n]
    BY <1>1, <2>2 DEF UsesPipes
  <2> QED
    BY <1>2, <2>1, <2>2
<1> QED
  BY <1>2, <1>3 DEF new

-----------------------------------------------------------------------------
(***************************************************************************)
(* The pipes of parsePipe.                                                 *)
(***************************************************************************)
\* The table t is b and the numbers in X.
Adds(t, b, X) ==
    /\ DOMAIN t = DOMAIN b \cup X /\ DOMAIN b \cap X = {}
    /\ t = [m \in DOMAIN t |-> t[m]] /\ b = [m \in DOMAIN b |-> b[m]]
    /\ \A m \in DOMAIN b : t[m] = b[m]

LEMMA CloseAdds ==
    ASSUME NEW t, t = [m \in DOMAIN t |-> t[m]], NEW X, X \subseteq DOMAIN t
    PROVE  Adds(t, Close(t, X), X)
BY DEF Adds, Close, Restrict

LEMMA AddsClose ==
    ASSUME NEW t, NEW b, NEW X, Adds(t, b, X)
    PROVE  Close(t, X) = b
<1>1. Close(t, X) = [m \in DOMAIN b |-> t[m]]
  <2>1. DOMAIN t \ X = DOMAIN b
    BY DEF Adds
  <2> QED
    BY <2>1 DEF Close, Restrict
<1> QED
  BY <1>1 DEF Adds

LEMMA TablesGrow ==
    ASSUME NEW t, NEW b, NEW X, NEW w, IsTable(b, w), Adds(t, b, X), X \subseteq 0 .. LastFd(w),
           \A m \in X : t[m] \in Entries(w)
    PROVE  IsTable(t, w)
BY DEF Adds, IsTable

LEMMA PipeIs ==
    ASSUME NEW t, DOMAIN t \subseteq Nat, IsFiniteSet(DOMAIN t),
           t = [m \in DOMAIN t |-> t[m]], NEW k
    PROVE  LET f == Free(t, 1)
               g == Free(t, 2)
               u == WithPipe(t, k)
           IN  /\ f # g /\ {f, g} \subseteq Nat
               /\ f <= Cardinality(DOMAIN t) + 1 /\ g <= Cardinality(DOMAIN t) + 1
               /\ Adds(u, t, {f, g}) /\ u[f] = <<"read", k>> /\ u[g] = <<"write", k>>
<1> DEFINE f == Free(t, 1)
           g == Free(t, 2)
           a == With(t, f, <<"read", k>>)
           u == With(a, g, <<"write", k>>)
<1>1. /\ f \in Nat \ DOMAIN t /\ g \in Nat \ DOMAIN t
      /\ f <= Cardinality(DOMAIN t) + 1 - 1 /\ g <= Cardinality(DOMAIN t) + 2 - 1
  <2>1. 1 \in Nat \ {0} /\ 2 \in Nat \ {0}
    OBVIOUS
  <2> QED
    BY <2>1, FreeIs
<1>2. f # g
  <2>1. Free(t, 1) = Free(t, 2) => 1 = 2
    <3>1. 1 \in Nat \ {0} /\ 2 \in Nat \ {0}
      OBVIOUS
    <3> QED
      BY <3>1, FreeDiffer
  <2> QED
    BY <2>1
<1>3. Cardinality(DOMAIN t) \in Nat
  BY FS_CardinalityType
<1> HIDE DEF f, g
<1>4. /\ DOMAIN a = DOMAIN t \cup {f} /\ a[f] = <<"read", k>>
      /\ \A m \in DOMAIN t \ {f} : a[m] = t[m]
  BY DEF With
<1> HIDE DEF a
<1>5. /\ DOMAIN u = DOMAIN a \cup {g} /\ u[g] = <<"write", k>>
      /\ \A m \in DOMAIN a \ {g} : u[m] = a[m]
      /\ u = [m \in DOMAIN u |-> u[m]]
  BY DEF With
<1> HIDE DEF u
<1>6. Adds(u, t, {f, g}) /\ u[f] = <<"read", k>> /\ u[g] = <<"write", k>>
  BY <1>1, <1>2, <1>4, <1>5 DEF Adds
<1>7. WithPipe(t, k) = u
  BY DEF WithPipe, u, a, f, g
<1> QED
  BY <1>1, <1>2, <1>3, <1>6, <1>7 DEF f, g

\* The ends of the pipe before a command are closed but for standard input; those
\* of the pipe after it but for standard output, and standard error for |&.
LEMMA FromPipeIs ==
    ASSUME NEW t, NEW b, NEW e, e.old_flag, 0 \in DOMAIN b,
           Adds(t, b, {e.old[1], e.old[2]})
    PROVE  LET r == FromPipe(t, e)
           IN  /\ DOMAIN r = DOMAIN b /\ r = [m \in DOMAIN r |-> r[m]]
               /\ r[0] = t[e.old[1]] /\ \A m \in DOMAIN b \ {0} : r[m] = b[m]
<1> DEFINE from == e.old[1]
           X == {e.old[1], e.old[2]}
           d == Dup2(t, from, 0)
           r == Close(d, X)
<1>1. /\ from \in DOMAIN t /\ 0 \in DOMAIN t /\ 0 \notin X
      /\ DOMAIN t \ X = DOMAIN b /\ \A m \in DOMAIN b : t[m] = b[m]
  BY DEF Adds
<1>2. /\ DOMAIN d = DOMAIN t /\ d[0] = t[from]
      /\ \A m \in DOMAIN t \ {0} : d[m] = t[m]
  BY <1>1 DEF Dup2, With
<1> HIDE DEF d
<1>3. /\ DOMAIN r = DOMAIN d \ X /\ r = [m \in DOMAIN r |-> r[m]]
      /\ \A m \in DOMAIN r : r[m] = d[m]
  BY DEF Close, Restrict
<1>4. FromPipe(t, e) = r
  BY DEF FromPipe, d
<1> HIDE DEF r
<1>5. DOMAIN r = DOMAIN b
  BY <1>1, <1>2, <1>3
<1>6. r[0] = t[from]
  BY <1>2, <1>3, <1>5
<1>7. \A m \in DOMAIN b \ {0} : r[m] = b[m]
  BY <1>1, <1>2, <1>3, <1>5
<1> QED
  BY <1>3, <1>4, <1>5, <1>6, <1>7

LEMMA IntoPipeIs ==
    ASSUME NEW t, NEW b, NEW e, NEW out, Piped(out), 1 \in DOMAIN b, 2 \in DOMAIN b,
           e.new[1] # e.new[2], Adds(t, b, {e.new[1], e.new[2]})
    PROVE  LET r == IntoPipe(t, e, out)
           IN  /\ DOMAIN r = DOMAIN b /\ r = [m \in DOMAIN r |-> r[m]]
               /\ r[1] = t[e.new[2]] /\ r[2] \in {b[2], t[e.new[2]]}
               /\ \A m \in DOMAIN b \ {1, 2} : r[m] = b[m]
<1> DEFINE f == e.new[1]
           g == e.new[2]
           z == Close(t, {f})
           a == Dup2(z, g, 1)
           d == IF out = "TpipeErr" THEN Dup2(a, g, 2) ELSE a
           r == Close(d, {g})
<1>1. /\ g \in DOMAIN t /\ f \in DOMAIN t /\ {f, g} \cap DOMAIN b = {}
      /\ DOMAIN t = DOMAIN b \cup {f, g} /\ \A m \in DOMAIN b : t[m] = b[m]
  BY DEF Adds
<1>2. IntoPipe(t, e, out) = r
  BY DEF IntoPipe
<1> HIDE DEF f, g
<1>3. f # g
  BY DEF f, g
<1>4. /\ DOMAIN z = DOMAIN t \ {f} /\ \A m \in DOMAIN z : z[m] = t[m]
  BY DEF Close, Restrict
<1> HIDE DEF z
<1>5. g \in DOMAIN z /\ 1 \in DOMAIN z /\ 2 \in DOMAIN z /\ g # 1 /\ g # 2
  BY <1>1, <1>3, <1>4
<1>6. /\ DOMAIN a = DOMAIN z /\ a[1] = z[g]
      /\ \A m \in DOMAIN z \ {1} : a[m] = z[m]
  BY <1>5 DEF Dup2, With
<1> HIDE DEF a
<1>7. /\ DOMAIN d = DOMAIN z /\ d[1] = z[g] /\ d[2] \in {z[2], z[g]}
      /\ \A m \in DOMAIN z \ {1, 2} : d[m] = z[m]
  <2>1. CASE out = "TpipeErr"
    <3>1. d = With(a, 2, a[g])
      BY <1>5, <1>6, <2>1 DEF Dup2
    <3> QED
      BY <1>5, <1>6, <3>1 DEF With
  <2>2. CASE out # "TpipeErr"
    BY <1>5, <1>6, <2>2
  <2> QED
    BY <2>1, <2>2
<1> HIDE DEF d
<1>8. /\ DOMAIN r = DOMAIN d \ {g} /\ r = [m \in DOMAIN r |-> r[m]]
      /\ \A m \in DOMAIN r : r[m] = d[m]
  BY DEF Close, Restrict
<1> HIDE DEF r
<1>9. DOMAIN r = DOMAIN b
  BY <1>1, <1>3, <1>4, <1>7, <1>8
<1>10. r[1] = t[g] /\ r[2] \in {b[2], t[g]}
  BY <1>1, <1>4, <1>5, <1>7, <1>8, <1>9
<1>11. \A m \in DOMAIN b \ {1, 2} : r[m] = b[m]
  BY <1>1, <1>4, <1>7, <1>8, <1>9
<1> QED
  BY <1>2, <1>8, <1>9, <1>10, <1>11 DEF g

\* What a stage has, once the ends of pipes are where it uses them.
LEMMA StageTable ==
    ASSUME NEW b, NEW w, IsBase(b, w), NEW k \in Commands, NEW cmd,
           NEW r, DOMAIN r = DOMAIN b, r = [m \in DOMAIN r |-> r[m]],
           r[0] = (IF Piped(cmd.in) THEN <<"read", k - 1>> ELSE b[0]),
           r[1] = (IF Piped(cmd.out) THEN <<"write", k>> ELSE b[1]),
           r[2] = b[2] \/ (Piped(cmd.out) /\ r[2] = <<"write", k>>),
           \A m \in DOMAIN b \ {0, 1, 2} : r[m] = b[m]
    PROVE  ForCommand(r, cmd, k, w)
<1>1. /\ IsTable(b, w) /\ IsSmall(b, w) /\ b[1] = <<"stdout", 0>> /\ Inherited(b[0], w)
      /\ \A m \in DOMAIN b : b[m][1] \notin {"read", "write"}
  BY DEF IsBase
<1>2. 0 \in DOMAIN b /\ 1 \in DOMAIN b /\ 2 \in DOMAIN b
  BY <1>1 DEF IsTable
<1>3. <<"read", k - 1>> \in Entries(w) /\ <<"write", k>> \in Entries(w)
  BY BoundsAssumption DEF Entries, Kinds, Commands
<1>4. \A m \in DOMAIN b : r[m] \in Entries(w)
  BY <1>1, <1>2, <1>3 DEF IsTable
<1>5. IsTable(r, w)
  BY <1>1, <1>4 DEF IsTable
<1>6. IsSmall(r, w)
  BY <1>1 DEF IsSmall
<1>7. UsesPipes(r, cmd, k)
  <2> SUFFICES ASSUME NEW m \in DOMAIN b
               PROVE  /\ r[m][1] = "read" => Piped(cmd.in) /\ r[m][2] = k - 1
                      /\ r[m][1] = "write" => Piped(cmd.out) /\ r[m][2] = k
    BY DEF UsesPipes
  <2>1. \/ r[m] = b[m] \/ (Piped(cmd.in) /\ r[m] = <<"read", k - 1>>)
        \/ (Piped(cmd.out) /\ r[m] = <<"write", k>>)
    <3>1. CASE m = 0
      BY <3>1
    <3>2. CASE m = 1
      BY <3>2
    <3>3. CASE m = 2
      BY <3>3
    <3>4. CASE m \notin {0, 1, 2}
      BY <3>4
    <3> QED
      BY <3>1, <3>2, <3>3, <3>4
  <2>2. b[m][1] # "read" /\ b[m][1] # "write"
    BY <1>1
  <2> QED
    BY <2>1, <2>2
<1> QED
  BY <1>1, <1>5, <1>6, <1>7 DEF ForCommand

LEMMA PairsOfEnds ==
    ASSUME NEW t, NEW k \in Commands, NEW x,
           {x[1], x[2]} \subseteq DOMAIN t, t[x[1]] = <<"read", k>>, t[x[2]] = <<"write", k>>,
           IsPaired(Close(t, {x[1], x[2]}))
    PROVE  IsPaired(t)
<1> SUFFICES ASSUME NEW j \in Commands, <<"write", j>> \in Range(t)
             PROVE  <<"read", j>> \in Range(t)
  BY DEF IsPaired
<1>1. PICK m \in DOMAIN t : t[m] = <<"write", j>>
  BY DEF Range
<1>2. CASE m = x[2]
  <2>1. j = k
    BY <1>1, <1>2
  <2> QED
    BY <2>1 DEF Range
<1>3. CASE m = x[1]
  BY <1>1, <1>3
<1>4. CASE m \notin {x[1], x[2]}
  <2> DEFINE d == Close(t, {x[1], x[2]})
  <2>1. DOMAIN d = DOMAIN t \ {x[1], x[2]} /\ \A n \in DOMAIN d : d[n] = t[n]
    BY DEF Close, Restrict
  <2> HIDE DEF d
  <2>2. <<"write", j>> \in Range(d)
    BY <1>1, <1>4, <2>1 DEF Range
  <2>3. <<"read", j>> \in Range(d)
    BY <2>2 DEF IsPaired, d
  <2> QED
    BY <2>1, <2>3 DEF Range
<1> QED
  BY <1>2, <1>3, <1>4

LEMMA BaseIsPaired ==
    ASSUME NEW t, NEW w, IsBase(t, w)
    PROVE  IsPaired(t)
<1>1. \A m \in DOMAIN t : t[m][1] # "write"
  BY DEF IsBase
<1> QED
  BY <1>1 DEF IsPaired, Range

\* The shell between two commands: a base, and the ends of the pipe before the
\* next command, if there is one.
OldBase(t, e) == IF e.old_flag THEN Close(t, {e.old[1], e.old[2]}) ELSE t
OldEnds(e) == IF e.old_flag THEN {e.old[1], e.old[2]} ELSE {}
BetweenCommands(t, e, k, w) ==
    /\ IsTable(t, w)
    /\ IF e.old_flag THEN HasEnds(t, e.old, k - 1, w) ELSE IsBase(t, w)

LEMMA OldBaseIs ==
    ASSUME NEW t, NEW w, w.failures \in Nat, NEW e, NEW k, BetweenCommands(t, e, k, w)
    PROVE  /\ IsBase(OldBase(t, e), w) /\ Adds(t, OldBase(t, e), OldEnds(e))
           /\ Cardinality(DOMAIN t) <= 7 + 3 * w.failures
<1> DEFINE b == OldBase(t, e)
<1>1. IsTable(t, w) /\ t = [m \in DOMAIN t |-> t[m]]
  BY DEF BetweenCommands, IsTable
<1>2. IsBase(b, w)
  BY DEF BetweenCommands, HasEnds, OldBase
<1>3. Adds(t, b, OldEnds(e))
  <2>1. CASE e.old_flag
    <3>1. {e.old[1], e.old[2]} \subseteq DOMAIN t
      BY <2>1 DEF BetweenCommands, HasEnds
    <3> QED
      BY <1>1, <2>1, <3>1, CloseAdds DEF OldBase, OldEnds
  <2>2. CASE ~e.old_flag
    BY <1>1, <2>2 DEF OldBase, OldEnds, Adds
  <2> QED
    BY <2>1, <2>2
<1> HIDE DEF b
<1>4. /\ IsFiniteSet(DOMAIN b) /\ Cardinality(DOMAIN b) \in Nat
      /\ Cardinality(DOMAIN b) <= 5 + 3 * w.failures
  <2>1. IsTable(b, w) /\ IsSmall(b, w)
    BY <1>2 DEF IsBase
  <2> QED
    BY <2>1, TableIsFinite DEF IsSmall
<1>5. Cardinality(DOMAIN t) \in Nat /\ IsFiniteSet(DOMAIN t)
  BY <1>1, TableIsFinite
<1>6. Cardinality(DOMAIN t) <= Cardinality(DOMAIN b) + 2
  <2> DEFINE one == DOMAIN b \cup {e.old[1]}
             two == one \cup {e.old[2]}
  <2>1. DOMAIN t \subseteq two
    BY <1>3 DEF Adds, OldEnds
  <2>2. IsFiniteSet(one) /\ Cardinality(one) <= Cardinality(DOMAIN b) + 1
    BY <1>4, OneMore
  <2> HIDE DEF one
  <2>3. IsFiniteSet(two) /\ Cardinality(two) <= Cardinality(one) + 1
    BY <2>2, OneMore
  <2>4. Cardinality(DOMAIN t) <= Cardinality(two)
    BY <2>1, <2>3, FS_Subset
  <2>5. Cardinality(one) \in Nat /\ Cardinality(two) \in Nat
    BY <2>2, <2>3, FS_CardinalityType
  <2> QED
    BY <1>4, <1>5, <2>2, <2>3, <2>4, <2>5
<1> QED
  BY <1>2, <1>3, <1>4, <1>5, <1>6 DEF b

LEMMA BetweenIsPaired ==
    ASSUME NEW t, NEW w, NEW e, NEW k \in Commands, e.old_flag => k - 1 \in Commands,
           BetweenCommands(t, e, k, w)
    PROVE  IsPaired(t)
<1>1. CASE e.old_flag
  <2>1. /\ {e.old[1], e.old[2]} \subseteq DOMAIN t
        /\ t[e.old[1]] = <<"read", k - 1>> /\ t[e.old[2]] = <<"write", k - 1>>
        /\ IsPaired(Close(t, {e.old[1], e.old[2]}))
    BY <1>1, BaseIsPaired DEF BetweenCommands, HasEnds
  <2> DEFINE j == k - 1
             x == e.old
  <2>2. /\ {x[1], x[2]} \subseteq DOMAIN t /\ t[x[1]] = <<"read", j>>
        /\ t[x[2]] = <<"write", j>> /\ IsPaired(Close(t, {x[1], x[2]})) /\ j \in Commands
    BY <1>1, <2>1
  <2> HIDE DEF j, x
  <2> QED
    BY <2>2, PairsOfEnds
<1>2. CASE ~e.old_flag
  BY <1>2, BaseIsPaired DEF BetweenCommands
<1> QED
  BY <1>1, <1>2

\* The last command of a pipe: the stage reads the pipe, the shell forgets it.
LEMMA ForkLast ==
    ASSUME NEW t, NEW w, w.failures \in Nat, NEW e, NEW k \in Commands, NEW cmd,
           e.old_flag <=> Piped(cmd.in), ~Piped(cmd.out), BetweenCommands(t, e, k, w)
    PROVE  /\ ForCommand(IntoPipe(FromPipe(t, e), e, cmd.out), cmd, k, w)
           /\ IsBase(KeptByShell(t, e), w)
<1> DEFINE b == OldBase(t, e)
           r == FromPipe(t, e)
<1>1. IsBase(b, w) /\ Adds(t, b, OldEnds(e))
  BY OldBaseIs
<1>2. KeptByShell(t, e) = b
  BY DEF KeptByShell, OldBase
<1>3. 0 \in DOMAIN b /\ 1 \in DOMAIN b /\ 2 \in DOMAIN b
  BY <1>1 DEF IsBase, IsTable
<1> HIDE DEF b
<1>4. /\ DOMAIN r = DOMAIN b /\ r = [m \in DOMAIN r |-> r[m]]
      /\ r[0] = (IF Piped(cmd.in) THEN <<"read", k - 1>> ELSE b[0])
      /\ \A m \in DOMAIN b \ {0} : r[m] = b[m]
  <2>1. CASE e.old_flag
    <3>1. /\ DOMAIN r = DOMAIN b /\ r = [m \in DOMAIN r |-> r[m]]
          /\ r[0] = t[e.old[1]] /\ \A m \in DOMAIN b \ {0} : r[m] = b[m]
      <4>1. Adds(t, b, {e.old[1], e.old[2]})
        BY <1>1, <2>1 DEF OldEnds
      <4> QED
        BY <1>3, <2>1, <4>1, FromPipeIs
    <3>2. t[e.old[1]] = <<"read", k - 1>>
      BY <2>1 DEF BetweenCommands, HasEnds
    <3> HIDE DEF r
    <3> QED
      BY <2>1, <3>1, <3>2
  <2>2. CASE ~e.old_flag
    <3>1. r = t /\ b = t
      BY <2>2 DEF FromPipe, OldBase, b
    <3>2. t = [m \in DOMAIN t |-> t[m]]
      BY <1>1 DEF Adds
    <3> HIDE DEF r
    <3> QED
      BY <2>2, <3>1, <3>2
  <2> QED
    BY <2>1, <2>2
<1> HIDE DEF r
<1>5. ForCommand(r, cmd, k, w)
  <2>1. r[1] = b[1] /\ r[2] = b[2] /\ \A m \in DOMAIN b \ {0, 1, 2} : r[m] = b[m]
    BY <1>3, <1>4
  <2> QED
    BY <1>1, <1>4, <2>1, StageTable
<1>6. IntoPipe(r, e, cmd.out) = r
  BY DEF IntoPipe
<1> QED
  BY <1>1, <1>2, <1>5, <1>6 DEF r

\* Another one: both get the new pipe, the stage to write, the shell to hand on.
LEMMA ForkWithPipe ==
    ASSUME NEW t, NEW w, w.failures \in Nat, NEW e, NEW k \in Commands, NEW cmd,
           e.old_flag <=> Piped(cmd.in), Piped(cmd.out), BetweenCommands(t, e, k, w),
           e.old_flag => k - 1 \in Commands,
           e.new = <<Free(t, 1), Free(t, 2)>>
    PROVE  LET u == WithPipe(t, k) IN
           /\ IsTable(u, w) /\ IsPaired(u)
           /\ ForCommand(IntoPipe(FromPipe(u, e), e, cmd.out), cmd, k, w)
           /\ HasEnds(KeptByShell(u, e), e.new, k, w)
           /\ e.old_flag => /\ {e.old[1], e.old[2]} \subseteq DOMAIN u
                            /\ u[e.old[1]] = <<"read", k - 1>>
                            /\ u[e.old[2]] = <<"write", k - 1>>
<1> DEFINE u == WithPipe(t, k)
           f == Free(t, 1)
           g == Free(t, 2)
           b == OldBase(t, e)
           X == OldEnds(e)
           h == KeptByShell(u, e)
           v == FromPipe(u, e)
           vb == [m \in DOMAIN b |-> v[m]]
           r == IntoPipe(v, e, cmd.out)
<1>1. /\ IsBase(b, w) /\ Adds(t, b, X) /\ Cardinality(DOMAIN t) <= 7 + 3 * w.failures
  BY OldBaseIs
<1>2. /\ IsTable(t, w) /\ t = [m \in DOMAIN t |-> t[m]]
      /\ DOMAIN t \subseteq Nat /\ IsFiniteSet(DOMAIN t) /\ Cardinality(DOMAIN t) \in Nat
  BY TableIsFinite DEF BetweenCommands, IsTable
<1>3. e.new[1] = f /\ e.new[2] = g
  OBVIOUS
<1>4. /\ f # g /\ {f, g} \subseteq Nat
      /\ f <= Cardinality(DOMAIN t) + 1 /\ g <= Cardinality(DOMAIN t) + 1
      /\ Adds(u, t, {f, g}) /\ u[f] = <<"read", k>> /\ u[g] = <<"write", k>>
  BY <1>2, PipeIs
<1>5. 0 \in DOMAIN b /\ 1 \in DOMAIN b /\ 2 \in DOMAIN b
  BY <1>1 DEF IsBase, IsTable
<1> HIDE DEF u, f, g, b
<1>6. IsTable(u, w)
  <2>1. {f, g} \subseteq 0 .. LastFd(w)
    BY <1>1, <1>2, <1>4 DEF LastFd
  <2>2. u[f] \in Entries(w) /\ u[g] \in Entries(w)
    BY <1>4 DEF Entries, Kinds, Commands
  <2> QED
    BY <1>2, <1>4, <2>1, <2>2, TablesGrow
<1>7. IsPaired(u)
  <2>1. IsPaired(t)
    BY BetweenIsPaired
  <2>2. Close(u, {f, g}) = t
    BY <1>4, AddsClose
  <2>3. {f, g} \subseteq DOMAIN u
    BY <1>4 DEF Adds
  <2> QED
    BY <1>3, <1>4, <2>1, <2>2, <2>3, PairsOfEnds
<1>8. Adds(h, b, {f, g}) /\ h[f] = <<"read", k>> /\ h[g] = <<"write", k>>
  <2>1. /\ DOMAIN h = DOMAIN u \ X /\ h = [m \in DOMAIN h |-> h[m]]
        /\ \A m \in DOMAIN h : h[m] = u[m]
    <3>1. CASE e.old_flag
      BY <3>1 DEF KeptByShell, OldEnds, Close, Restrict
    <3>2. CASE ~e.old_flag
      BY <1>4, <3>2 DEF KeptByShell, OldEnds, Adds
    <3> QED
      BY <3>1, <3>2
  <2> HIDE DEF h, X
  <2> QED
    BY <1>1, <1>4, <2>1 DEF Adds
<1>9. HasEnds(h, e.new, k, w)
  <2>1. Close(h, {f, g}) = b
    BY <1>8, AddsClose
  <2>2. {f, g} \subseteq DOMAIN h
    BY <1>8 DEF Adds
  <2> QED
    BY <1>1, <1>3, <1>4, <1>8, <2>1, <2>2 DEF HasEnds
<1>10. e.old_flag => /\ {e.old[1], e.old[2]} \subseteq DOMAIN u
                     /\ u[e.old[1]] = <<"read", k - 1>>
                     /\ u[e.old[2]] = <<"write", k - 1>>
  <2>1. e.old_flag => /\ {e.old[1], e.old[2]} \subseteq DOMAIN t
                      /\ t[e.old[1]] = <<"read", k - 1>>
                      /\ t[e.old[2]] = <<"write", k - 1>>
    BY DEF BetweenCommands, HasEnds
  <2> QED
    BY <1>4, <2>1 DEF Adds
<1>11. /\ DOMAIN v = DOMAIN b \cup {f, g} /\ v = [m \in DOMAIN v |-> v[m]]
       /\ v[0] = (IF Piped(cmd.in) THEN <<"read", k - 1>> ELSE b[0])
       /\ v[f] = <<"read", k>> /\ v[g] = <<"write", k>>
       /\ \A m \in DOMAIN b \ {0} : v[m] = b[m]
  <2>0. /\ DOMAIN h = DOMAIN b \cup {f, g} /\ h = [m \in DOMAIN h |-> h[m]]
        /\ h[0] = b[0] /\ h[f] = <<"read", k>> /\ h[g] = <<"write", k>>
        /\ f \in DOMAIN h \ DOMAIN b /\ g \in DOMAIN h \ DOMAIN b
        /\ \A m \in DOMAIN b : h[m] = b[m]
    BY <1>5, <1>8 DEF Adds
  <2>1. CASE e.old_flag
    <3>1. Adds(u, h, {e.old[1], e.old[2]})
      <4> DEFINE Y == {e.old[1], e.old[2]}
      <4>1. h = Close(u, Y) /\ Y \subseteq DOMAIN u
        BY <1>10, <2>1 DEF KeptByShell
      <4>2. u = [m \in DOMAIN u |-> u[m]]
        BY <1>4 DEF Adds
      <4> HIDE DEF Y, h
      <4>3. Adds(u, Close(u, Y), Y)
        BY <4>1, <4>2, CloseAdds
      <4> QED
        BY <4>1, <4>3 DEF Y
    <3> HIDE DEF h
    <3>2. 0 \in DOMAIN h
      BY <1>5, <2>0
    <3>3. /\ DOMAIN v = DOMAIN h /\ v = [m \in DOMAIN v |-> v[m]]
          /\ v[0] = u[e.old[1]] /\ \A m \in DOMAIN h \ {0} : v[m] = h[m]
      BY <2>1, <3>1, <3>2, FromPipeIs
    <3> HIDE DEF v
    <3>4. f # 0 /\ g # 0
      BY <1>5, <2>0
    <3> QED
      BY <1>10, <2>0, <2>1, <3>3, <3>4
  <2>2. CASE ~e.old_flag
    <3>1. v = u /\ h = u
      BY <2>2 DEF FromPipe, KeptByShell
    <3> HIDE DEF v, h
    <3> QED
      BY <2>0, <2>2, <3>1
  <2> QED
    BY <2>1, <2>2
<1> HIDE DEF v, h
<1>12. Adds(v, vb, {f, g})
  BY <1>8, <1>11 DEF Adds
<1>13. /\ DOMAIN vb = DOMAIN b /\ \A m \in DOMAIN b : vb[m] = v[m]
  OBVIOUS
<1> HIDE DEF vb
<1>14. /\ DOMAIN r = DOMAIN vb /\ r = [m \in DOMAIN r |-> r[m]]
       /\ r[1] = v[e.new[2]] /\ r[2] \in {vb[2], v[e.new[2]]}
       /\ \A m \in DOMAIN vb \ {1, 2} : r[m] = vb[m]
  <2>1. Adds(v, vb, {e.new[1], e.new[2]}) /\ e.new[1] # e.new[2]
    BY <1>3, <1>4, <1>12
  <2>2. 1 \in DOMAIN vb /\ 2 \in DOMAIN vb
    BY <1>5, <1>13
  <2> DEFINE out == cmd.out
             z == IntoPipe(v, e, out)
  <2>3. Piped(out)
    OBVIOUS
  <2> HIDE DEF out
  <2>4. /\ DOMAIN z = DOMAIN vb /\ z = [m \in DOMAIN z |-> z[m]]
        /\ z[1] = v[e.new[2]] /\ z[2] \in {vb[2], v[e.new[2]]}
        /\ \A m \in DOMAIN vb \ {1, 2} : z[m] = vb[m]
    BY ONLY <2>1, <2>2, <2>3, IntoPipeIs
  <2> QED
    BY <2>4 DEF out
<1> HIDE DEF r
<1>15. ForCommand(r, cmd, k, w)
  <2>1. /\ DOMAIN r = DOMAIN b /\ r[1] = <<"write", k>>
        /\ r[2] = b[2] \/ (Piped(cmd.out) /\ r[2] = <<"write", k>>)
        /\ r[0] = (IF Piped(cmd.in) THEN <<"read", k - 1>> ELSE b[0])
        /\ \A m \in DOMAIN b \ {0, 1, 2} : r[m] = b[m]
    BY <1>3, <1>5, <1>11, <1>13, <1>14
  <2> QED
    BY <1>1, <1>14, <2>1, StageTable
<1> QED
  BY <1>6, <1>7, <1>9, <1>10, <1>15 DEF u, h, r, v

-----------------------------------------------------------------------------
(***************************************************************************)
(* check_ushrc.                                                            *)
(***************************************************************************)
LEMMA TerminalIs ==
    /\ DOMAIN Terminal = 0 .. 2 /\ Terminal = [m \in 0 .. 2 |-> Terminal[m]]
    /\ Terminal[0] = <<"stdin", 0>> /\ Terminal[1] = <<"stdout", 0>>
    /\ Terminal[2] = <<"stderr", 0>>
BY DEF Terminal

LEMMA ThreeNumbers == IsFiniteSet(0 .. 2) /\ Cardinality(0 .. 2) = 3
<1> DEFINE a == 0
           b == 2
<1>1. a \in Int /\ b \in Int /\ a <= b
  OBVIOUS
<1> HIDE DEF a, b
<1>2. IsFiniteSet(a .. b) /\ Cardinality(a .. b) = (IF a > b THEN 0 ELSE b - a + 1)
  BY <1>1, FS_Interval
<1> QED
  BY <1>2 DEF a, b

LEMMA TerminalIsBase ==
    ASSUME NEW w, w.rc = NoRc, w.failures = 0
    PROVE  IsBase(Terminal, w)
<1>1. \A m \in 0 .. 2 : Terminal[m] \in Entries(w) /\ Terminal[m][1] \notin {"read", "write"}
  <2>1. 0 .. 2 = {0, 1, 2}
    OBVIOUS
  <2>2. {<<"stdin", 0>>, <<"stdout", 0>>, <<"stderr", 0>>} \subseteq Entries(w)
    BY BoundsAssumption DEF Entries, Kinds
  <2> QED
    BY <2>1, <2>2, TerminalIs
<1>2. IsTable(Terminal, w)
  <2>1. 0 .. 2 \subseteq 0 .. LastFd(w)
    BY DEF LastFd
  <2> QED
    BY <1>1, <2>1, TerminalIs DEF IsTable
<1>3. IsSmall(Terminal, w)
  BY ThreeNumbers, TerminalIs DEF IsSmall
<1>4. Inherited(Terminal[0], w)
  BY TerminalIs DEF Inherited
<1> QED
  BY <1>1, <1>2, <1>3, <1>4, TerminalIs DEF IsBase, KeepsUshrc

LEMMA UshrcOpened ==
    ASSUME NEW t, NEW w, w.failures = 0, w.ushrc,
           DOMAIN t = 0 .. 2, t = Terminal,
           w.rc = [ushrc_f |-> Free(t, 1), stdin_bak |-> Free(t, 2)]
    PROVE  /\ IsBase(With(With(With(t, Free(t, 1), <<"rc", 0>>), Free(t, 2), t[0]), 0, <<"rc", 0>>), w)
           /\ Free(t, 1) \in 0 .. 9 /\ Free(t, 2) \in 0 .. 9 /\ w.rc # NoRc
<1> DEFINE f == Free(t, 1)
           g == Free(t, 2)
           a == With(t, f, <<"rc", 0>>)
           d == With(a, g, t[0])
           u == With(d, 0, <<"rc", 0>>)
<1>1. /\ DOMAIN t = {0, 1, 2} /\ t[0] = <<"stdin", 0>> /\ t[1] = <<"stdout", 0>>
      /\ t[2] = <<"stderr", 0>> /\ 0 .. 2 = {0, 1, 2}
  BY TerminalIs
<1>2. IsFiniteSet(DOMAIN t) /\ Cardinality(DOMAIN t) = 3
  BY ThreeNumbers
<1>3. /\ f \in Nat \ DOMAIN t /\ g \in Nat \ DOMAIN t /\ f # g /\ f <= 3 /\ g <= 4
  <2>1. 1 \in Nat \ {0} /\ 2 \in Nat \ {0} /\ DOMAIN t \subseteq Nat
    BY <1>1
  <2>2. /\ f \in Nat \ DOMAIN t /\ g \in Nat \ DOMAIN t
        /\ f <= Cardinality(DOMAIN t) + 1 - 1 /\ g <= Cardinality(DOMAIN t) + 2 - 1
    BY <1>2, <2>1, FreeIs
  <2>3. f = g => 1 = 2
    BY <1>2, <2>1, FreeDiffer
  <2> QED
    BY <1>2, <2>2, <2>3
<1>4. w.rc.ushrc_f = f /\ w.rc.stdin_bak = g /\ w.rc # NoRc
  <2>1. w.rc.ushrc_f = f /\ w.rc.stdin_bak = g
    OBVIOUS
  <2> HIDE DEF f, g
  <2> QED
    BY <1>3, <2>1 DEF NoRc, None
<1> HIDE DEF f, g
<1>5. /\ DOMAIN a = DOMAIN t \cup {f} /\ a[f] = <<"rc", 0>>
      /\ \A m \in DOMAIN t \ {f} : a[m] = t[m]
  BY DEF With
<1> HIDE DEF a
<1>6. /\ DOMAIN d = DOMAIN a \cup {g} /\ d[g] = t[0]
      /\ \A m \in DOMAIN a \ {g} : d[m] = a[m]
  BY DEF With
<1> HIDE DEF d
<1>7. /\ DOMAIN u = DOMAIN d \cup {0} /\ u[0] = <<"rc", 0>>
      /\ \A m \in DOMAIN d \ {0} : u[m] = d[m]
      /\ u = [m \in DOMAIN u |-> u[m]]
  BY DEF With
<1> HIDE DEF u
<1>8. /\ DOMAIN u = {0, 1, 2, f, g} /\ u[0] = <<"rc", 0>> /\ u[1] = <<"stdout", 0>>
      /\ u[2] = <<"stderr", 0>> /\ u[f] = <<"rc", 0>> /\ u[g] = <<"stdin", 0>>
  <2>1. 1 \notin {f, g} /\ 2 \notin {f, g} /\ 0 \notin {f, g} /\ f \notin {0, 1, 2}
    BY <1>1, <1>3
  <2> QED
    BY <1>1, <1>3, <1>5, <1>6, <1>7, <2>1
<1>9. IsTable(u, w)
  <2>1. {<<"stdin", 0>>, <<"stdout", 0>>, <<"stderr", 0>>, <<"rc", 0>>} \subseteq Entries(w)
    BY BoundsAssumption DEF Entries, Kinds
  <2>2. {0, 1, 2, f, g} \subseteq 0 .. LastFd(w)
    BY <1>3 DEF LastFd
  <2>3. \A m \in DOMAIN u : u[m] \in Entries(w)
    BY <1>8, <2>1
  <2> QED
    BY <1>1, <1>7, <1>8, <2>2, <2>3 DEF IsTable
<1>10. IsSmall(u, w)
  <2> DEFINE one == DOMAIN t \cup {f}
             two == one \cup {g}
  <2>1. DOMAIN u = two
    BY <1>1, <1>8
  <2>2. IsFiniteSet(one) /\ Cardinality(one) <= 3 + 1 /\ Cardinality(one) \in Nat
    BY <1>2, OneMore, FS_CardinalityType
  <2> HIDE DEF one
  <2>3. IsFiniteSet(two) /\ Cardinality(two) <= Cardinality(one) + 1
    BY <2>2, OneMore
  <2>4. Cardinality(two) \in Nat
    BY <2>3, FS_CardinalityType
  <2> QED
    BY <2>1, <2>2, <2>3, <2>4 DEF IsSmall
<1>11. Inherited(u[0], w)
  BY <1>4, <1>8 DEF Inherited
<1>12. KeepsUshrc(u, w)
  BY <1>1, <1>3, <1>4, <1>8 DEF KeepsUshrc
<1>13. \A m \in DOMAIN u : u[m][1] \notin {"read", "write"}
  BY <1>8
<1>14. IsBase(u, w)
  BY <1>4, <1>8, <1>9, <1>10, <1>11, <1>12, <1>13 DEF IsBase
<1>15. f \in 0 .. 9 /\ g \in 0 .. 9
  BY <1>3
<1> QED
  BY <1>4, <1>14, <1>15 DEF u, d, a, f, g

LEMMA UshrcIsClosed ==
    ASSUME NEW t, NEW w, w.failures \in Nat, IsBase(t, w), w.rc # NoRc, w.rc = rc,
           NEW v, v.failures = w.failures, v.ushrc = w.ushrc, v.rc = NoRc
    PROVE  IsBase(UshrcClosed(t), v)
<1> DEFINE f == rc.ushrc_f
           g == rc.stdin_bak
           d == Dup2(t, g, 0)
           u == UshrcClosed(t)
<1>1. /\ IsTable(t, w) /\ IsSmall(t, w) /\ t[1] = <<"stdout", 0>> /\ t[2] = <<"stderr", 0>>
      /\ \A m \in DOMAIN t : t[m][1] \notin {"read", "write"}
      /\ {f, g} \subseteq DOMAIN t \ (0 .. 2) /\ t[g] = <<"stdin", 0>>
      /\ w.failures = 0 => DOMAIN t = (0 .. 2) \cup {f, g}
  BY DEF IsBase, KeepsUshrc
<1>2. 0 .. 2 = {0, 1, 2} /\ {0, 1, 2} \subseteq DOMAIN t
  BY <1>1 DEF IsTable
<1>3. /\ DOMAIN d = DOMAIN t /\ d[0] = t[g] /\ \A m \in DOMAIN t \ {0} : d[m] = t[m]
  BY <1>1, <1>2 DEF Dup2, With
<1>4. u = Close(d, {f, g})
  BY DEF UshrcClosed
<1> HIDE DEF d, u, f, g
<1>5. /\ DOMAIN u = DOMAIN d \ {f, g} /\ u = [m \in DOMAIN u |-> u[m]]
      /\ \A m \in DOMAIN u : u[m] = d[m]
  BY <1>4 DEF Close, Restrict
<1>6. /\ DOMAIN u = DOMAIN t \ {f, g} /\ {0, 1, 2} \subseteq DOMAIN u
      /\ u[0] = <<"stdin", 0>> /\ \A m \in DOMAIN u \ {0} : u[m] = t[m]
  BY <1>1, <1>2, <1>3, <1>5
<1>7. IsTable(u, v)
  <2>1. Entries(v) = Entries(w) /\ <<"stdin", 0>> \in Entries(w) /\ LastFd(v) = LastFd(w)
    BY BoundsAssumption DEF Entries, Kinds, LastFd
  <2>2. \A m \in DOMAIN u : u[m] \in Entries(w)
    BY <1>1, <1>6, <2>1 DEF IsTable
  <2> QED
    BY <1>1, <1>2, <1>5, <1>6, <2>1, <2>2 DEF IsTable
<1>8. IsSmall(u, v)
  <2>1. IsFiniteSet(DOMAIN t) /\ Cardinality(DOMAIN t) \in Nat
    BY <1>1, TableIsFinite
  <2>2. DOMAIN u \subseteq DOMAIN t
    BY <1>6
  <2>3. Cardinality(DOMAIN u) <= Cardinality(DOMAIN t) /\ Cardinality(DOMAIN u) \in Nat
    BY <2>1, <2>2, FS_Subset, FS_CardinalityType
  <2> QED
    BY <1>1, <2>1, <2>3 DEF IsSmall
<1>9. Inherited(u[0], v)
  BY <1>6 DEF Inherited
<1>10. /\ u[1] = <<"stdout", 0>> /\ u[2] = <<"stderr", 0>>
       /\ \A m \in DOMAIN u : u[m][1] \notin {"read", "write"}
  BY <1>1, <1>2, <1>6
<1>11. v.failures = 0 => u = Terminal
  <2> HAVE v.failures = 0
  <2>1. DOMAIN u = {0, 1, 2}
    BY <1>1, <1>2, <1>6
  <2>2. u = [m \in {0, 1, 2} |-> u[m]]
    BY <1>5, <2>1
  <2>3. Terminal = [m \in {0, 1, 2} |-> Terminal[m]]
    BY <1>2, TerminalIs
  <2> QED
    BY <1>6, <1>10, <2>2, <2>3, TerminalIs
<1> QED
  BY <1>7, <1>8, <1>9, <1>10, <1>11 DEF IsBase, KeepsUshrc, u

-----------------------------------------------------------------------------
(***************************************************************************)
(* Where the processes are.  A step moves the shell, the stage or the      *)
(* command, or starts or ends one of the last two.                         *)
(***************************************************************************)
LEMMA GotoIs ==
    ASSUME pc = [p \in Procs |-> pc[p]], NEW p \in Procs, NEW at, Goto(p, at)
    PROVE  /\ pc' = [q \in Procs |-> pc'[q]] /\ pc'[p] = at
           /\ \A q \in Procs \ {p} : pc'[q] = pc[q]
BY DEF Goto

LEMMA ProcsAre ==
    /\ Parents = {"shell", "stage"} /\ Procs = {"shell", "stage", "command"}
    /\ InCommand = {"parseCmd", "execute", "waitpid", "restore", "return"}
    /\ Executing = {"execute", "waitpid", "restore"}
BY DEF Procs, Parents, InCommand, Executing

LEMMA ShellMoves ==
    ASSUME ControlInv, NEW at, Goto("shell", at), pc["stage"] = "none",
           pc["shell"] # "waitpid", at \in ShellAt \ {"start", "forked", "wait", "waitpid"},
           at = "prompt" => rc' = NoRc,
           at = "rc" => rc' # NoRc,
           at = "parsed" => c' = 1,
           at \in InCommand =>
             c' <= Len(line') /\ ~NeedsStage(line'[c']) /\ line'[c'].prog # "end"
    PROVE  ControlInv'
<1>1. /\ pc' = [q \in Procs |-> pc'[q]] /\ pc'["shell"] = at
      /\ pc'["stage"] = pc["stage"] /\ pc'["command"] = pc["command"]
  <2>1. pc = [p \in Procs |-> pc[p]]
    BY DEF ControlInv
  <2> QED
    BY <2>1, GotoIs, ProcsAre
<1>2. pc["command"] = "none" /\ pc'["command"] = "none"
  BY <1>1, ProcsAre DEF ControlInv
<1>3. \A p \in Parents : pc'[p] # "waitpid"
  BY <1>1, ProcsAre
<1>4. pc'["shell"] \in ShellAt /\ pc'["stage"] \in StageAt /\ pc'["command"] \in CommandAt
  BY <1>1 DEF ControlInv
<1>5. /\ (pc'["stage"] # "none" <=> pc'["shell"] \in {"forked", "wait"})
      /\ (pc'["command"] # "none" <=> \E p \in Parents : pc'[p] = "waitpid")
  BY <1>1, <1>2, <1>3
<1> QED
  BY <1>1, <1>3, <1>4, <1>5 DEF ControlInv

Still == UNCHANGED <<rc, failed, line, c>>
LEMMA StageMoves ==
    ASSUME ControlInv, NEW at, Goto("stage", at), pc["stage"] # "none",
           pc["stage"] # "waitpid", at \in StageAt \ {"none", "waitpid"},
           UNCHANGED <<rc, line, c>>
    PROVE  ControlInv'
<1>1. /\ pc' = [q \in Procs |-> pc'[q]] /\ pc'["stage"] = at
      /\ pc'["shell"] = pc["shell"] /\ pc'["command"] = pc["command"]
  <2>1. pc = [p \in Procs |-> pc[p]]
    BY DEF ControlInv
  <2> QED
    BY <2>1, GotoIs, ProcsAre
<1>2. /\ pc["shell"] \in {"forked", "wait"} /\ pc["command"] = "none"
      /\ c <= Len(line) /\ NeedsStage(line[c])
  BY ProcsAre DEF ControlInv
<1>3. \A p \in Parents : pc'[p] # "waitpid"
  BY <1>1, <1>2, ProcsAre
<1>4. pc'["shell"] \in ShellAt /\ pc'["stage"] \in StageAt /\ pc'["command"] \in CommandAt
  BY <1>1 DEF ControlInv
<1>5. /\ (pc'["stage"] # "none" <=> pc'["shell"] \in {"forked", "wait"})
      /\ (pc'["command"] # "none" <=> \E p \in Parents : pc'[p] = "waitpid")
  BY <1>1, <1>2, <1>3
<1>6. pc'["shell"] \in {"forked", "wait"} /\ pc'["shell"] \notin InCommand
  BY <1>1, <1>2, ProcsAre
<1>7. c' <= Len(line') /\ NeedsStage(line'[c'])
  BY <1>2
<1> QED
  BY <1>1, <1>3, <1>4, <1>5, <1>6, <1>7 DEF ControlInv

LEMMA CommandMoves ==
    ASSUME ControlInv, NEW at, Goto("command", at), pc["command"] # "none",
           at \in CommandAt \ {"none"}, Still
    PROVE  ControlInv'
<1>1. /\ pc' = [q \in Procs |-> pc'[q]] /\ pc'["command"] = at
      /\ pc'["shell"] = pc["shell"] /\ pc'["stage"] = pc["stage"]
  <2>1. pc = [p \in Procs |-> pc[p]]
    BY DEF ControlInv
  <2> QED
    BY <2>1, GotoIs, ProcsAre
<1>2. \A p \in Parents : pc'[p] = pc[p]
  BY <1>1, ProcsAre
<1> QED
  BY <1>1, <1>2 DEF ControlInv, Still

\* The parent p waits for the command, and goes on.
LEMMA CommandStarts ==
    ASSUME ControlInv, NEW p \in Parents, pc[p] = "execute", External(line[c].prog),
           pc' = [pc EXCEPT ![p] = "waitpid", !["command"] = "execv"], Still
    PROVE  /\ ControlInv' /\ pc["command"] = "none"
           /\ pc'[p] = "waitpid" /\ pc'["command"] = "execv"
           /\ \A q \in Parents \ {p} : pc'[q] = pc[q]
<1>1. /\ pc' = [q \in Procs |-> pc'[q]] /\ pc'[p] = "waitpid" /\ pc'["command"] = "execv"
      /\ \A q \in Parents \ {p} : pc'[q] = pc[q]
  BY ProcsAre DEF ControlInv
<1>2. /\ p = "shell" => pc["stage"] = "none"
      /\ p = "stage" => pc["shell"] \in {"forked", "wait"}
  BY ProcsAre DEF ControlInv
<1>3. pc["command"] = "none"
  BY <1>2, ProcsAre DEF ControlInv
<1>4. CASE p = "shell"
  BY <1>1, <1>2, <1>3, <1>4, ProcsAre DEF ControlInv, Still, ShellAt, CommandAt, StageAt
<1>5. CASE p = "stage"
  BY <1>1, <1>2, <1>3, <1>5, ProcsAre DEF ControlInv, Still, StageAt, CommandAt
<1> QED
  BY <1>1, <1>3, <1>4, <1>5, ProcsAre

LEMMA CommandEnds ==
    ASSUME ControlInv, NEW p \in Parents, pc[p] = "waitpid",
           pc' = [pc EXCEPT ![p] = "restore", !["command"] = "none"], Still
    PROVE  /\ ControlInv'
           /\ pc'[p] = "restore" /\ pc'["command"] = "none"
           /\ \A q \in Parents \ {p} : pc'[q] = pc[q]
<1>1. /\ pc' = [q \in Procs |-> pc'[q]] /\ pc'[p] = "restore" /\ pc'["command"] = "none"
      /\ \A q \in Parents \ {p} : pc'[q] = pc[q]
  BY ProcsAre DEF ControlInv
<1>2. /\ p = "shell" => pc["stage"] = "none"
      /\ p = "stage" => pc["shell"] \in {"forked", "wait"}
  BY ProcsAre DEF ControlInv
<1>4. CASE p = "shell"
  BY <1>1, <1>2, <1>4, ProcsAre DEF ControlInv, Still, ShellAt, CommandAt, StageAt
<1>5. CASE p = "stage"
  BY <1>1, <1>2, <1>5, ProcsAre DEF ControlInv, Still, StageAt, CommandAt
<1> QED
  BY <1>1, <1>4, <1>5, ProcsAre

LEMMA StageStarts ==
    ASSUME ControlInv, pc["shell"] = "next", c <= Len(line), NeedsStage(line[c]),
           pc' = [pc EXCEPT !["shell"] = "forked", !["stage"] = "setup"], Still
    PROVE  /\ ControlInv'
           /\ pc'["shell"] = "forked" /\ pc'["stage"] = "setup" /\ pc'["command"] = "none"
<1>1. /\ pc' = [q \in Procs |-> pc'[q]] /\ pc'["shell"] = "forked"
      /\ pc'["stage"] = "setup" /\ pc'["command"] = pc["command"]
  BY ProcsAre DEF ControlInv
<1>2. pc["command"] = "none"
  BY ProcsAre DEF ControlInv
<1> QED
  BY <1>1, <1>2, ProcsAre DEF ControlInv, Still, ShellAt, StageAt, CommandAt

LEMMA StageEnds ==
    ASSUME ControlInv, pc["shell"] = "wait", pc["stage"] = "exited",
           pc' = [pc EXCEPT !["shell"] = "next", !["stage"] = "none"]
    PROVE  /\ ControlInv'
           /\ pc'["shell"] = "next" /\ pc'["stage"] = "none" /\ pc'["command"] = "none"
<1>1. /\ pc' = [q \in Procs |-> pc'[q]] /\ pc'["shell"] = "next"
      /\ pc'["stage"] = "none" /\ pc'["command"] = pc["command"]
  BY ProcsAre DEF ControlInv
<1>2. pc["command"] = "none"
  BY ProcsAre DEF ControlInv
<1> QED
  BY <1>1, <1>2, ProcsAre DEF ControlInv, ShellAt, StageAt, CommandAt

\* The command at hand.
LEMMA AtHand ==
    ASSUME IInv, c <= Len(line)
    PROVE  /\ c \in Commands /\ c \in DOMAIN line /\ IsCommand(line[c])
           /\ line[c].units \in Nat
           /\ Piped(line[c].in) => c - 1 \in Commands /\ line[c - 1].out = line[c].in
           /\ typed \in 1 .. MaxLines /\ Unit \in Units
<1>1. /\ WellFormed(line) /\ c \in 1 .. Len(line) + 1 /\ typed \in 0 .. MaxLines
      /\ line # <<>> => typed > 0
  BY DEF IInv, DataInv
<1>2. line \in Seq(Cmd) /\ Len(line) <= MaxCommands /\ Len(line) \in Nat /\ DOMAIN line = 1 .. Len(line)
  BY <1>1 DEF WellFormed
<1>3. c \in Commands /\ c \in DOMAIN line
  BY <1>1, <1>2, BoundsAssumption DEF Commands
<1>4. Piped(line[c].in) => c > 1 /\ line[c - 1].out = line[c].in
  BY <1>1, <1>3 DEF WellFormed
<1>5. line[c] \in Cmd
  BY <1>2, <1>3
<1>6. line # <<>>
  <2>1. line = <<>> => Len(line) = 0
    OBVIOUS
  <2> QED
    BY <1>1, <1>2, <2>1
<1>7. typed \in 1 .. MaxLines
  BY <1>1, <1>6, BoundsAssumption
<1>8. Unit \in Units
  BY <1>3, <1>7 DEF Unit, Units
<1>9. Piped(line[c].in) => c - 1 \in Commands /\ line[c - 1].out = line[c].in
  BY <1>1, <1>2, <1>3, <1>4, BoundsAssumption DEF Commands
<1> QED
  BY <1>3, <1>4, <1>5, <1>7, <1>8, <1>9 DEF IsCommand, Cmd

LEMMA WorldIs ==
    ASSUME IInv
    PROVE  /\ world.failures = failed["shell"] /\ world.failures \in Nat
           /\ world.rc = rc /\ world.ushrc = (input["rc"] # NoFile)
           /\ LastFd(world) = MaxFd
BY DEF IInv, DataInv, world, Parents, LastFd, MaxFd

\* check_ushrc opens two numbers.
LEMMA OpenUshrcIs ==
    ASSUME IInv, OpenUshrc, input["rc"] # NoFile
    PROVE  /\ Goto("shell", "rc") /\ IsBase(fds'["shell"], world')
           /\ rc' \in [ushrc_f : 0 .. 9, stdin_bak : 0 .. 9] /\ rc' # NoRc
<1> DEFINE t == fds["shell"]
           new == With(With(With(t, Free(t, 1), <<"rc", 0>>), Free(t, 2), t[0]), 0, <<"rc", 0>>)
           v == [rc |-> rc', failures |-> failed'["shell"], ushrc |-> input'["rc"] # NoFile]
<1>1. /\ pc["shell"] = "start" /\ Goto("shell", "rc") /\ UNCHANGED <<failed, input>>
      /\ fds' = [fds EXCEPT !["shell"] = new]
      /\ rc' = [ushrc_f |-> Free(t, 1), stdin_bak |-> Free(t, 2)]
  BY DEF OpenUshrc
<1>2. rc = NoRc /\ failed["shell"] = 0
  BY <1>1 DEF IInv, ControlInv
<1>3. t = Terminal
  <2>1. IsBase(t, world)
    BY <1>1 DEF IInv, TablesInv, ShellIs
  <2> QED
    BY <1>2, <2>1, WorldIs DEF IsBase
<1>4. /\ v.failures = 0 /\ v.ushrc /\ v.rc = [ushrc_f |-> Free(t, 1), stdin_bak |-> Free(t, 2)]
  BY <1>1, <1>2
<1>5. world' = v
  BY DEF world
<1> HIDE DEF v, t
<1>6. DOMAIN t = 0 .. 2
  BY <1>3, TerminalIs
<1>7. IsBase(new, v) /\ Free(t, 1) \in 0 .. 9 /\ Free(t, 2) \in 0 .. 9 /\ v.rc # NoRc
  BY <1>3, <1>4, <1>6, UshrcOpened
<1>8. fds'["shell"] = new
  <2>1. "shell" \in DOMAIN fds
    BY ProcsAre DEF IInv, TablesInv
  <2> QED
    BY <1>1, <2>1
<1> HIDE DEF new
<1> QED
  BY <1>1, <1>4, <1>5, <1>7, <1>8

LEMMA ControlKept ==
    ASSUME IInv, Next
    PROVE  ControlInv'
<1>0. /\ ControlInv /\ pc["shell"] \in ShellAt /\ pc["stage"] \in StageAt
      /\ pc["stage"] # "none" <=> pc["shell"] \in {"forked", "wait"}
      /\ pc["command"] # "none" <=> \E p \in Parents : pc[p] = "waitpid"
      /\ pc["shell"] \in InCommand =>
           c <= Len(line) /\ ~NeedsStage(line[c]) /\ line[c].prog # "end"
  BY DEF IInv, ControlInv
<1>a. /\ {"prompt", "rc", "parsed", "next", "parseCmd", "execute", "restore", "return", "exited"}
           \subseteq ShellAt \ {"start", "forked", "wait", "waitpid"}
      /\ {"parseCmd", "execute", "restore", "return", "exited"} \subseteq StageAt \ {"none", "waitpid"}
      /\ {"execute", "restore", "return", "parseCmd"} \subseteq InCommand
      /\ {"prompt", "rc", "parsed", "next", "exited"} \cap InCommand = {}
  BY DEF ShellAt, StageAt, InCommand
<1>1. CASE OpenUshrc
  <2>1. CASE input["rc"] = NoFile
    <3>1. Goto("shell", "prompt") /\ rc' = rc /\ pc["shell"] = "start" /\ rc = NoRc
      BY <1>1, <2>1, <1>0 DEF OpenUshrc, ControlInv
    <3> QED
      BY <1>0, <1>a, <3>1, ShellMoves
  <2>2. CASE input["rc"] # NoFile
    <3>1. Goto("shell", "rc") /\ rc' # NoRc /\ pc["shell"] = "start"
      BY <1>1, <2>2, OpenUshrcIs DEF OpenUshrc
    <3> QED
      BY <1>0, <1>a, <3>1, ShellMoves
  <2> QED
    BY <2>1, <2>2
<1>2. CASE LeaveUshrc
  <2>1. Goto("shell", "prompt") /\ rc' = NoRc /\ pc["shell"] = "parsed"
    BY <1>2 DEF LeaveUshrc
  <2> QED
    BY <1>0, <1>a, <2>1, ShellMoves
<1>3. CASE ExecuteLine
  <2>1. Goto("shell", "next") /\ pc["shell"] = "parsed"
    BY <1>3 DEF ExecuteLine
  <2> QED
    BY <1>0, <1>a, <2>1, ShellMoves
<1>4. ASSUME NEW l, Parsed(l) PROVE ControlInv'
  <2>1. Goto("shell", "parsed") /\ pc["shell"] \in {"prompt", "rc"} /\ c' = 1
    BY <1>4 DEF Parsed
  <2> QED
    BY <1>0, <1>a, <2>1, ShellMoves
<1>5. CASE (\E l \in Lines : ReadLine(l)) \/ ReadBuffered \/ ReadFile \/ ReadEnd
  BY <1>4, <1>5 DEF ReadLine, ReadBuffered, ReadFile, ReadEnd, Take
<1>6. CASE EndOfLine
  <2>1. /\ pc["shell"] = "next"
        /\ (Goto("shell", "prompt") /\ rc' = NoRc) \/ (Goto("shell", "rc") /\ rc' # NoRc)
    BY <1>6 DEF EndOfLine, source
  <2> QED
    BY <1>0, <1>a, <2>1, ShellMoves
<1>7. CASE EndOfInput
  <2>1. Goto("shell", "exited") /\ pc["shell"] = "next"
    BY <1>7 DEF EndOfInput, Exit, Goto, AtCommand
  <2> QED
    BY <1>0, <1>a, <2>1, ShellMoves
<1>8. CASE RunInShell
  <2>1. /\ Goto("shell", "parseCmd") /\ pc["shell"] = "next" /\ UNCHANGED <<line, c>>
        /\ c <= Len(line) /\ ~NeedsStage(line[c]) /\ line[c].prog # "end"
    BY <1>8 DEF RunInShell, AtCommand, session
  <2> QED
    BY <1>0, <1>a, <2>1, ShellMoves
<1>9. CASE ForkStage
  <2>1. /\ pc["shell"] = "next" /\ c <= Len(line) /\ NeedsStage(line[c]) /\ Still
        /\ pc' = [pc EXCEPT !["shell"] = "forked", !["stage"] = "setup"]
    BY <1>9 DEF ForkStage, AtCommand, session, source, Still
  <2> QED
    BY <1>0, <2>1, StageStarts
<1>10. CASE CloseOldEnds
  <2>1. /\ pc["shell"] = "forked" /\ Goto("shell", "wait") /\ Still
    BY <1>10 DEF CloseOldEnds, session, source, Still
  <2>2. /\ pc' = [q \in Procs |-> pc'[q]] /\ pc'["shell"] = "wait"
        /\ pc'["stage"] = pc["stage"] /\ pc'["command"] = pc["command"]
    BY <1>0, <2>1, GotoIs, ProcsAre DEF ControlInv
  <2> QED
    BY <1>0, <2>1, <2>2, ProcsAre DEF ControlInv, Still, ShellAt
<1>11. CASE WaitForStage
  BY <1>0, <1>11, StageEnds DEF WaitForStage
<1>12. CASE SetUpStage
  <2>1. Goto("stage", "parseCmd") /\ pc["stage"] = "setup" /\ UNCHANGED <<rc, line, c>>
    BY <1>12 DEF SetUpStage, session, source
  <2> QED
    BY <1>0, <1>a, <2>1, StageMoves
<1>13. ASSUME NEW p \in Parents, NEW at \in {"execute", "restore", "return", "exited"},
              Goto(p, at), pc[p] \in {"parseCmd", "execute", "restore", "return"},
              UNCHANGED <<rc, line, c>>
       PROVE  ControlInv'
  <2>1. CASE p = "shell"
    <3>1. pc["shell"] \in InCommand /\ pc["stage"] = "none"
      BY <1>0, <1>13, <2>1 DEF InCommand
    <3> QED
      BY <1>0, <1>a, <1>13, <2>1, <3>1, ShellMoves
  <2>2. CASE p = "stage"
    BY <1>0, <1>a, <1>13, <2>2, StageMoves
  <2> QED
    BY <2>1, <2>2, ProcsAre
<1>14. ASSUME NEW p \in Parents, ParseCmd(p) PROVE ControlInv'
  <2>1. CASE RedirectCommand(p)
    BY <1>13, <2>1 DEF RedirectCommand, session, source
  <2>2. CASE OutputOpenFails(p)
    BY <1>13, <2>2 DEF OutputOpenFails, session, source
  <2>3. CASE PrintOne(p)
    BY <1>13, <2>3 DEF PrintOne, session, source
  <2>4. CASE Logout(p)
    BY <1>13, <2>4 DEF Logout, Exit, Goto, SeekBack, session
  <2>5. CASE ForkCommand(p)
    <3>1. /\ pc[p] = "execute" /\ External(line[c].prog) /\ Still
          /\ pc' = [pc EXCEPT ![p] = "waitpid", !["command"] = "execv"]
      BY <2>5 DEF ForkCommand, session, source, Still
    <3> QED
      BY <1>0, <3>1, CommandStarts
  <2>6. CASE WaitForCommand(p)
    <3>1. /\ pc[p] = "waitpid" /\ Still
          /\ pc' = [pc EXCEPT ![p] = "restore", !["command"] = "none"]
      BY <2>6 DEF WaitForCommand, session, source, Still
    <3> QED
      BY <1>0, <3>1, CommandEnds
  <2>7. CASE RestoreAndFlush(p)
    BY <1>13, <2>7 DEF RestoreAndFlush, session, source
  <2> QED
    BY <1>14, <2>1, <2>2, <2>3, <2>4, <2>5, <2>6, <2>7 DEF ParseCmd
<1>15. CASE NextInShell
  <2>1. pc["shell"] = "return" /\ Goto("shell", "next")
    BY <1>15 DEF NextInShell
  <2> QED
    BY <1>0, <1>a, <2>1, ShellMoves
<1>16. CASE StageExits
  BY <1>13, <1>16, ProcsAre DEF StageExits, Exit, Goto, SeekBack, session
<1>17. CASE CommandStep
  <2>1. CASE WriteUnit \/ CopyUnit \/ CopyFile
    <3>1. pc' = pc /\ Still
      BY <2>1 DEF WriteUnit, CopyUnit, CopyFile, session, source, Still
    <3> QED
      BY <1>0, <3>1 DEF ControlInv, Still
  <2>2. CASE Execv
    <3>1. pc["command"] = "execv" /\ Goto("command", "running") /\ Still
      BY <2>2 DEF Execv, session, source, Still
    <3> QED
      BY <1>0, <3>1, CommandMoves DEF CommandAt
  <2>3. CASE ExecvFails \/ CommandExits
    <3>1. pc["command"] \in {"execv", "running"} /\ Goto("command", "exited") /\ Still
      BY <2>3 DEF ExecvFails, CommandExits, Exit, Goto, SeekBack, session, source, Still
    <3> QED
      BY <1>0, <3>1, CommandMoves DEF CommandAt
  <2> QED
    BY <1>17, <2>1, <2>2, <2>3 DEF CommandStep
<1> QED
  BY <1>1, <1>2, <1>3, <1>5, <1>6, <1>7, <1>8, <1>9, <1>10, <1>11, <1>12, <1>14, <1>15,
     <1>16, <1>17, ProcsAre DEF Next, ShellStep, StageStep

-----------------------------------------------------------------------------
(***************************************************************************)
(* Lines, files and what is left to write.                                 *)
(***************************************************************************)
LEMMA LeastOfTwo ==
    ASSUME NEW a \in Int, NEW b \in Int
    PROVE  Min({a, b}) \in {a, b} /\ Min({a, b}) <= a /\ Min({a, b}) <= b
<1>1. \E x \in {a, b} : \A y \in {a, b} : x <= y
  <2>1. a <= b \/ b <= a
    OBVIOUS
  <2> QED
    BY <2>1
<1> DEFINE P(x) == \A y \in {a, b} : x <= y
<1>2. Min({a, b}) = CHOOSE x \in {a, b} : P(x)
  BY DEF Min
<1> HIDE DEF P
<1>3. Min({a, b}) \in {a, b} /\ P(Min({a, b}))
  BY <1>1, <1>2 DEF P
<1> QED
  BY <1>3 DEF P

LEMMA FilledIs ==
    ASSUME IInv, NEW f \in FileNames, input[f] # NoFile, offset[f] < Len(input[f])
    PROVE  /\ Filled(f) \in Seq(FileNames \X Nat) /\ Filled(f) # <<>>
           /\ Len(Filled(f)) <= ReadAhead
           /\ Len(Filled(f)) \in Nat /\ offset[f] + Len(Filled(f)) <= Len(input[f])
           /\ \A x \in Range(Filled(f)) : input[x[1]] # NoFile /\ x[2] \in DOMAIN input[x[1]]
<1> DEFINE n == Min({ReadAhead, Len(input[f]) - offset[f]})
           q == [i \in 1 .. n |-> <<f, offset[f] + i>>]
<1>1. /\ input[f] \in Files /\ offset[f] \in Nat
      /\ ReadAhead \in Nat \ {0}
  BY BoundsAssumption DEF IInv, DataInv
<1>2. input[f] \in Seq(Seq(Cmd)) /\ Len(input[f]) \in Nat /\ DOMAIN input[f] = 1 .. Len(input[f])
  BY <1>1, LinesAssumption
<1>3. n \in Nat \ {0} /\ n <= ReadAhead /\ n <= Len(input[f]) - offset[f]
  <2>1. ReadAhead \in Int /\ Len(input[f]) - offset[f] \in Int
    BY <1>1, <1>2
  <2>2. /\ n \in {ReadAhead, Len(input[f]) - offset[f]}
        /\ n <= ReadAhead /\ n <= Len(input[f]) - offset[f]
    BY <2>1, LeastOfTwo
  <2> QED
    BY <1>1, <1>2, <2>2
<1>4. Filled(f) = q
  BY DEF Filled
<1> HIDE DEF n
<1>5. q \in Seq(FileNames \X Nat) /\ Len(q) = n /\ DOMAIN q = 1 .. n
  BY <1>1, <1>3
<1>6. q # <<>>
  <2>1. Len(<<>>) = 0
    OBVIOUS
  <2> QED
    BY <1>3, <1>5, <2>1
<1>7. ASSUME NEW x \in Range(q)
      PROVE  input[x[1]] # NoFile /\ x[2] \in DOMAIN input[x[1]]
  <2>1. PICK i \in 1 .. n : x = <<f, offset[f] + i>>
    BY <1>5 DEF Range
  <2>2. offset[f] + i \in 1 .. Len(input[f])
    <3> DEFINE a == offset[f]
               m == Len(input[f])
    <3>1. a \in Nat /\ m \in Nat /\ n \in Nat /\ n <= m - a
      BY <1>1, <1>2, <1>3
    <3> HIDE DEF a, m
    <3>2. a + i \in 1 .. m
      BY <3>1
    <3> QED
      BY <3>2 DEF a, m
  <2> QED
    BY <1>2, <2>1, <2>2
<1> HIDE DEF q
<1> QED
  BY <1>1, <1>2, <1>3, <1>4, <1>5, <1>6, <1>7

\* Steps after which no filter is running that was not, and nothing else moves.
LEMMA DataStill ==
    ASSUME DataInv, UNCHANGED <<interactive, sticky, eof, input, offset, ahead, rc, typed,
                                line, left, failed>>,
           c' \in 1 .. Len(line) + 1,
           pc'["command"] = "running" =>
             pc["command"] = "running" /\ c' = c /\ fds'["command"] = fds["command"]
    PROVE  DataInv'
<1>1. LeftInv'
  <2>1. CASE pc'["command"] = "running"
    <3>1. /\ pc["command"] = "running" /\ c' = c /\ fds'["command"] = fds["command"]
          /\ UNCHANGED <<line, input, offset, left>>
      BY <2>1
    <3>2. LeftInv
      BY DEF DataInv
    <3> QED
      BY <3>1, <3>2 DEF LeftInv, IsFile
  <2>2. CASE pc'["command"] # "running"
    BY <2>2 DEF LeftInv
  <2> QED
    BY <2>1, <2>2
<1>2. WellFormed(line') /\ (line' # <<>> => typed' > 0)
  BY DEF DataInv
<1> QED
  BY <1>1, <1>2 DEF DataInv, MaxFd, FileNames

\* parse() returns a line.
LEMMA ParsedKeeps ==
    ASSUME IInv, NEW l, Parsed(l), WellFormed(l),
           UNCHANGED <<interactive, sticky>>, eof' \in BOOLEAN,
           offset' \in [FileNames -> Nat],
           \A f \in FileNames : offset'[f] <= (IF input[f] = NoFile THEN 0 ELSE Len(input[f])),
           ahead' \in Seq(FileNames \X Nat), Len(ahead') < ReadAhead,
           \A x \in Range(ahead') : input[x[1]] # NoFile /\ x[2] \in DOMAIN input[x[1]]
    PROVE  DataInv'
<1>1. /\ pc["shell"] \in {"prompt", "rc"} /\ typed < MaxLines
      /\ line' = l /\ c' = 1 /\ typed' = typed + 1 /\ Goto("shell", "parsed")
      /\ UNCHANGED <<left, failed, input, rc>>
  BY DEF Parsed
<1>2. pc'["command"] = "none"
  <2>1. pc["command"] = "none"
    BY <1>1, ProcsAre DEF IInv, ControlInv
  <2> QED
    BY <1>1, <2>1, GotoIs, ProcsAre DEF IInv, ControlInv
<1>3. LeftInv'
  BY <1>2 DEF LeftInv
<1>4. typed' \in 0 .. MaxLines /\ typed' > 0 /\ c' \in 1 .. Len(line') + 1
  <2>1. typed \in 0 .. MaxLines
    BY DEF IInv, DataInv
  <2>2. Len(l) \in Nat
    BY DEF WellFormed
  <2> QED
    BY <1>1, <2>1, <2>2, BoundsAssumption
<1>5. /\ input' \in [FileNames -> Files \cup {NoFile}] /\ left' \in Nat
      /\ failed' \in [Parents -> Nat]
      /\ rc' \in [ushrc_f : -1 .. MaxFd', stdin_bak : -1 .. MaxFd']
      /\ interactive' \in BOOLEAN /\ sticky' \in BOOLEAN
  BY <1>1 DEF IInv, DataInv, MaxFd
<1> QED
  BY <1>1, <1>3, <1>4, <1>5 DEF DataInv

LEMMA EndLineIs == WellFormed(EndLine) /\ WellFormed(<<>>)
<1>1. WellFormed(<<>>)
  BY BoundsAssumption DEF WellFormed
<1>2. /\ EndLine \in Seq(Cmd) /\ Len(EndLine) = 1 /\ DOMAIN EndLine = {1}
      /\ EndLine[1] = [prog |-> "end", in |-> "Tnil", out |-> "Tnil", units |-> 1]
  <2> DEFINE r == [prog |-> "end", in |-> "Tnil", out |-> "Tnil", units |-> 1]
  <2>1. r \in Cmd
    BY DEF Cmd
  <2>2. EndLine = <<r>>
    BY DEF EndLine
  <2> HIDE DEF r
  <2>3. <<r>> \in Seq(Cmd) /\ Len(<<r>>) = 1 /\ DOMAIN <<r>> = {1} /\ <<r>>[1] = r
    BY <2>1
  <2> QED
    BY <2>2, <2>3 DEF r
<1> QED
  BY <1>1, <1>2, BoundsAssumption DEF WellFormed, Piped

LEMMA TableEntries ==
    ASSUME NEW t, NEW w, IsTable(t, w)
    PROVE  /\ {0, 1, 2} \subseteq DOMAIN t /\ \A m \in DOMAIN t : t[m] \in Entries(w)
           /\ t[0] \in Entries(w) /\ t[1] \in Entries(w) /\ t[2] \in Entries(w)
<1>1. {0, 1, 2} \subseteq DOMAIN t
  BY DEF IsTable
<1> QED
  BY <1>1 DEF IsTable

LEMMA FileIs ==
    ASSUME IInv, NEW d \in Entries(world), IsFile(d)
    PROVE  /\ d[1] \in FileNames /\ input[d[1]] # NoFile
           /\ offset[d[1]] \in Nat /\ offset[d[1]] <= Len(input[d[1]])
           /\ Len(input[d[1]]) \in Nat
<1>1. d[1] \in FileNames /\ input[d[1]] # NoFile
  BY WorldIs DEF Entries, IsFile, FileNames
<1>2. /\ input[d[1]] \in Files /\ offset[d[1]] \in Nat /\ offset[d[1]] <= Len(input[d[1]])
  BY <1>1 DEF IInv, DataInv
<1>3. Len(input[d[1]]) \in Nat
  BY <1>2, LinesAssumption
<1> QED
  BY <1>1, <1>2, <1>3

LEMMA ParsingKeeps ==
    ASSUME IInv, (\E l \in Lines : ReadLine(l)) \/ ReadBuffered \/ ReadFile \/ ReadEnd
    PROVE  DataInv'
<1>1. /\ interactive \in BOOLEAN /\ eof \in BOOLEAN /\ offset \in [FileNames -> Nat]
      /\ \A f \in FileNames : offset[f] <= (IF input[f] = NoFile THEN 0 ELSE Len(input[f]))
      /\ ahead \in Seq(FileNames \X Nat) /\ Len(ahead) < ReadAhead
      /\ \A x \in Range(ahead) : input[x[1]] # NoFile /\ x[2] \in DOMAIN input[x[1]]
      /\ input \in [FileNames -> Files \cup {NoFile}]
  BY DEF IInv, DataInv
<1>2. ASSUME NEW l, Parsed(l) PROVE UNCHANGED <<interactive, sticky>>
  BY <1>2 DEF Parsed
<1>3. ASSUME NEW f \in FileNames, input[f] # NoFile, NEW i \in DOMAIN input[f]
      PROVE  WellFormed(input[f][i])
  BY <1>1, <1>3, LinesAssumption
<1>4. ASSUME NEW l \in Lines, ReadLine(l) PROVE DataInv'
  <2>1. Parsed(l) /\ UNCHANGED <<offset, ahead, eof>> /\ WellFormed(l)
    BY <1>4, LinesAssumption DEF ReadLine
  <2> QED
    BY <1>1, <1>2, <2>1, ParsedKeeps
<1>5. CASE ReadEnd
  <2>1. Parsed(EndLine) /\ UNCHANGED <<offset, ahead>> /\ eof' = TRUE
    BY <1>5 DEF ReadEnd
  <2> QED
    BY <1>1, <1>2, <2>1, ParsedKeeps, EndLineIs
<1>6. CASE ReadBuffered
  <2>1. /\ ahead # <<>> /\ Parsed(input[ahead[1][1]][ahead[1][2]])
        /\ ahead' = Tail(ahead) /\ UNCHANGED <<offset, eof>>
    BY <1>6 DEF ReadBuffered, Take
  <2>2. /\ Head(ahead) \in FileNames \X Nat /\ Tail(ahead) \in Seq(FileNames \X Nat)
        /\ Len(Tail(ahead)) = Len(ahead) - 1 /\ Head(ahead) \in Range(ahead)
        /\ Range(Tail(ahead)) \subseteq Range(ahead)
    BY <1>1, <2>1, Dequeued
  <2>3. Head(ahead) = ahead[1]
    BY <1>1, <2>1
  <2>4. WellFormed(input[ahead[1][1]][ahead[1][2]])
    BY <1>1, <1>3, <2>2, <2>3
  <2>5. Len(ahead') < ReadAhead
    BY <1>1, <2>1, <2>2, BoundsAssumption
  <2> QED
    BY <1>1, <1>2, <2>1, <2>2, <2>4, <2>5, ParsedKeeps
<1>7. CASE ReadFile
  <2> DEFINE f == fds["shell"][0][1]
             q == Filled(f)
  <2>1. /\ pc["shell"] \in {"prompt", "rc"} /\ IsFile(fds["shell"][0])
        /\ offset[f] < Len(input[f])
        /\ Parsed(input[q[1][1]][q[1][2]]) /\ ahead' = Tail(q) /\ UNCHANGED eof
        /\ offset' = [offset EXCEPT ![f] = @ + Len(q)]
    BY <1>7 DEF ReadFile, Take
  <2>2. fds["shell"][0] \in Entries(world)
    <3>1. IsBase(fds["shell"], world)
      BY <2>1 DEF IInv, TablesInv, ShellIs
    <3> QED
      BY <3>1, TableEntries DEF IsBase
  <2>3. f \in FileNames /\ input[f] # NoFile
    BY <2>1, <2>2, FileIs
  <2> HIDE DEF f
  <2>4. /\ q \in Seq(FileNames \X Nat) /\ q # <<>> /\ Len(q) <= ReadAhead /\ Len(q) \in Nat
        /\ offset[f] + Len(q) <= Len(input[f])
        /\ \A x \in Range(q) : input[x[1]] # NoFile /\ x[2] \in DOMAIN input[x[1]]
    BY <2>1, <2>3, FilledIs
  <2> HIDE DEF q
  <2>5. /\ Head(q) \in FileNames \X Nat /\ Tail(q) \in Seq(FileNames \X Nat)
        /\ Len(Tail(q)) = Len(q) - 1 /\ Head(q) \in Range(q)
        /\ Range(Tail(q)) \subseteq Range(q)
    BY <2>4, Dequeued
  <2>6. Head(q) = q[1]
    BY <2>4
  <2>7. WellFormed(input[q[1][1]][q[1][2]])
    BY <1>3, <2>4, <2>5, <2>6
  <2>8. Len(ahead') < ReadAhead
    BY <2>1, <2>4, <2>5, BoundsAssumption
  <2>9. /\ offset' \in [FileNames -> Nat]
        /\ \A g \in FileNames : offset'[g] <= (IF input[g] = NoFile THEN 0 ELSE Len(input[g]))
    BY <1>1, <2>1, <2>3, <2>4
  <2> QED
    BY <1>1, <1>2, <2>1, <2>4, <2>5, <2>7, <2>8, <2>9, ParsedKeeps
<1> QED
  BY <1>4, <1>5, <1>6, <1>7

\* exit(0) gives lines back.
LEMMA SeekBackKeeps ==
    ASSUME IInv, NEW p \in Procs, SeekBack(p), UNCHANGED <<interactive, sticky, line, typed, c>>,
           UNCHANGED failed, left' \in Nat, pc'["command"] # "running"
    PROVE  DataInv'
<1> DEFINE d == fds[p][0]
<1>1. /\ offset' \in [FileNames -> Nat]
      /\ \A f \in FileNames : offset'[f] <= (IF input[f] = NoFile THEN 0 ELSE Len(input[f]))
  <2>1. /\ offset \in [FileNames -> Nat]
        /\ \A f \in FileNames : offset[f] <= (IF input[f] = NoFile THEN 0 ELSE Len(input[f]))
        /\ ahead \in Seq(FileNames \X Nat)
    BY DEF IInv, DataInv
  <2>2. Len(ahead) \in Nat
    BY <2>1
  <2>3. CASE GivesBack(d)
    <3>1. d[1] \in FileNames /\ offset[d[1]] >= Len(ahead)
      BY <2>3 DEF GivesBack, IsFile, FileNames
    <3>2. offset' = [offset EXCEPT ![d[1]] = @ - Len(ahead)]
      BY <2>3 DEF SeekBack
    <3> HIDE DEF d
    <3>3. \A f \in FileNames : offset'[f] \in Nat /\ offset'[f] <= offset[f]
      BY <2>1, <2>2, <3>1, <3>2
    <3>4. \A f \in FileNames : (IF input[f] = NoFile THEN 0 ELSE Len(input[f])) \in Nat
      <4> TAKE f \in FileNames
      <4>1. input[f] # NoFile => input[f] \in Files
        BY DEF IInv, DataInv
      <4> QED
        BY <4>1, LinesAssumption
    <3>5. \A f \in FileNames : offset'[f] <= (IF input[f] = NoFile THEN 0 ELSE Len(input[f]))
      <4> TAKE f \in FileNames
      <4> DEFINE most == IF input[f] = NoFile THEN 0 ELSE Len(input[f])
      <4>1. most \in Nat /\ offset[f] \in Nat /\ offset[f] <= most
        BY <2>1, <3>4
      <4>2. offset'[f] \in Nat /\ offset'[f] <= offset[f]
        BY <3>3
      <4> HIDE DEF most
      <4>3. offset'[f] <= most
        BY <4>1, <4>2
      <4> QED
        BY <4>3 DEF most
    <3>6. offset' \in [FileNames -> Nat]
      BY <2>1, <3>2, <3>3
    <3> QED
      BY <3>5, <3>6
  <2>4. CASE ~GivesBack(d)
    <3>1. offset' = offset
      BY <2>4 DEF SeekBack
    <3> QED
      BY <2>1, <3>1
  <2> QED
    BY <2>3, <2>4
<1>2. UNCHANGED <<input, ahead, eof, rc>>
  BY DEF SeekBack
<1>3. LeftInv'
  BY DEF LeftInv
<1> QED
  BY <1>1, <1>2, <1>3 DEF IInv, DataInv, MaxFd

\* A parent that executes a command has no command running.
LEMMA NoCommand ==
    ASSUME IInv, NEW p \in Parents, pc[p] \in InCommand \cup {"setup"}, pc[p] # "waitpid"
    PROVE  pc["command"] = "none" /\ c <= Len(line) /\ line[c].prog # "end"
<1>1. pc["command"] = "none"
  <2>1. /\ pc["stage"] # "none" <=> pc["shell"] \in {"forked", "wait"}
        /\ pc["command"] # "none" <=> \E q \in Parents : pc[q] = "waitpid"
        /\ pc["shell"] \in ShellAt
    BY DEF IInv, ControlInv
  <2>2. CASE p = "shell"
    BY <2>1, <2>2, ProcsAre DEF ShellAt
  <2>3. CASE p = "stage"
    BY <2>1, <2>3, ProcsAre
  <2> QED
    BY <2>2, <2>3, ProcsAre
<1>2. CASE p = "shell"
  <2>1. pc["shell"] \in InCommand
    BY <1>2, ProcsAre DEF IInv, ControlInv, ShellAt
  <2> QED
    BY <1>1, <2>1 DEF IInv, ControlInv
<1>3. CASE p = "stage"
  <2>1. c <= Len(line) /\ NeedsStage(line[c])
    BY <1>3, ProcsAre DEF IInv, ControlInv
  <2>2. line[c].prog # "end"
    <3>1. c \in DOMAIN line /\ WellFormed(line)
      BY <2>1, AtHand DEF IInv, DataInv
    <3>2. line[c].prog = "end" => line[c].in = "Tnil" /\ line[c].out = "Tnil"
      BY <3>1 DEF WellFormed
    <3> QED
      BY <2>1, <3>2 DEF NeedsStage, Piped
  <2> QED
    BY <1>1, <2>1, <2>2
<1> QED
  BY <1>2, <1>3, ProcsAre

\* A command is that of the line, and its table is as its parent made it.
LEMMA CommandHere ==
    ASSUME IInv, pc["command"] # "none"
    PROVE  /\ c <= Len(line) /\ External(line[c].prog)
           /\ \E p \in Parents : pc[p] = "waitpid"
           /\ pc["command"] # "exited" =>
                /\ Redirected(fds["command"], line[c], c, world)
                /\ fds["command"][2] = Goes(line[c], c)
                /\ \A n \in {0, 1, 2} : fds["command"][n] \in Entries(world)
<1>1. PICK p \in Parents : pc[p] = "waitpid"
  BY DEF IInv, ControlInv
<1>2. External(line[c].prog)
  BY <1>1 DEF IInv, ControlInv
<1>3. c <= Len(line)
  <2>1. CASE p = "shell"
    BY <1>1, <2>1, ProcsAre DEF IInv, ControlInv
  <2>2. CASE p = "stage"
    BY <1>1, <2>2, ProcsAre DEF IInv, ControlInv
  <2> QED
    BY <2>1, <2>2, ProcsAre
<1>4. ASSUME pc["command"] # "exited"
      PROVE  /\ Redirected(fds["command"], line[c], c, world)
             /\ fds["command"][2] = Goes(line[c], c)
             /\ \A n \in {0, 1, 2} : fds["command"][n] \in Entries(world)
  <2>1. pc["command"] \in {"execv", "running"}
    BY <1>4 DEF IInv, ControlInv, CommandAt
  <2>2. /\ Redirected(fds["command"], line[c], c, world)
        /\ fds["command"][2] = Goes(line[c], c)
    BY <2>1 DEF IInv, TablesInv, CommandIs
  <2> QED
    BY <2>2, TableEntries DEF Redirected
<1> QED
  BY <1>1, <1>2, <1>3, <1>4

LEMMA DataKept ==
    ASSUME IInv, Next
    PROVE  DataInv'
<1>0. /\ DataInv /\ ControlInv /\ pc = [q \in Procs |-> pc[q]] /\ fds = [q \in Procs |-> fds[q]]
      /\ pc["stage"] # "none" <=> pc["shell"] \in {"forked", "wait"}
      /\ pc["command"] # "none" <=> \E p \in Parents : pc[p] = "waitpid"
      /\ c \in 1 .. Len(line) + 1 /\ Len(line) \in Nat
  <2>1. DataInv /\ ControlInv /\ TablesInv
    BY DEF IInv
  <2>2. c \in 1 .. Len(line) + 1 /\ Len(line) \in Nat
    BY <2>1 DEF DataInv, WellFormed
  <2> QED
    BY <2>1, <2>2 DEF ControlInv, TablesInv
<1> DEFINE Rest == UNCHANGED <<interactive, sticky, eof, input, offset, ahead, rc, typed,
                               line, left, failed>>
<1>a. ASSUME NEW p \in Parents, NEW at, Goto(p, at), NEW t,
             fds' = fds \/ fds' = [fds EXCEPT ![p] = t], Rest, c' = c
      PROVE  DataInv'
  <2>1. pc'["command"] = pc["command"]
    BY <1>0, <1>a, GotoIs, ProcsAre
  <2>2. fds'["command"] = fds["command"]
    BY <1>0, <1>a, ProcsAre
  <2> QED
    BY <1>0, <1>a, <2>1, <2>2, DataStill
<1>b. ASSUME Rest, c' \in 1 .. Len(line) + 1, pc'["command"] # "running"
      PROVE  DataInv'
  BY <1>0, <1>b, DataStill
<1>1. CASE OpenUshrc
  <2>1. CASE input["rc"] = NoFile
    BY <1>1, <1>a, <2>1, ProcsAre DEF OpenUshrc, session, io, ghosts
  <2>2. CASE input["rc"] # NoFile
    <3>1. /\ UNCHANGED <<interactive, sticky, eof, input, offset, ahead, typed, line, left, failed, c>>
          /\ pc["shell"] = "start"
      BY <1>1 DEF OpenUshrc, session, io, ghosts
    <3>2. Goto("shell", "rc") /\ rc' \in [ushrc_f : 0 .. 9, stdin_bak : 0 .. 9]
      BY <1>1, <2>2, OpenUshrcIs
    <3>3. pc'["command"] = "none"
      BY <1>0, <3>1, <3>2, GotoIs, ProcsAre
    <3>4. LeftInv'
      BY <3>3 DEF LeftInv
    <3>5. rc' \in [ushrc_f : -1 .. MaxFd', stdin_bak : -1 .. MaxFd']
      <4>1. 0 .. 9 \subseteq -1 .. MaxFd'
        BY <3>1 DEF MaxFd, IInv, DataInv, Parents
      <4> HIDE DEF MaxFd
      <4> QED
        BY <3>2, <4>1
    <3>6. /\ WellFormed(line') /\ (line' # <<>> => typed' > 0)
      BY <1>0, <3>1 DEF DataInv
    <3> QED
      BY <1>0, <3>1, <3>4, <3>5, <3>6 DEF DataInv
  <2> QED
    BY <2>1, <2>2
<1>2. CASE LeaveUshrc
  <2>1. /\ UNCHANGED <<interactive, sticky, eof, input, offset, ahead, typed, left, failed, c>>
        /\ pc["shell"] = "parsed" /\ Goto("shell", "prompt") /\ rc' = NoRc /\ line' = <<>>
    BY <1>2 DEF LeaveUshrc, session, io, ghosts
  <2>2. pc'["command"] = "none" /\ c = 1
    BY <1>0, <2>1, GotoIs, ProcsAre DEF ControlInv
  <2>3. LeftInv'
    BY <2>2 DEF LeftInv
  <2>4. rc' \in [ushrc_f : -1 .. MaxFd', stdin_bak : -1 .. MaxFd']
    <3>1. -1 \in -1 .. MaxFd'
      BY <2>1 DEF MaxFd, IInv, DataInv, Parents
    <3> QED
      BY <2>1, <3>1 DEF NoRc, None
  <2>5. c' \in 1 .. Len(line') + 1
    BY <2>1, <2>2
  <2> QED
    BY <1>0, <2>1, <2>3, <2>4, <2>5, EndLineIs DEF DataInv
<1>3. CASE (\E l \in Lines : ReadLine(l)) \/ ReadBuffered \/ ReadFile \/ ReadEnd
  BY <1>3, ParsingKeeps
<1>4. CASE ExecuteLine \/ RunInShell \/ EndOfLine
  BY <1>4, <1>a, ProcsAre DEF ExecuteLine, RunInShell, EndOfLine, session, source, files
<1>5. CASE EndOfInput
  BY <1>5, <1>a, ProcsAre DEF EndOfInput, Exit, Goto, session, source
<1>6. CASE ForkStage
  <2>1. AtCommand("shell", "next") /\ NeedsStage(line[c]) /\ Rest /\ c' = c
    BY <1>6 DEF ForkStage, session, source
  <2>2. pc'["command"] = "none"
    BY <1>0, <1>6, <2>1, StageStarts DEF ForkStage, AtCommand, Still
  <2> QED
    BY <1>0, <1>b, <2>1, <2>2
<1>7. CASE CloseOldEnds \/ SetUpStage
  BY <1>7, <1>a, ProcsAre DEF CloseOldEnds, SetUpStage, session, source
<1>8. CASE WaitForStage
  <2>1. pc'["command"] = "none" /\ Rest /\ c' = c + 1
    BY <1>0, <1>8, StageEnds DEF WaitForStage, session, source, files
  <2>2. c <= Len(line)
    BY <1>0, <1>8 DEF WaitForStage, ControlInv
  <2> QED
    BY <1>0, <1>b, <2>1, <2>2
<1>9. ASSUME NEW p \in Parents, ParseCmd(p) PROVE DataInv'
  <2>1. CASE RedirectCommand(p)
    <3>1. Goto(p, "execute") /\ Rest /\ c' = c /\ \E t : fds' = [fds EXCEPT ![p] = t]
      BY <2>1 DEF RedirectCommand, session, source
    <3> HIDE DEF Rest
    <3> QED
      BY <1>a, <3>1
  <2>2. CASE OutputOpenFails(p)
    <3>1. /\ Goto(p, "return") /\ pc[p] = "parseCmd" /\ failed' = [failed EXCEPT ![p] = @ + 1]
          /\ UNCHANGED <<interactive, sticky, eof, input, offset, ahead, rc, typed, line, left, c>>
      BY <2>2 DEF OutputOpenFails, session, source
    <3>2. pc'["command"] = "none"
      BY <1>0, <3>1, GotoIs, NoCommand, ProcsAre
    <3>3. LeftInv'
      BY <3>2 DEF LeftInv
    <3>4. failed' \in [Parents -> Nat] /\ failed'["shell"] >= failed["shell"]
      BY <1>0, <3>1, ProcsAre DEF DataInv
    <3>5. -1 .. MaxFd \subseteq -1 .. MaxFd'
      BY <3>4, ProcsAre DEF MaxFd, IInv, DataInv
    <3>6. rc' \in [ushrc_f : -1 .. MaxFd', stdin_bak : -1 .. MaxFd']
      <4> HIDE DEF MaxFd
      <4> QED
        BY <1>0, <3>1, <3>5 DEF DataInv
    <3>7. WellFormed(line') /\ (line' # <<>> => typed' > 0)
      BY <1>0, <3>1 DEF DataInv
    <3> QED
      BY <1>0, <3>1, <3>3, <3>4, <3>6, <3>7 DEF DataInv
  <2>3. CASE PrintOne(p) \/ RestoreAndFlush(p)
    BY <1>a, <2>3 DEF PrintOne, RestoreAndFlush, session, source, files
  <2>4. CASE Logout(p)
    <3>1. /\ Goto(p, "exited") /\ SeekBack(p) /\ pc[p] = "execute"
          /\ UNCHANGED <<interactive, sticky, line, typed, c, failed, left>>
      BY <2>4 DEF Logout, Exit, Goto, session
    <3>2. pc'["command"] = "none"
      BY <1>0, <3>1, GotoIs, NoCommand, ProcsAre
    <3>3. left' \in Nat /\ p \in Procs
      BY <1>0, <3>1, ProcsAre DEF DataInv
    <3> QED
      BY <3>1, <3>2, <3>3, SeekBackKeeps
  <2>5. CASE ForkCommand(p)
    <3>1. Rest /\ c' = c /\ pc'["command"] = "execv"
      BY <1>0, <2>5, CommandStarts DEF ForkCommand, session, source, Still
    <3> QED
      BY <1>0, <1>b, <3>1
  <2>6. CASE WaitForCommand(p)
    <3>1. Rest /\ c' = c /\ pc'["command"] = "none"
      BY <1>0, <2>6, CommandEnds DEF WaitForCommand, session, source, files, Still
    <3> QED
      BY <1>0, <1>b, <3>1
  <2> QED
    BY <1>9, <2>1, <2>2, <2>3, <2>4, <2>5, <2>6 DEF ParseCmd
<1>10. CASE NextInShell
  <2>1. Goto("shell", "next") /\ pc["shell"] = "return" /\ Rest /\ c' = c + 1
    BY <1>10 DEF NextInShell, session, source
  <2>2. pc'["command"] = "none" /\ c <= Len(line)
    BY <1>0, <2>1, GotoIs, NoCommand, ProcsAre
  <2> QED
    BY <1>0, <1>b, <2>1, <2>2
<1>11. CASE StageExits
  <2>1. /\ Goto("stage", "exited") /\ SeekBack("stage") /\ pc["stage"] = "return"
        /\ UNCHANGED <<interactive, sticky, line, typed, c, failed, left>>
    BY <1>11 DEF StageExits, Exit, Goto, session
  <2>2. pc'["command"] = "none"
    BY <1>0, <2>1, GotoIs, NoCommand, ProcsAre
  <2>3. left' \in Nat
    BY <1>0, <2>1 DEF DataInv
  <2> QED
    BY <2>1, <2>2, <2>3, ProcsAre, SeekBackKeeps
<1>12. CASE ExecvFails
  <2>1. /\ Goto("command", "exited") /\ SeekBack("command")
        /\ UNCHANGED <<interactive, sticky, line, typed, c, failed, left>>
    BY <1>12 DEF ExecvFails, Exit, Goto, session
  <2>2. pc'["command"] = "exited"
    BY <1>0, <2>1, GotoIs, ProcsAre
  <2>3. left' \in Nat
    BY <1>0, <2>1 DEF DataInv
  <2> QED
    BY <2>1, <2>2, <2>3, ProcsAre, SeekBackKeeps
<1>13. CASE Execv \/ WriteUnit \/ CopyUnit \/ CopyFile \/ CommandExits
  <2> DEFINE d == fds["command"][0]
             f == d[1]
  <2>1. /\ c <= Len(line) /\ d \in Entries(world) /\ line[c].units \in Nat /\ left \in Nat
        /\ pc["command"] \in {"execv", "running"}
    <3>1. pc["command"] \in {"execv", "running"}
      BY <1>13 DEF Execv, WriteUnit, CopyUnit, CopyFile, CommandExits, Running
    <3> QED
      BY <1>0, <3>1, CommandHere, AtHand DEF DataInv
  <2>2. IsFile(d) => /\ f \in FileNames /\ input[f] # NoFile
                     /\ offset[f] \in Nat /\ offset[f] <= Len(input[f]) /\ Len(input[f]) \in Nat
    BY <2>1, FileIs
  <2>3. UNCHANGED <<interactive, sticky, eof, input, ahead, rc, typed, line, failed, c>>
    BY <1>13 DEF Execv, WriteUnit, CopyUnit, CopyFile, CommandExits, session, source
  <2>4. ASSUME left' \in Nat, LeftInv', offset' \in [FileNames -> Nat],
               \A g \in FileNames : offset'[g] <= (IF input[g] = NoFile THEN 0 ELSE Len(input[g]))
        PROVE  DataInv'
    BY <1>0, <2>3, <2>4 DEF DataInv, MaxFd
  <2>5. /\ offset \in [FileNames -> Nat]
        /\ \A g \in FileNames : offset[g] <= (IF input[g] = NoFile THEN 0 ELSE Len(input[g]))
        /\ LeftInv
    BY <1>0 DEF DataInv
  <2>6. CASE Execv
    <3>1. /\ left' = (IF line[c].prog = "filter" /\ IsFile(d)
                      THEN Len(input[f]) - offset[f] ELSE line[c].units)
          /\ UNCHANGED <<fds, offset>>
      BY <2>6 DEF Execv, source, files
    <3>2. left' \in Nat
      BY <2>1, <2>2, <3>1
    <3>3. LeftInv'
      <4> SUFFICES ASSUME line[c].prog = "filter", IsFile(d)
                   PROVE  left' + offset[f] <= Len(input[f])
        BY <2>3, <3>1 DEF LeftInv, IsFile
      <4> QED
        BY <2>2, <3>1
    <3> QED
      BY <2>4, <2>5, <3>1, <3>2, <3>3
  <2>7. CASE WriteUnit \/ CopyUnit
    <3>1. UNCHANGED <<fds, offset, pc>> /\ (left' = left \/ (left > 0 /\ left' = left - 1))
      BY <2>7 DEF WriteUnit, CopyUnit, source, files
    <3>2. left' \in Nat
      BY <2>1, <3>1
    <3>3. LeftInv'
      <4> SUFFICES ASSUME pc["command"] = "running", line[c].prog = "filter", IsFile(d)
                   PROVE  left' + offset[f] <= Len(input[f])
        BY <2>3, <3>1 DEF LeftInv, IsFile
      <4>1. left + offset[f] <= Len(input[f])
        BY <2>5 DEF LeftInv
      <4> QED
        BY <2>1, <2>2, <3>1, <4>1
    <3> QED
      BY <2>4, <2>5, <3>1, <3>2, <3>3
  <2>8. CASE CopyFile
    <3>1. /\ left > 0 /\ left' = left - 1 /\ UNCHANGED <<fds, pc>>
          /\ pc["command"] = "running" /\ line[c].prog = "filter"
          /\ offset' = (IF IsFile(d) THEN [offset EXCEPT ![f] = @ + 1] ELSE offset)
      BY <2>8 DEF CopyFile, Running, files
    <3>2. left' \in Nat
      BY <2>1, <3>1
    <3>3. CASE IsFile(d)
      <4>1. left + offset[f] <= Len(input[f])
        BY <2>5, <3>1, <3>3 DEF LeftInv
      <4>2. /\ offset'[f] = offset[f] + 1 /\ left' + offset'[f] <= Len(input[f])
            /\ offset'[f] <= Len(input[f])
        BY <2>1, <2>2, <2>5, <3>1, <3>3, <4>1
      <4>3. LeftInv'
        BY <2>3, <3>1, <4>2 DEF LeftInv, IsFile
      <4> HIDE DEF f, d
      <4>4. offset' \in [FileNames -> Nat] /\ \A g \in FileNames \ {f} : offset'[g] = offset[g]
        BY <2>2, <2>5, <3>1, <3>3
      <4>5. \A g \in FileNames : offset'[g] <= (IF input[g] = NoFile THEN 0 ELSE Len(input[g]))
        BY <2>2, <2>5, <3>3, <4>2, <4>4
      <4> QED
        BY <2>4, <3>2, <4>3, <4>4, <4>5
    <3>4. CASE ~IsFile(d)
      <4>1. LeftInv'
        BY <2>3, <3>1, <3>4 DEF LeftInv, IsFile
      <4> QED
        BY <2>4, <2>5, <3>1, <3>2, <3>4, <4>1
    <3> QED
      BY <3>3, <3>4
  <2>9. CASE CommandExits
    <3>1. left' = 0 /\ Goto("command", "exited") /\ offset' = offset
      BY <2>9 DEF CommandExits, Exit, Goto, source
    <3>2. pc'["command"] = "exited"
      BY <1>0, <3>1, GotoIs, ProcsAre
    <3>3. LeftInv'
      BY <3>2 DEF LeftInv
    <3> QED
      BY <2>4, <2>5, <3>1, <3>3
  <2> QED
    BY <1>13, <2>6, <2>7, <2>8, <2>9
<1> QED
  BY <1>1, <1>2, <1>3, <1>4, <1>5, <1>6, <1>7, <1>8, <1>9, <1>10, <1>11, <1>12, <1>13, ProcsAre
  DEF Next, ShellStep, StageStep, CommandStep

-----------------------------------------------------------------------------
(***************************************************************************)
(* The descriptor tables.  What is claimed of each place, and what a step  *)
(* of one process leaves to the others.                                    *)
(***************************************************************************)
Resting == {"start", "prompt", "rc", "parsed", "parseCmd", "return"}

LEMMA ShellRests ==
    ASSUME NEW t, NEW e, NEW s, NEW l, NEW k, NEW w, NEW at \in Resting
    PROVE  ShellIs(at, t, e, s, l, k, w) <=> ~e.old_flag /\ IsBase(t, w)
BY DEF ShellIs, Resting, InCommand, Executing

LEMMA ShellExecutes ==
    ASSUME NEW t, NEW e, NEW s, NEW l, NEW k, NEW w, NEW at \in Executing
    PROVE  ShellIs(at, t, e, s, l, k, w) <=>
             /\ ~e.old_flag /\ IsBase(Restored(t, s, l[k]), w)
             /\ Redirected(t, l[k], k, w) /\ IsSaved(t, s, l[k])
BY DEF ShellIs, InCommand, Executing

LEMMA ShellIsNext ==
    ASSUME NEW t, NEW e, NEW s, NEW l, NEW k, NEW w
    PROVE  ShellIs("next", t, e, s, l, k, w) <=>
             /\ e.old_flag <=> k > 1 /\ Piped(l[k - 1].out)
             /\ BetweenCommands(t, e, k, w)
BY DEF ShellIs, InCommand, Executing, BetweenCommands

LEMMA ShellHasExited ==
    ASSUME NEW t, NEW e, NEW s, NEW l, NEW k, NEW w
    PROVE  ShellIs("exited", t, e, s, l, k, w)
BY DEF ShellIs, InCommand, Executing

LEMMA NobodyThere ==
    ASSUME NEW t, NEW e, NEW s, NEW l, NEW k, NEW w, NEW at \in {"none", "exited"}
    PROVE  StageIs(at, t, e, s, l, k, w) /\ CommandIs(at, t, l, k, w)
BY DEF StageIs, CommandIs, Executing

EndsType == [old_flag : BOOLEAN, old : Int \X Int, new : Int \X Int]
LEMMA NoEndsType == NoEnds \in EndsType /\ ~NoEnds.old_flag
BY DEF NoEnds, None, EndsType

LEMMA NoSavedType == NoSaved \in [DOMAIN NoSaved -> -1 .. -1]
BY DEF NoSaved, None

\* The locals of parseCmd stay in their range when more numbers may be open.
LEMMA RangesGrow ==
    ASSUME IInv, failed' \in [Parents -> Nat], failed'["shell"] >= failed["shell"]
    PROVE  saved \in [Procs -> [DOMAIN NoSaved -> -1 .. MaxFd']]
<1>1. -1 .. MaxFd \subseteq -1 .. MaxFd'
  BY ProcsAre DEF MaxFd, IInv, DataInv
<1>2. saved \in [Procs -> [DOMAIN NoSaved -> -1 .. MaxFd]]
  BY DEF IInv, TablesInv
<1> HIDE DEF MaxFd
<1> DEFINE D == DOMAIN NoSaved
<1>3. saved \in [Procs -> [D -> -1 .. MaxFd]]
  BY <1>2
<1> HIDE DEF D
<1>4. saved \in [Procs -> [D -> -1 .. MaxFd']]
  BY <1>1, <1>3
<1> QED
  BY <1>4 DEF D

LEMMA OnlyShell ==
    ASSUME IInv, NEW at, Goto("shell", at), pc["stage"] = "none", pc["command"] = "none",
           NEW t, fds' = [fds EXCEPT !["shell"] = t], at # "none", at = "exited" => t = NoTable,
           ends' \in [Procs -> EndsType],
           saved' \in [Procs -> [DOMAIN NoSaved -> -1 .. MaxFd']],
           ShellIs(at, t, ends'["shell"], saved'["shell"], line', c', world')
    PROVE  TablesInv'
<1>1. /\ fds = [p \in Procs |-> fds[p]] /\ pc = [p \in Procs |-> pc[p]]
      /\ \A p \in Procs : pc[p] \in {"none", "exited"} => fds[p] = NoTable
  BY DEF IInv, TablesInv, ControlInv
<1>2. pc'["shell"] = at /\ pc'["stage"] = "none" /\ pc'["command"] = "none"
  BY <1>1, GotoIs, ProcsAre
<1>3. /\ fds' = [p \in Procs |-> fds'[p]] /\ fds'["shell"] = t
      /\ fds'["stage"] = NoTable /\ fds'["command"] = NoTable
  BY <1>1, ProcsAre
<1>4. \A p \in Procs : pc'[p] \in {"none", "exited"} => fds'[p] = NoTable
  BY <1>2, <1>3, ProcsAre
<1>5. /\ StageIs("none", fds'["stage"], ends'["stage"], saved'["stage"], line', c', world')
      /\ CommandIs("none", fds'["command"], line', c', world')
  BY NobodyThere
<1> QED
  BY <1>2, <1>3, <1>4, <1>5 DEF TablesInv, EndsType

LEMMA OnlyStage ==
    ASSUME IInv, NEW at, Goto("stage", at), pc["stage"] # "none", pc["command"] = "none",
           NEW t, fds' = [fds EXCEPT !["stage"] = t], at = "exited" => t = NoTable,
           at # "none",
           ends' \in [Procs -> EndsType], ends'["shell"] = ends["shell"],
           saved' \in [Procs -> [DOMAIN NoSaved -> -1 .. MaxFd']],
           saved'["shell"] = saved["shell"], UNCHANGED <<line, c>>, world' = world,
           StageIs(at, t, ends'["stage"], saved'["stage"], line, c, world)
    PROVE  TablesInv'
<1>1. /\ fds = [p \in Procs |-> fds[p]] /\ pc = [p \in Procs |-> pc[p]]
      /\ \A p \in Procs : pc[p] \in {"none", "exited"} => fds[p] = NoTable
      /\ ShellIs(pc["shell"], fds["shell"], ends["shell"], saved["shell"], line, c, world)
      /\ pc["shell"] \in {"forked", "wait"}
  BY DEF IInv, TablesInv, ControlInv
<1>2. pc'["stage"] = at /\ pc'["shell"] = pc["shell"] /\ pc'["command"] = "none"
  BY <1>1, GotoIs, ProcsAre
<1>3. /\ fds' = [p \in Procs |-> fds'[p]] /\ fds'["stage"] = t
      /\ fds'["shell"] = fds["shell"] /\ fds'["command"] = NoTable
  BY <1>1, ProcsAre
<1>4. \A p \in Procs : pc'[p] \in {"none", "exited"} => fds'[p] = NoTable
  BY <1>1, <1>2, <1>3, ProcsAre
<1>5. CommandIs("none", fds'["command"], line', c', world')
  BY DEF CommandIs
<1>6. ShellIs(pc'["shell"], fds'["shell"], ends'["shell"], saved'["shell"], line', c', world')
  BY <1>1, <1>2, <1>3
<1>7. StageIs(pc'["stage"], fds'["stage"], ends'["stage"], saved'["stage"], line', c', world')
  BY <1>2, <1>3
<1>8. /\ fds' = [p \in Procs |-> fds'[p]]
      /\ CommandIs(pc'["command"], fds'["command"], line', c', world')
  BY <1>2, <1>3, <1>5
<1> QED
  BY <1>4, <1>6, <1>7, <1>8 DEF TablesInv, EndsType

\* Steps of the command, or of nobody, leave the tables of the parents alone.
LEMMA OnlyCommand ==
    ASSUME IInv, NEW at, pc'["command"] = at, pc'["shell"] = pc["shell"], pc'["stage"] = pc["stage"],
           at # "none", at = "exited" => fds'["command"] = NoTable,
           NEW t, fds' = fds \/ fds' = [fds EXCEPT !["command"] = t],
           \A p \in Parents : ends'[p] = ends[p] /\ saved'[p] = saved[p],
           ends' \in [Procs -> EndsType],
           saved' \in [Procs -> [DOMAIN NoSaved -> -1 .. MaxFd']],
           UNCHANGED <<line, c>>, world' = world,
           CommandIs(at, fds'["command"], line, c, world)
    PROVE  TablesInv'
<1>1. /\ fds = [p \in Procs |-> fds[p]]
      /\ \A p \in Procs : pc[p] \in {"none", "exited"} => fds[p] = NoTable
      /\ ShellIs(pc["shell"], fds["shell"], ends["shell"], saved["shell"], line, c, world)
      /\ StageIs(pc["stage"], fds["stage"], ends["stage"], saved["stage"], line, c, world)
  BY DEF IInv, TablesInv
<1>2. /\ fds' = [p \in Procs |-> fds'[p]]
      /\ fds'["shell"] = fds["shell"] /\ fds'["stage"] = fds["stage"]
  BY <1>1, ProcsAre
<1>3. \A p \in Procs : pc'[p] \in {"none", "exited"} => fds'[p] = NoTable
  BY <1>1, <1>2, ProcsAre
<1>4. \A p \in {"shell", "stage"} : ends'[p] = ends[p] /\ saved'[p] = saved[p]
  BY ProcsAre
<1> QED
  BY <1>1, <1>2, <1>3, <1>4 DEF TablesInv, EndsType

LEMMA TypesHere ==
    ASSUME IInv
    PROVE  /\ fds = [p \in Procs |-> fds[p]] /\ pc = [p \in Procs |-> pc[p]]
           /\ ends \in [Procs -> EndsType]
           /\ saved \in [Procs -> [DOMAIN NoSaved -> -1 .. MaxFd]]
           /\ UNCHANGED failed => MaxFd' = MaxFd
           /\ UNCHANGED <<rc, failed, input>> => world' = world
BY DEF IInv, TablesInv, ControlInv, EndsType, MaxFd, world

LEMMA ShellIsAlone ==
    ASSUME IInv, pc["shell"] \notin {"forked", "wait", "waitpid"}
    PROVE  pc["stage"] = "none" /\ pc["command"] = "none"
BY ProcsAre DEF IInv, ControlInv

LEMMA StageIsAlone ==
    ASSUME IInv, pc["stage"] \notin {"none", "waitpid"}
    PROVE  pc["shell"] \in {"forked", "wait"} /\ pc["command"] = "none"
BY ProcsAre DEF IInv, ControlInv

\* A pipe comes before this command if and only if one comes after the last.
LEMMA OldFlagIs ==
    ASSUME IInv, NEW old, old <=> c > 1 /\ Piped(line[c - 1].out)
    PROVE  /\ c > Len(line) => ~old
           /\ c <= Len(line) /\ line[c].prog # "end" => (old <=> Piped(line[c].in))
<1>1. WellFormed(line) /\ c \in 1 .. Len(line) + 1
  BY DEF IInv, DataInv
<1>2. line \in Seq(Cmd) /\ Len(line) \in Nat /\ DOMAIN line = 1 .. Len(line)
  BY <1>1 DEF WellFormed
<1>3. c > 1 => c - 1 \in DOMAIN line /\ (c - 1) + 1 = c
  BY <1>1, <1>2
<1>4. ASSUME old
      PROVE  c <= Len(line) /\ (line[c].in = line[c - 1].out \/ line[c].prog = "end")
  <2>1. c > 1 /\ Piped(line[c - 1].out)
    BY <1>4
  <2> DEFINE k == c - 1
  <2>2. k \in DOMAIN line /\ Piped(line[k].out) /\ k + 1 = c /\ k \in Int
    BY <1>1, <1>2, <1>3, <2>1
  <2> HIDE DEF k
  <2>3. k < Len(line) /\ (line[k + 1].in = line[k].out \/ line[k + 1].prog = "end")
    BY <1>1, <2>2 DEF WellFormed
  <2>4. c <= Len(line) /\ (line[c].in = line[k].out \/ line[c].prog = "end")
    BY <1>1, <1>2, <2>2, <2>3
  <2> QED
    BY <2>4 DEF k
<1>5. ASSUME c <= Len(line), Piped(line[c].in)
      PROVE  c > 1 /\ line[c - 1].out = line[c].in
  <2>1. c \in DOMAIN line
    BY <1>1, <1>2, <1>5
  <2> QED
    BY <1>1, <1>5, <2>1 DEF WellFormed
<1>6. c > Len(line) => ~old
  BY <1>1, <1>2, <1>4
<1>7. ASSUME c <= Len(line), line[c].prog # "end"
      PROVE  old <=> Piped(line[c].in)
  <2>1. CASE old
    <3>1. line[c].in = line[c - 1].out /\ Piped(line[c - 1].out)
      BY <1>4, <1>7, <2>1
    <3> QED
      BY <2>1, <3>1
  <2>2. CASE Piped(line[c].in)
    BY <1>5, <1>7, <2>2
  <2> QED
    BY <2>1, <2>2
<1> QED
  BY <1>6, <1>7

\* Steps of the shell that leave its table alone.
LEMMA OnlyShellMoves ==
    ASSUME IInv, NEW at, Goto("shell", at), pc["stage"] = "none", pc["command"] = "none",
           fds' = fds, ends' = ends, at \notin {"none", "exited"}, UNCHANGED failed,
           saved' \in [Procs -> [DOMAIN NoSaved -> -1 .. MaxFd]],
           ShellIs(at, fds["shell"], ends["shell"], saved'["shell"], line', c', world')
    PROVE  TablesInv'
<1> DEFINE t == fds["shell"]
<1>1. fds' = [fds EXCEPT !["shell"] = t]
  BY TypesHere
<1>2. /\ ends' \in [Procs -> EndsType]
      /\ saved' \in [Procs -> [DOMAIN NoSaved -> -1 .. MaxFd']]
  BY TypesHere
<1>3. ShellIs(at, t, ends'["shell"], saved'["shell"], line', c', world')
  OBVIOUS
<1>4. at # "none" /\ (at = "exited" => t = NoTable)
  OBVIOUS
<1> HIDE DEF t
<1> QED
  BY <1>1, <1>2, <1>3, <1>4, OnlyShell

LEMMA ShellHere ==
    ASSUME IInv
    PROVE  /\ ShellIs(pc["shell"], fds["shell"], ends["shell"], saved["shell"], line, c, world)
           /\ StageIs(pc["stage"], fds["stage"], ends["stage"], saved["stage"], line, c, world)
           /\ CommandIs(pc["command"], fds["command"], line, c, world)
           /\ pc["shell"] \in Resting => ~ends["shell"].old_flag /\ IsBase(fds["shell"], world)
           /\ pc["shell"] = "next" =>
                /\ ends["shell"].old_flag <=> c > 1 /\ Piped(line[c - 1].out)
                /\ BetweenCommands(fds["shell"], ends["shell"], c, world)
<1>1. /\ ShellIs(pc["shell"], fds["shell"], ends["shell"], saved["shell"], line, c, world)
      /\ StageIs(pc["stage"], fds["stage"], ends["stage"], saved["stage"], line, c, world)
      /\ CommandIs(pc["command"], fds["command"], line, c, world)
  BY DEF IInv, TablesInv
<1>2. pc["shell"] \in Resting => ~ends["shell"].old_flag /\ IsBase(fds["shell"], world)
  BY <1>1, ShellRests
<1>3. pc["shell"] = "next" =>
        /\ ends["shell"].old_flag <=> c > 1 /\ Piped(line[c - 1].out)
        /\ BetweenCommands(fds["shell"], ends["shell"], c, world)
  BY <1>1, ShellIsNext
<1> QED
  BY <1>1, <1>2, <1>3

\* exit(0) and the return of parseCmd forget the locals of parseCmd.
LEMMA ExitSaves ==
    ASSUME IInv, NEW p \in Procs, saved' = [saved EXCEPT ![p] = NoSaved], UNCHANGED failed
    PROVE  saved' \in [Procs -> [DOMAIN NoSaved -> -1 .. MaxFd']]
<1>1. -1 .. -1 \subseteq -1 .. MaxFd
  BY DEF MaxFd, IInv, DataInv, Parents
<1>2. saved \in [Procs -> [DOMAIN NoSaved -> -1 .. MaxFd]] /\ MaxFd' = MaxFd
  BY TypesHere
<1> HIDE DEF MaxFd
<1> DEFINE D == DOMAIN NoSaved
<1>3. NoSaved \in [D -> -1 .. MaxFd] /\ saved \in [Procs -> [D -> -1 .. MaxFd]]
  BY <1>1, <1>2, NoSavedType
<1> HIDE DEF D
<1>4. saved' \in [Procs -> [D -> -1 .. MaxFd']]
  BY <1>2, <1>3
<1> QED
  BY <1>4 DEF D

\* main, check_ushrc and the beginning of parsePipe.
LEMMA MainTables ==
    ASSUME IInv,
           \/ OpenUshrc \/ LeaveUshrc \/ ExecuteLine \/ EndOfLine \/ EndOfInput
           \/ RunInShell \/ NextInShell
           \/ (\E l \in Lines : ReadLine(l)) \/ ReadBuffered \/ ReadFile \/ ReadEnd
    PROVE  TablesInv'
<1> DEFINE t == fds["shell"]
           e == ends["shell"]
           s == saved["shell"]
<1>0. /\ pc["shell"] \notin {"forked", "wait", "waitpid"}
      /\ pc["stage"] = "none" /\ pc["command"] = "none"
  <2>1. pc["shell"] \notin {"forked", "wait", "waitpid"}
    BY DEF OpenUshrc, LeaveUshrc, ExecuteLine, EndOfLine, EndOfInput, RunInShell,
           NextInShell, ReadLine, ReadBuffered, ReadFile, ReadEnd, Take, Parsed, AtCommand
  <2> QED
    BY <2>1, ShellIsAlone
<1>a. ASSUME NEW at \in Resting, Goto("shell", at), UNCHANGED <<fds, ends, saved, failed>>,
             world' = world, ~e.old_flag, IsBase(t, world)
      PROVE  TablesInv'
  <2>1. ShellIs(at, t, e, saved'["shell"], line', c', world')
    BY <1>a, ShellRests
  <2>2. at \notin {"none", "exited"}
    BY <1>a DEF Resting
  <2>3. saved' \in [Procs -> [DOMAIN NoSaved -> -1 .. MaxFd]] /\ fds' = fds /\ ends' = ends
    BY <1>a, TypesHere
  <2> HIDE DEF t, e, s
  <2>4. ShellIs(at, fds["shell"], ends["shell"], saved'["shell"], line', c', world')
    BY <2>1 DEF t, e
  <2> QED
    BY <1>0, <1>a, <2>2, <2>3, <2>4, OnlyShellMoves
<1>b. ASSUME NEW at \in Resting, Goto("shell", at), UNCHANGED <<ends, saved, failed>>,
             NEW u, fds' = [fds EXCEPT !["shell"] = u], ~e.old_flag, IsBase(u, world')
      PROVE  TablesInv'
  <2>1. ShellIs(at, u, ends'["shell"], saved'["shell"], line', c', world')
    BY <1>b, ShellRests
  <2>2. at \notin {"none", "exited"}
    BY <1>b DEF Resting
  <2>3. saved' \in [Procs -> [DOMAIN NoSaved -> -1 .. MaxFd']] /\ ends' \in [Procs -> EndsType]
    BY <1>b, TypesHere
  <2> HIDE DEF t, e, s
  <2> QED
    BY <1>0, <1>b, <2>1, <2>2, <2>3, OnlyShell
<1>r. {"start", "prompt", "rc", "parsed", "parseCmd", "return"} \subseteq Resting
  BY DEF Resting
<1>1. CASE OpenUshrc
  <2>1. /\ pc["shell"] = "start" /\ UNCHANGED <<ends, saved, failed, input>>
    BY <1>1 DEF OpenUshrc
  <2>2. ~e.old_flag /\ IsBase(t, world)
    BY <1>r, <2>1, ShellHere
  <2>3. CASE input["rc"] = NoFile
    <3>1. Goto("shell", "prompt") /\ UNCHANGED <<fds, rc>>
      BY <1>1, <2>3 DEF OpenUshrc
    <3>2. world' = world
      BY <2>1, <3>1, TypesHere
    <3> HIDE DEF t, e
    <3> QED
      BY <1>a, <1>r, <2>1, <2>2, <3>1, <3>2
  <2>4. CASE input["rc"] # NoFile
    <3>1. /\ Goto("shell", "rc") /\ IsBase(fds'["shell"], world')
      BY <1>1, <2>4, OpenUshrcIs
    <3>2. fds' = [fds EXCEPT !["shell"] = fds'["shell"]]
      <4>1. \E u : fds' = [fds EXCEPT !["shell"] = u]
        BY <1>1, <2>4 DEF OpenUshrc
      <4> QED
        BY <4>1, TypesHere, ProcsAre
    <3> HIDE DEF t, e
    <3> QED
      BY <1>b, <1>r, <2>1, <2>2, <3>1, <3>2
  <2> QED
    BY <2>3, <2>4
<1>2. CASE LeaveUshrc
  <2> DEFINE v == [rc |-> rc', failures |-> failed'["shell"], ushrc |-> input'["rc"] # NoFile]
  <2>1. /\ pc["shell"] = "parsed" /\ UNCHANGED <<ends, saved, failed, input>>
        /\ rc # NoRc /\ rc' = NoRc /\ Goto("shell", "prompt")
        /\ fds' = [fds EXCEPT !["shell"] = UshrcClosed(t)]
    BY <1>2 DEF LeaveUshrc
  <2>2. ~e.old_flag /\ IsBase(t, world)
    BY <1>r, <2>1, ShellHere
  <2>3. v.failures = world.failures /\ v.ushrc = world.ushrc /\ v.rc = NoRc
    BY <2>1, WorldIs
  <2>4. world.failures \in Nat /\ world.rc # NoRc /\ world.rc = rc
    BY <2>1, WorldIs
  <2>5. v = world'
    BY DEF world
  <2> HIDE DEF v, t, e
  <2>6. IsBase(UshrcClosed(t), v)
    BY <2>2, <2>3, <2>4, UshrcIsClosed
  <2> QED
    BY <1>b, <1>r, <2>1, <2>2, <2>5, <2>6
<1>3. CASE (\E l \in Lines : ReadLine(l)) \/ ReadBuffered \/ ReadFile \/ ReadEnd
  <2>1. \E l : Parsed(l)
    BY <1>3 DEF ReadLine, ReadBuffered, ReadFile, ReadEnd, Take
  <2>2. /\ pc["shell"] \in {"prompt", "rc"} /\ UNCHANGED <<fds, ends, saved, failed, rc, input>>
        /\ Goto("shell", "parsed")
    BY <2>1 DEF Parsed, files
  <2>3. ~e.old_flag /\ IsBase(t, world) /\ world' = world
    BY <1>r, <2>2, ShellHere, TypesHere
  <2> HIDE DEF t, e
  <2> QED
    BY <1>a, <1>r, <2>2, <2>3
<1>4. CASE ExecuteLine
  <2>1. /\ pc["shell"] = "parsed" /\ UNCHANGED <<fds, ends, saved, failed, rc, input, line, c>>
        /\ Goto("shell", "next")
    BY <1>4 DEF ExecuteLine, session, source, files
  <2>2. ~e.old_flag /\ IsBase(t, world) /\ world' = world
    BY <1>r, <2>1, ShellHere, TypesHere
  <2>3. c = 1
    BY <2>1 DEF IInv, ControlInv
  <2>4. BetweenCommands(t, e, c, world)
    BY <2>2 DEF BetweenCommands, IsBase
  <2>5. ShellIs("next", t, e, saved'["shell"], line', c', world')
    BY <2>1, <2>2, <2>3, <2>4, ShellIsNext
  <2>6. saved' \in [Procs -> [DOMAIN NoSaved -> -1 .. MaxFd]]
    BY <2>1, TypesHere
  <2> QED
    BY <1>0, <2>1, <2>5, <2>6, OnlyShellMoves
<1>5. CASE EndOfLine \/ RunInShell
  <2>1. /\ pc["shell"] = "next" /\ UNCHANGED <<fds, ends, saved, failed, rc, input>>
        /\ \/ c > Len(line) /\ (Goto("shell", "prompt") \/ Goto("shell", "rc"))
           \/ c <= Len(line) /\ line[c].prog # "end" /\ ~NeedsStage(line[c])
                /\ Goto("shell", "parseCmd")
    BY <1>5 DEF EndOfLine, RunInShell, AtCommand, session, source, files
  <2>2. /\ e.old_flag <=> c > 1 /\ Piped(line[c - 1].out)
        /\ BetweenCommands(t, e, c, world) /\ world' = world
    BY <2>1, ShellHere, TypesHere
  <2>3. ~e.old_flag
    <3>1. CASE c > Len(line)
      BY <2>2, <3>1, OldFlagIs
    <3>2. CASE c <= Len(line) /\ line[c].prog # "end" /\ ~NeedsStage(line[c])
      <4>1. ~Piped(line[c].in)
        BY <3>2 DEF NeedsStage
      <4> QED
        BY <2>2, <3>2, <4>1, OldFlagIs
    <3> QED
      BY <2>1, <3>1, <3>2
  <2>4. IsBase(t, world)
    BY <2>2, <2>3 DEF BetweenCommands
  <2>5. \E at \in Resting : Goto("shell", at)
    BY <1>r, <2>1
  <2> HIDE DEF t, e
  <2> QED
    BY <1>a, <2>1, <2>2, <2>3, <2>4, <2>5
<1>6. CASE EndOfInput
  <2>1. /\ Goto("shell", "exited") /\ fds' = [fds EXCEPT !["shell"] = NoTable]
        /\ ends' = [ends EXCEPT !["shell"] = NoEnds]
        /\ saved' = [saved EXCEPT !["shell"] = NoSaved] /\ UNCHANGED failed
    BY <1>6 DEF EndOfInput, Exit, Goto
  <2>2. ends' \in [Procs -> EndsType]
    BY <2>1, TypesHere, NoEndsType
  <2>3. saved' \in [Procs -> [DOMAIN NoSaved -> -1 .. MaxFd']]
    BY <2>1, ExitSaves, ProcsAre
  <2>4. ShellIs("exited", NoTable, ends'["shell"], saved'["shell"], line', c', world')
    BY ShellHasExited
  <2> QED
    BY <1>0, <2>1, <2>2, <2>3, <2>4, OnlyShell
<1>7. CASE NextInShell
  <2>1. /\ pc["shell"] = "return" /\ UNCHANGED <<fds, ends, failed, rc, input, line>>
        /\ Goto("shell", "next") /\ saved' = [saved EXCEPT !["shell"] = NoSaved] /\ c' = c + 1
    BY <1>7 DEF NextInShell, session, source
  <2>2. ~e.old_flag /\ IsBase(t, world) /\ world' = world
    BY <1>r, <2>1, ShellHere, TypesHere
  <2>3. c <= Len(line) /\ ~NeedsStage(line[c]) /\ c \in Nat
    BY <2>1, AtHand, ProcsAre DEF IInv, ControlInv, Commands
  <2>4. BetweenCommands(t, e, c', world)
    BY <2>2 DEF BetweenCommands, IsBase
  <2>5. ~Piped(line[c].out) /\ c' - 1 = c
    BY <2>1, <2>3 DEF NeedsStage
  <2>6. ShellIs("next", t, e, saved'["shell"], line', c', world')
    BY <2>1, <2>2, <2>4, <2>5, ShellIsNext
  <2>7. saved' \in [Procs -> [DOMAIN NoSaved -> -1 .. MaxFd]]
    BY <2>1, ExitSaves, TypesHere
  <2> QED
    BY <1>0, <2>1, <2>6, <2>7, OnlyShellMoves
<1> QED
  BY <1>1, <1>2, <1>3, <1>4, <1>5, <1>6, <1>7

\* What parsePipe needs to know of its command when it forks.
LEMMA ForksFor ==
    ASSUME IInv, c <= Len(line), NeedsStage(line[c])
    PROVE  line[c].prog # "end"
<1>1. WellFormed(line) /\ c \in DOMAIN line
  BY AtHand DEF IInv, DataInv
<1>2. line[c].prog = "end" => line[c].in = "Tnil" /\ line[c].out = "Tnil"
  BY <1>1 DEF WellFormed
<1> QED
  BY <1>2 DEF NeedsStage, Piped

LEMMA SetUpIs ==
    ASSUME NEW t, NEW e, NEW s, NEW l, NEW k, NEW w
    PROVE  /\ StageIs("setup", t, e, s, l, k, w) <=>
                /\ IsTable(t, w) /\ IsPaired(t)
                /\ ForCommand(IntoPipe(FromPipe(t, e), e, l[k].out), l[k], k, w)
           /\ ShellIs("forked", t, e, s, l, k, w) <=>
                /\ e.old_flag <=> k > 1 /\ Piped(l[k - 1].out)
                /\ IsTable(t, w)
                /\ LET b == KeptByShell(t, e) IN
                   IF Piped(l[k].out) THEN HasEnds(b, e.new, k, w) ELSE IsBase(b, w)
                /\ e.old_flag => /\ {e.old[1], e.old[2]} \subseteq DOMAIN t
                                 /\ t[e.old[1]] = <<"read", k - 1>>
                                 /\ t[e.old[2]] = <<"write", k - 1>>
           /\ ShellIs("wait", t, e, s, l, k, w) <=>
                /\ e.old_flag <=> Piped(l[k].out)
                /\ IsTable(t, w)
                /\ IF e.old_flag THEN HasEnds(t, e.old, k, w) ELSE IsBase(t, w)
BY DEF StageIs, ShellIs, Executing, InCommand

LEMMA ForkTables ==
    ASSUME IInv, ForkStage
    PROVE  TablesInv'
<1> DEFINE t == fds["shell"]
           e == ends["shell"]
           n == [e EXCEPT !.new = <<Free(t, 1), Free(t, 2)>>]
           u == WithPipe(t, c)
           w == world
           cmd == line[c]
<1>1. /\ pc["shell"] = "next" /\ c <= Len(line) /\ NeedsStage(cmd)
      /\ pc' = [pc EXCEPT !["shell"] = "forked", !["stage"] = "setup"]
      /\ UNCHANGED <<saved, failed, rc, input, line, c>>
      /\ IF Piped(cmd.out)
         THEN /\ fds' = [fds EXCEPT !["shell"] = u, !["stage"] = u]
              /\ ends' = [ends EXCEPT !["shell"] = n, !["stage"] = n]
         ELSE fds' = [fds EXCEPT !["stage"] = t] /\ ends' = [ends EXCEPT !["stage"] = e]
  BY DEF ForkStage, AtCommand, session, source
<1>2. /\ fds = [p \in Procs |-> fds[p]] /\ pc = [p \in Procs |-> pc[p]]
      /\ ends \in [Procs -> EndsType] /\ world' = world /\ MaxFd' = MaxFd
      /\ saved \in [Procs -> [DOMAIN NoSaved -> -1 .. MaxFd]]
      /\ pc["command"] = "none"
      /\ \A p \in Procs : pc[p] \in {"none", "exited"} => fds[p] = NoTable
  BY <1>1, TypesHere, ShellIsAlone DEF IInv, TablesInv
<1>3. /\ pc'["shell"] = "forked" /\ pc'["stage"] = "setup" /\ pc'["command"] = "none"
  BY <1>1, <1>2, ProcsAre
<1>4. /\ e.old_flag <=> c > 1 /\ Piped(line[c - 1].out)
      /\ BetweenCommands(t, e, c, w) /\ w.failures \in Nat
  BY <1>1, ShellHere, WorldIs
<1>5. /\ e.old_flag <=> Piped(cmd.in)
      /\ e.old_flag => c - 1 \in Commands
      /\ c \in Commands
  BY <1>1, <1>4, OldFlagIs, ForksFor, AtHand
<1>6. e \in EndsType
  BY <1>2, ProcsAre
<1>7. e.old_flag => /\ {e.old[1], e.old[2]} \subseteq DOMAIN t
                    /\ t[e.old[1]] = <<"read", c - 1>> /\ t[e.old[2]] = <<"write", c - 1>>
  BY <1>4 DEF BetweenCommands, HasEnds
<1>8. ASSUME NEW x, NEW y \in EndsType,
             StageIs("setup", x, y, saved["stage"], line, c, w),
             ShellIs("forked", x, y, saved["shell"], line, c, w),
             fds' = [p \in Procs |-> fds'[p]], fds'["shell"] = x, fds'["stage"] = x,
             fds'["command"] = fds["command"], ends' \in [Procs -> EndsType],
             ends'["shell"] = y, ends'["stage"] = y
      PROVE  TablesInv'
  <2>1. \A p \in Procs : pc'[p] \in {"none", "exited"} => fds'[p] = NoTable
    BY <1>2, <1>3, <1>8, ProcsAre
  <2>2. CommandIs("none", fds'["command"], line', c', world')
    BY DEF CommandIs
  <2>3. saved' \in [Procs -> [DOMAIN NoSaved -> -1 .. MaxFd']]
    BY <1>1, <1>2
  <2>4. StageIs(pc'["stage"], fds'["stage"], ends'["stage"], saved'["stage"], line', c', world')
    BY <1>1, <1>2, <1>3, <1>8
  <2>5. ShellIs(pc'["shell"], fds'["shell"], ends'["shell"], saved'["shell"], line', c', world')
    BY <1>1, <1>2, <1>3, <1>8
  <2>6. CommandIs(pc'["command"], fds'["command"], line', c', world')
    BY <1>3, <2>2
  <2> QED
    BY <1>8, <2>1, <2>3, <2>4, <2>5, <2>6 DEF TablesInv, EndsType
<1>9. CASE ~Piped(cmd.out)
  <2>1. /\ ForCommand(IntoPipe(FromPipe(t, e), e, cmd.out), cmd, c, w)
        /\ IsBase(KeptByShell(t, e), w)
    BY <1>4, <1>5, <1>9, ForkLast
  <2>2. IsTable(t, w) /\ IsPaired(t)
    BY <1>4, <1>5, BetweenIsPaired DEF BetweenCommands
  <2>3. StageIs("setup", t, e, saved["stage"], line, c, w)
    BY <2>1, <2>2, SetUpIs
  <2>4. ShellIs("forked", t, e, saved["shell"], line, c, w)
    BY <1>4, <1>7, <1>9, <2>1, <2>2, SetUpIs
  <2>5. /\ fds' = [p \in Procs |-> fds'[p]] /\ fds'["shell"] = t /\ fds'["stage"] = t
        /\ fds'["command"] = fds["command"]
    BY <1>1, <1>2, <1>9, ProcsAre
  <2>6. ends' \in [Procs -> EndsType] /\ ends'["shell"] = e /\ ends'["stage"] = e
    BY <1>1, <1>2, <1>9, ProcsAre
  <2> HIDE DEF t, e, w
  <2> QED
    BY <1>6, <1>8, <2>3, <2>4, <2>5, <2>6
<1>10. CASE Piped(cmd.out)
  <2>1. /\ n.old_flag = e.old_flag /\ n.old = e.old /\ n.new = <<Free(t, 1), Free(t, 2)>>
        /\ n \in EndsType
    <3>1. Free(t, 1) \in Int /\ Free(t, 2) \in Int
      <4>1. IsTable(t, w)
        BY <1>4 DEF BetweenCommands
      <4>2. DOMAIN t \subseteq Nat /\ IsFiniteSet(DOMAIN t) /\ t = [m \in DOMAIN t |-> t[m]]
        BY <1>4, <4>1, TableIsFinite DEF IsTable
      <4>3. 1 \in Nat \ {0} /\ 2 \in Nat \ {0}
        OBVIOUS
      <4> HIDE DEF t, e, w
      <4>4. Free(t, 1) \in Nat \ DOMAIN t /\ Free(t, 2) \in Nat \ DOMAIN t
        BY <4>2, <4>3, FreeIs
      <4> QED
        BY <4>4
    <3> QED
      BY <1>6, <3>1 DEF EndsType
  <2>2. BetweenCommands(t, n, c, w)
    BY <1>4, <2>1 DEF BetweenCommands
  <2> HIDE DEF n, t, e
  <2>3. /\ IsTable(u, w) /\ IsPaired(u)
        /\ ForCommand(IntoPipe(FromPipe(u, n), n, cmd.out), cmd, c, w)
        /\ HasEnds(KeptByShell(u, n), n.new, c, w)
        /\ n.old_flag => /\ {n.old[1], n.old[2]} \subseteq DOMAIN u
                         /\ u[n.old[1]] = <<"read", c - 1>>
                         /\ u[n.old[2]] = <<"write", c - 1>>
    BY <1>4, <1>5, <1>10, <2>1, <2>2, ForkWithPipe
  <2> HIDE DEF u
  <2>4. StageIs("setup", u, n, saved["stage"], line, c, w)
    BY <2>3, SetUpIs
  <2>5. ShellIs("forked", u, n, saved["shell"], line, c, w)
    BY <1>4, <1>10, <2>1, <2>3, SetUpIs
  <2>6. /\ fds' = [p \in Procs |-> fds'[p]] /\ fds'["shell"] = u /\ fds'["stage"] = u
        /\ fds'["command"] = fds["command"]
    BY <1>1, <1>2, <1>10, ProcsAre
  <2>7. ends' \in [Procs -> EndsType] /\ ends'["shell"] = n /\ ends'["stage"] = n
    BY <1>1, <1>2, <1>10, <2>1, ProcsAre
  <2> HIDE DEF w
  <2> QED
    BY <1>8, <2>1, <2>4, <2>5, <2>6, <2>7
<1> QED
  BY <1>9, <1>10

LEMMA CloseTables ==
    ASSUME IInv, CloseOldEnds
    PROVE  TablesInv'
<1> DEFINE t == fds["shell"]
           e == ends["shell"]
           b == KeptByShell(t, e)
           o == OldFrom(e, line[c].out)
           w == world
<1>1. /\ pc["shell"] = "forked" /\ Goto("shell", "wait")
      /\ fds' = [fds EXCEPT !["shell"] = b] /\ ends' = [ends EXCEPT !["shell"] = o]
      /\ UNCHANGED <<saved, failed, rc, input, line, c>>
  BY DEF CloseOldEnds, session, source
<1>2. /\ fds = [p \in Procs |-> fds[p]] /\ pc = [p \in Procs |-> pc[p]]
      /\ ends \in [Procs -> EndsType] /\ world' = world /\ MaxFd' = MaxFd
      /\ saved \in [Procs -> [DOMAIN NoSaved -> -1 .. MaxFd]]
      /\ \A p \in Procs : pc[p] \in {"none", "exited"} => fds[p] = NoTable
  BY <1>1, TypesHere DEF IInv, TablesInv
<1>3. /\ e \in EndsType /\ IsTable(t, w)
      /\ IF Piped(line[c].out) THEN HasEnds(b, e.new, c, w) ELSE IsBase(b, w)
  <2>1. ShellIs("forked", t, e, saved["shell"], line, c, w)
    BY <1>1, ShellHere
  <2> HIDE DEF t, e, w
  <2>2. /\ IsTable(t, w)
        /\ IF Piped(line[c].out) THEN HasEnds(b, e.new, c, w) ELSE IsBase(b, w)
    BY <2>1, SetUpIs
  <2> QED
    BY <1>2, <2>2, ProcsAre DEF e
<1>4. /\ o \in EndsType
      /\ o.old_flag <=> Piped(line[c].out)
      /\ Piped(line[c].out) => o.old = e.new
  BY <1>3, NoEndsType DEF OldFrom, EndsType
<1>5. IsTable(b, w)
  <2>1. 0 .. 2 \subseteq DOMAIN b
    BY <1>3 DEF HasEnds, IsBase, IsTable, Close, Restrict
  <2>2. /\ DOMAIN b \subseteq DOMAIN t /\ b = [m \in DOMAIN b |-> b[m]]
        /\ \A m \in DOMAIN b : b[m] = t[m]
    BY <1>3 DEF KeptByShell, Close, Restrict, IsTable
  <2> HIDE DEF b, t, w
  <2> QED
    BY <1>3, <2>1, <2>2 DEF IsTable
<1>6. ShellIs("wait", b, o, saved["shell"], line, c, w)
  <2> HIDE DEF b, t, w, o, e
  <2> QED
    BY <1>3, <1>4, <1>5, SetUpIs
<1> HIDE DEF b, o, w
<1>7. /\ pc'["shell"] = "wait" /\ pc'["stage"] = pc["stage"] /\ pc'["command"] = pc["command"]
  BY <1>1, <1>2, GotoIs, ProcsAre
<1>8. /\ fds' = [p \in Procs |-> fds'[p]] /\ fds'["shell"] = b
      /\ fds'["stage"] = fds["stage"] /\ fds'["command"] = fds["command"]
  BY <1>1, <1>2, ProcsAre
<1>9. /\ ends' \in [Procs -> EndsType] /\ ends'["shell"] = o /\ ends'["stage"] = ends["stage"]
  BY <1>1, <1>2, <1>4, ProcsAre
<1>10. \A p \in Procs : pc'[p] \in {"none", "exited"} => fds'[p] = NoTable
  BY <1>2, <1>7, <1>8, ProcsAre
<1>11. /\ StageIs(pc["stage"], fds["stage"], ends["stage"], saved["stage"], line, c, world)
       /\ CommandIs(pc["command"], fds["command"], line, c, world)
  BY ShellHere
<1>12. ShellIs(pc'["shell"], fds'["shell"], ends'["shell"], saved'["shell"], line', c', world')
  BY <1>1, <1>2, <1>6, <1>7, <1>8, <1>9 DEF w
<1>13. StageIs(pc'["stage"], fds'["stage"], ends'["stage"], saved'["stage"], line', c', world')
  BY <1>1, <1>2, <1>7, <1>8, <1>9, <1>11
<1>14. CommandIs(pc'["command"], fds'["command"], line', c', world')
  BY <1>1, <1>2, <1>7, <1>8, <1>11
<1> QED
  BY <1>1, <1>2, <1>8, <1>9, <1>10, <1>12, <1>13, <1>14 DEF TablesInv, EndsType

LEMMA WaitTables ==
    ASSUME IInv, WaitForStage
    PROVE  TablesInv'
<1> DEFINE t == fds["shell"]
           e == ends["shell"]
           w == world
<1>1. /\ pc["shell"] = "wait" /\ pc["stage"] = "exited"
      /\ pc' = [pc EXCEPT !["shell"] = "next", !["stage"] = "none"]
      /\ UNCHANGED <<fds, ends, saved, failed, rc, input, line>> /\ c' = c + 1
  BY DEF WaitForStage, session, source, files
<1>2. /\ fds = [p \in Procs |-> fds[p]] /\ pc = [p \in Procs |-> pc[p]]
      /\ ends \in [Procs -> EndsType] /\ world' = world /\ MaxFd' = MaxFd
      /\ saved \in [Procs -> [DOMAIN NoSaved -> -1 .. MaxFd]]
      /\ pc["command"] = "none"
      /\ \A p \in Procs : pc[p] \in {"none", "exited"} => fds[p] = NoTable
  BY <1>1, TypesHere, StageIsAlone DEF IInv, TablesInv
<1>3. /\ e.old_flag <=> Piped(line[c].out)
      /\ IsTable(t, w)
      /\ IF e.old_flag THEN HasEnds(t, e.old, c, w) ELSE IsBase(t, w)
  <2>1. ShellIs("wait", t, e, saved["shell"], line, c, w)
    BY <1>1, ShellHere
  <2> HIDE DEF t, e, w
  <2> QED
    BY <2>1, SetUpIs
<1>4. c' > 1 /\ c' - 1 = c
  <2>1. c \in 1 .. Len(line) + 1 /\ line \in Seq(Cmd)
    BY DEF IInv, DataInv, WellFormed
  <2> QED
    BY <1>1, <2>1
<1>5. ShellIs("next", t, e, saved["shell"], line, c', w)
  <2>1. BetweenCommands(t, e, c', w)
    BY <1>3, <1>4 DEF BetweenCommands
  <2>2. e.old_flag <=> c' > 1 /\ Piped(line[c' - 1].out)
    BY <1>3, <1>4
  <2> HIDE DEF t, e, w
  <2> QED
    BY <2>1, <2>2, ShellIsNext
<1>6. pc'["shell"] = "next" /\ pc'["stage"] = "none" /\ pc'["command"] = "none"
  BY <1>1, <1>2, ProcsAre
<1>7. \A p \in Procs : pc'[p] \in {"none", "exited"} => fds'[p] = NoTable
  BY <1>1, <1>2, <1>6, ProcsAre
<1>8. ShellIs(pc'["shell"], fds'["shell"], ends'["shell"], saved'["shell"], line', c', world')
  BY <1>1, <1>2, <1>5, <1>6
<1>9. StageIs("none", fds'["stage"], ends'["stage"], saved'["stage"], line', c', world')
  BY DEF StageIs, Executing
<1>10. CommandIs("none", fds'["command"], line', c', world')
  BY DEF CommandIs
<1> QED
  BY <1>1, <1>2, <1>6, <1>7, <1>8, <1>9, <1>10 DEF TablesInv, EndsType

LEMMA ExitTables ==
    ASSUME IInv, NEW p \in Parents, pc[p] \in InCommand \ {"waitpid"}, UNCHANGED <<rc, failed, input, line, c>>,
           fds' = [fds EXCEPT ![p] = NoTable], ends' = [ends EXCEPT ![p] = NoEnds],
           saved' = [saved EXCEPT ![p] = NoSaved], Goto(p, "exited")
    PROVE  TablesInv'
<1>1. world' = world /\ ends \in [Procs -> EndsType] /\ saved \in [Procs -> [DOMAIN NoSaved -> -1 .. MaxFd]]
  BY TypesHere
<1>2. ends' \in [Procs -> EndsType]
  BY <1>1, NoEndsType
<1>3. saved' \in [Procs -> [DOMAIN NoSaved -> -1 .. MaxFd']]
  BY ExitSaves, ProcsAre
<1>4. CASE p = "shell"
  <2>1. pc["stage"] = "none" /\ pc["command"] = "none"
    BY <1>4, ShellIsAlone, ProcsAre
  <2>2. ShellIs("exited", NoTable, ends'["shell"], saved'["shell"], line', c', world')
    BY ShellHasExited
  <2> QED
    BY <1>2, <1>3, <1>4, <2>1, <2>2, OnlyShell
<1>5. CASE p = "stage"
  <2>1. pc["stage"] # "none" /\ pc["command"] = "none"
    BY <1>5, StageIsAlone, ProcsAre
  <2>2. StageIs("exited", NoTable, ends'["stage"], saved'["stage"], line, c, world)
    BY DEF StageIs, Executing
  <2>3. ends'["shell"] = ends["shell"] /\ saved'["shell"] = saved["shell"]
    BY <1>1, <1>5, ProcsAre
  <2> QED
    BY <1>1, <1>2, <1>3, <1>5, <2>1, <2>2, <2>3, OnlyStage
<1> QED
  BY <1>4, <1>5, ProcsAre

\* Shell and stage execute a command in the same way.
LEMMA ParentHere ==
    ASSUME IInv, NEW p \in Parents, pc[p] \in InCommand
    PROVE  /\ pc[p] = "parseCmd" => ForCommand(fds[p], line[c], c, world)
           /\ pc[p] \in Executing =>
                Redirected(fds[p], line[c], c, world) /\ IsSaved(fds[p], saved[p], line[c])
<1>1. CASE p = "shell"
  <2>1. ShellIs(pc["shell"], fds["shell"], ends["shell"], saved["shell"], line, c, world)
    BY ShellHere
  <2>2. ASSUME pc["shell"] = "parseCmd" PROVE ForCommand(fds["shell"], line[c], c, world)
    <3>1. IsBase(fds["shell"], world)
      BY <2>2, ShellHere DEF Resting
    <3>2. ~NeedsStage(line[c])
      BY <1>1 DEF IInv, ControlInv
    <3> QED
      BY <3>1, <3>2, BaseForCommand
  <2>3. ASSUME pc["shell"] \in Executing
        PROVE  /\ Redirected(fds["shell"], line[c], c, world)
               /\ IsSaved(fds["shell"], saved["shell"], line[c])
    BY <2>1, <2>3, ShellExecutes
  <2> QED
    BY <1>1, <2>2, <2>3
<1>2. CASE p = "stage"
  <2>1. StageIs(pc["stage"], fds["stage"], ends["stage"], saved["stage"], line, c, world)
    BY ShellHere
  <2> QED
    BY <1>2, <2>1 DEF StageIs
<1> QED
  BY <1>1, <1>2, ProcsAre

LEMMA ParentMoves ==
    ASSUME IInv, NEW p \in Parents, pc[p] \in InCommand \ {"waitpid"},
           NEW at \in InCommand, Goto(p, at),
           NEW t, fds' = [fds EXCEPT ![p] = t],
           NEW s \in [DOMAIN NoSaved -> -1 .. MaxFd'], saved' = [saved EXCEPT ![p] = s],
           saved \in [Procs -> [DOMAIN NoSaved -> -1 .. MaxFd']],
           UNCHANGED <<ends, line, c>>,
           p = "shell" => ShellIs(at, t, ends["shell"], s, line, c, world'),
           p = "stage" => world' = world /\ StageIs(at, t, ends["stage"], s, line, c, world)
    PROVE  TablesInv'
<1>1. ends' \in [Procs -> EndsType] /\ at # "none" /\ at # "exited"
  BY TypesHere DEF InCommand
<1>2. saved' \in [Procs -> [DOMAIN NoSaved -> -1 .. MaxFd']] /\ saved'[p] = s
  <2> DEFINE S == [DOMAIN NoSaved -> -1 .. MaxFd']
  <2>1. s \in S /\ saved \in [Procs -> S] /\ p \in Procs
    BY ProcsAre
  <2> HIDE DEF S
  <2>2. saved' \in [Procs -> S] /\ saved'[p] = s
    BY <2>1
  <2> QED
    BY <2>2 DEF S
<1>3. CASE p = "shell"
  <2>1. pc["stage"] = "none" /\ pc["command"] = "none"
    BY <1>3, ShellIsAlone, ProcsAre
  <2>2. ShellIs(at, t, ends'["shell"], saved'["shell"], line', c', world')
    BY <1>2, <1>3
  <2> QED
    BY <1>1, <1>2, <1>3, <2>1, <2>2, OnlyShell
<1>4. CASE p = "stage"
  <2>1. pc["stage"] # "none" /\ pc["command"] = "none"
    BY <1>4, StageIsAlone, ProcsAre
  <2>2. StageIs(at, t, ends'["stage"], saved'["stage"], line, c, world)
    BY <1>2, <1>4
  <2>3. ends'["shell"] = ends["shell"] /\ saved'["shell"] = saved["shell"]
    BY <1>4, TypesHere, ProcsAre
  <2> QED
    BY <1>1, <1>2, <1>4, <2>1, <2>2, <2>3, OnlyStage
<1> QED
  BY <1>3, <1>4, ProcsAre

LEMMA RestoredInStage ==
    ASSUME NEW t, NEW s, NEW cmd, NEW k, NEW w,
           IsTable(t, w), UsesPipes(t, cmd, k), IsSaved(t, s, cmd)
    PROVE  IsTable(Restored(t, s, cmd), w) /\ UsesPipes(Restored(t, s, cmd), cmd, k)
<1> DEFINE r == Restored(t, s, cmd)
           b == BackIn(t, s, cmd)
<1>1. PutBack(cmd) \subseteq DOMAIN t /\ 0 .. 2 \subseteq DOMAIN t
  BY DEF PutBack, IsTable
<1>2. DOMAIN b = DOMAIN t /\ \A m \in DOMAIN b : \E n \in DOMAIN t : b[m] = t[n]
  BY <1>1 DEF BackIn, IsSaved
<1>3. DOMAIN r = DOMAIN b \ Range(s) /\ r = [m \in DOMAIN r |-> b[m]]
  BY DEF Restored, Close, Restrict
<1> HIDE DEF b, r
<1>4. 0 .. 2 \subseteq DOMAIN r
  BY <1>1, <1>2, <1>3 DEF IsSaved
<1>5. \A m \in DOMAIN r : \E n \in DOMAIN t : r[m] = t[n]
  BY <1>2, <1>3
<1>6. IsTable(r, w)
  <2>1. \A n \in DOMAIN t : t[n] \in Entries(w)
    BY DEF IsTable
  <2>2. \A m \in DOMAIN r : r[m] \in Entries(w)
    BY <1>5, <2>1
  <2>3. r = [m \in DOMAIN r |-> r[m]] /\ DOMAIN r \subseteq DOMAIN t
    BY <1>2, <1>3
  <2> QED
    BY <1>4, <2>2, <2>3 DEF IsTable
<1>7. UsesPipes(r, cmd, k)
  BY <1>5 DEF UsesPipes
<1> QED
  BY <1>6, <1>7 DEF r

\* parseCmd, but for the fork and the wait.
LEMMA ParseTables ==
    ASSUME IInv, NEW p \in Parents,
           RedirectCommand(p) \/ OutputOpenFails(p) \/ PrintOne(p) \/ Logout(p) \/ RestoreAndFlush(p)
    PROVE  TablesInv'
<1> DEFINE t == fds[p]
           cmd == line[c]
           w == world
<1>1. /\ pc[p] \in InCommand \ {"waitpid"} /\ p \in Procs
      /\ c <= Len(line) /\ pc["command"] = "none"
  <2>1. pc[p] \in InCommand \ {"waitpid"}
    BY DEF RedirectCommand, OutputOpenFails, PrintOne, Logout, RestoreAndFlush, InCommand
  <2> QED
    BY <2>1, NoCommand, ProcsAre
<1>2. /\ c \in Commands /\ IsCommand(cmd) /\ w.failures \in Nat /\ LastFd(w) = MaxFd
  BY <1>1, AtHand, WorldIs
<1>3. /\ pc[p] = "parseCmd" => ForCommand(t, cmd, c, w)
      /\ pc[p] \in Executing => Redirected(t, cmd, c, w) /\ IsSaved(t, saved[p], cmd)
  BY <1>1, ParentHere
<1>4. /\ saved \in [Procs -> [DOMAIN NoSaved -> -1 .. MaxFd]]
      /\ fds = [q \in Procs |-> fds[q]]
  BY TypesHere
<1>5. /\ saved[p] \in [DOMAIN NoSaved -> -1 .. MaxFd] /\ saved = [saved EXCEPT ![p] = saved[p]]
      /\ fds = [fds EXCEPT ![p] = t]
  <2> DEFINE S == [DOMAIN NoSaved -> -1 .. MaxFd]
  <2>1. saved \in [Procs -> S]
    BY <1>4
  <2> HIDE DEF S
  <2>2. saved[p] \in S /\ saved = [saved EXCEPT ![p] = saved[p]]
    BY <1>1, <2>1
  <2> QED
    BY <1>1, <1>4, <2>2 DEF S
<1>6. CASE RedirectCommand(p)
  <2>1. PICK in_ok \in BOOLEAN :
          /\ fds' = [fds EXCEPT ![p] =
                 OutputOnto(InputOnto(WithOpened(t, Opened(t, cmd, c, in_ok)), cmd, c, in_ok), cmd, c)]
          /\ saved' = [saved EXCEPT ![p] = Locals(t, Opened(t, cmd, c, in_ok))]
    BY <1>6 DEF RedirectCommand, Opened
  <2>2. /\ pc[p] = "parseCmd" /\ Goto(p, "execute")
        /\ UNCHANGED <<ends, line, c, failed, rc, input>>
    BY <1>6 DEF RedirectCommand, session, source
  <2> DEFINE s == Locals(t, Opened(t, cmd, c, in_ok))
             new == OutputOnto(InputOnto(WithOpened(t, Opened(t, cmd, c, in_ok)), cmd, c, in_ok), cmd, c)
  <2>3. ForCommand(t, cmd, c, w)
    BY <1>3, <2>2
  <2> HIDE DEF t, cmd, w
  <2>4. /\ Redirected(new, cmd, c, w) /\ IsSaved(new, s, cmd)
        /\ Restored(new, s, cmd) = t
        /\ s \in [DOMAIN NoSaved -> -1 .. LastFd(w)]
    BY <1>2, <2>3, OpensItsFiles
  <2>5. fds' = [fds EXCEPT ![p] = new] /\ saved' = [saved EXCEPT ![p] = s]
    BY <2>1
  <2> HIDE DEF new, s
  <2>6. MaxFd' = MaxFd /\ world' = world
    BY <2>2, TypesHere
  <2>7. /\ s \in [DOMAIN NoSaved -> -1 .. MaxFd']
        /\ saved \in [Procs -> [DOMAIN NoSaved -> -1 .. MaxFd']]
    BY <1>2, <1>4, <2>4, <2>6
  <2>8. ASSUME p = "shell" PROVE ShellIs("execute", new, ends["shell"], s, line, c, world')
    <3>1. ~ends["shell"].old_flag /\ IsBase(t, w)
      BY <2>2, <2>8, ShellHere DEF Resting, t, w
    <3>2. "execute" \in Executing
      BY DEF Executing
    <3>3. IsBase(Restored(new, s, cmd), w)
      BY <2>4, <3>1
    <3> QED
      BY <2>4, <2>6, <3>1, <3>2, <3>3, ShellExecutes DEF cmd, w
  <2>9. p = "stage" => world' = world /\ StageIs("execute", new, ends["stage"], s, line, c, world)
    BY <2>4, <2>6 DEF StageIs, Executing, cmd, w
  <2>10. "execute" \in InCommand
    BY DEF InCommand
  <2> QED
    BY <1>1, <2>2, <2>5, <2>7, <2>8, <2>9, <2>10, ParentMoves
<1>7. CASE OutputOpenFails(p)
  <2>1. PICK in_ok \in BOOLEAN :
          fds' = [fds EXCEPT ![p] =
                    InputOnto(WithOpened(t, OpensInput(t, cmd, c, in_ok)), cmd, c, in_ok)]
    BY <1>7 DEF OutputOpenFails
  <2>2. /\ pc[p] = "parseCmd" /\ Goto(p, "return") /\ failed' = [failed EXCEPT ![p] = @ + 1]
        /\ UNCHANGED <<ends, saved, line, c, rc, input>>
    BY <1>7 DEF OutputOpenFails, session, source
  <2> DEFINE new == InputOnto(WithOpened(t, OpensInput(t, cmd, c, in_ok)), cmd, c, in_ok)
             v == [rc |-> rc', failures |-> failed'["shell"], ushrc |-> input'["rc"] # NoFile]
             s == saved[p]
  <2>3. /\ failed \in [Parents -> Nat] /\ failed' \in [Parents -> Nat]
        /\ failed'[p] = failed[p] + 1 /\ \A q \in Parents \ {p} : failed'[q] = failed[q]
    BY <2>2 DEF IInv, DataInv
  <2>4. failed'["shell"] >= failed["shell"]
    BY <2>3, ProcsAre
  <2>5. saved \in [Procs -> [DOMAIN NoSaved -> -1 .. MaxFd']]
    BY <2>3, <2>4, RangesGrow
  <2>6. s \in [DOMAIN NoSaved -> -1 .. MaxFd'] /\ saved' = [saved EXCEPT ![p] = s]
    <3>1. s \in [DOMAIN NoSaved -> -1 .. MaxFd']
      BY <1>1, <2>5
    <3> QED
      BY <1>5, <2>2, <3>1
  <2>7. fds' = [fds EXCEPT ![p] = new]
    BY <2>1
  <2>8. ASSUME p = "shell" PROVE ShellIs("return", new, ends["shell"], s, line, c, world')
    <3>1. ~ends["shell"].old_flag /\ IsBase(t, w)
      BY <2>2, <2>8, ShellHere DEF Resting
    <3>2. /\ v.failures = w.failures + 1 /\ v.rc = w.rc /\ v.ushrc = w.ushrc
      BY <2>2, <2>3, <2>8, WorldIs
    <3>3. world' = v
      BY DEF world
    <3> HIDE DEF v, t, cmd, w
    <3>4. IsBase(new, v)
      BY <1>2, <3>1, <3>2, FailsInShell
    <3>5. "return" \in Resting
      BY DEF Resting
    <3> HIDE DEF new, s
    <3> QED
      BY <3>1, <3>3, <3>4, <3>5, ShellRests
  <2>9. ASSUME p = "stage"
        PROVE  world' = world /\ StageIs("return", new, ends["stage"], s, line, c, world)
    <3>1. failed'["shell"] = failed["shell"]
      BY <2>3, <2>9, ProcsAre
    <3>2. world' = world
      BY <2>2, <3>1 DEF world
    <3>3. ForCommand(t, cmd, c, w)
      BY <1>3, <2>2
    <3> HIDE DEF t, cmd, w
    <3>4. IsTable(new, w) /\ UsesPipes(new, cmd, c)
      BY <1>2, <3>3, FailsInStage
    <3> HIDE DEF new
    <3> QED
      BY <3>2, <3>4 DEF StageIs, Executing, cmd, w
  <2>10. "return" \in InCommand
    BY DEF InCommand
  <2> HIDE DEF new, s
  <2> QED
    BY <1>1, <2>2, <2>5, <2>6, <2>7, <2>8, <2>9, <2>10, ParentMoves
<1>8. CASE PrintOne(p)
  <2>1. /\ pc[p] = "execute" /\ Goto(p, "restore")
        /\ UNCHANGED <<fds, ends, saved, line, c, failed, rc, input>>
    BY <1>8 DEF PrintOne, session, source, files
  <2> DEFINE s == saved[p]
  <2>2. world' = world /\ MaxFd' = MaxFd
    BY <2>1, TypesHere
  <2>3. /\ s \in [DOMAIN NoSaved -> -1 .. MaxFd'] /\ saved' = [saved EXCEPT ![p] = s]
        /\ saved \in [Procs -> [DOMAIN NoSaved -> -1 .. MaxFd']]
        /\ fds' = [fds EXCEPT ![p] = t]
    BY <1>4, <1>5, <2>1, <2>2
  <2>4. {"execute", "restore"} \subseteq Executing /\ "restore" \in InCommand
    BY DEF Executing, InCommand
  <2>5. p = "shell" => ShellIs("restore", t, ends["shell"], s, line, c, world')
    BY <2>1, <2>2, <2>4, ShellHere, ShellExecutes
  <2>6. p = "stage" => world' = world /\ StageIs("restore", t, ends["stage"], s, line, c, world)
    BY <1>3, <2>1, <2>2, <2>4 DEF StageIs, Executing
  <2> HIDE DEF t, s
  <2> QED
    BY <1>1, <2>1, <2>3, <2>4, <2>5, <2>6, ParentMoves
<1>9. CASE RestoreAndFlush(p)
  <2> DEFINE s == saved[p]
             new == Restored(t, s, cmd)
  <2>1. /\ pc[p] = "restore" /\ Goto(p, "return") /\ fds' = [fds EXCEPT ![p] = new]
        /\ UNCHANGED <<ends, saved, line, c, failed, rc, input>>
    BY <1>9 DEF RestoreAndFlush, session, source
  <2>2. world' = world /\ MaxFd' = MaxFd
    BY <2>1, TypesHere
  <2>3. /\ s \in [DOMAIN NoSaved -> -1 .. MaxFd'] /\ saved' = [saved EXCEPT ![p] = s]
        /\ saved \in [Procs -> [DOMAIN NoSaved -> -1 .. MaxFd']]
    BY <1>4, <1>5, <2>1, <2>2
  <2>4. "restore" \in Executing /\ "return" \in InCommand /\ "return" \in Resting
    BY DEF Executing, InCommand, Resting
  <2>5. ASSUME p = "shell" PROVE ShellIs("return", new, ends["shell"], s, line, c, world')
    <3>1. ShellIs("restore", t, ends["shell"], s, line, c, world)
      BY <2>1, <2>5, ShellHere
    <3> HIDE DEF t, s, w
    <3>2. ~ends["shell"].old_flag /\ IsBase(new, world)
      BY <2>4, <3>1, ShellExecutes
    <3> HIDE DEF new
    <3> QED
      BY <2>2, <2>4, <3>2, ShellRests
  <2>6. ASSUME p = "stage"
        PROVE  world' = world /\ StageIs("return", new, ends["stage"], s, line, c, world)
    <3>1. IsTable(t, w) /\ UsesPipes(t, cmd, c) /\ IsSaved(t, s, cmd)
      BY <1>3, <2>1, <2>4 DEF Redirected
    <3> HIDE DEF t, s, cmd, w
    <3>2. IsTable(new, w) /\ UsesPipes(new, cmd, c)
      BY <3>1, RestoredInStage
    <3> HIDE DEF new
    <3> QED
      BY <2>2, <3>2 DEF StageIs, Executing, cmd, w
  <2> HIDE DEF new, s
  <2> QED
    BY <1>1, <2>1, <2>3, <2>4, <2>5, <2>6, ParentMoves
<1>10. CASE Logout(p)
  <2>1. /\ Goto(p, "exited") /\ UNCHANGED <<rc, failed, input, line, c>>
        /\ fds' = [fds EXCEPT ![p] = NoTable] /\ ends' = [ends EXCEPT ![p] = NoEnds]
        /\ saved' = [saved EXCEPT ![p] = NoSaved]
    BY <1>10 DEF Logout, Exit, SeekBack, Goto, session
  <2> QED
    BY <1>1, <2>1, ExitTables
<1> QED
  BY <1>6, <1>7, <1>8, <1>9, <1>10

\* The child's standard error goes where its standard output goes.
LEMMA ErrorToo ==
    ASSUME NEW t, NEW cmd, NEW k, NEW w, Redirected(t, cmd, k, w)
    PROVE  LET u == Dup2(t, 1, 2) IN Redirected(u, cmd, k, w) /\ u[2] = Goes(cmd, k)
<1> DEFINE u == Dup2(t, 1, 2)
<1>1. /\ IsTable(t, w) /\ UsesPipes(t, cmd, k)
      /\ ReadsFrom(t[0], cmd, k, w) /\ t[1] = Goes(cmd, k)
  BY DEF Redirected
<1>2. 0 \in DOMAIN t /\ 1 \in DOMAIN t /\ 2 \in DOMAIN t
  BY <1>1 DEF IsTable
<1>3. /\ DOMAIN u = DOMAIN t /\ u = [m \in DOMAIN u |-> u[m]]
      /\ u[2] = t[1] /\ \A m \in DOMAIN t \ {2} : u[m] = t[m]
  BY <1>2 DEF Dup2, With
<1> HIDE DEF u
<1>4. \A m \in DOMAIN u : \E n \in DOMAIN t : u[m] = t[n]
  BY <1>2, <1>3
<1>5. IsTable(u, w)
  <2>1. \A m \in DOMAIN u : u[m] \in Entries(w)
    BY <1>1, <1>4 DEF IsTable
  <2> QED
    BY <1>1, <1>3, <2>1 DEF IsTable
<1>6. UsesPipes(u, cmd, k)
  BY <1>1, <1>4 DEF UsesPipes
<1>7. u[0] = t[0] /\ u[1] = t[1]
  BY <1>2, <1>3
<1> QED
  BY <1>1, <1>3, <1>5, <1>6, <1>7 DEF Redirected, u

LEMMA ForkCommandTables ==
    ASSUME IInv, NEW p \in Parents, ForkCommand(p) \/ WaitForCommand(p)
    PROVE  TablesInv'
<1> DEFINE w == world
<1>1. /\ fds = [q \in Procs |-> fds[q]] /\ pc = [q \in Procs |-> pc[q]] /\ ControlInv
      /\ ends \in [Procs -> EndsType]
      /\ saved \in [Procs -> [DOMAIN NoSaved -> -1 .. MaxFd]]
      /\ \A q \in Procs : pc[q] \in {"none", "exited"} => fds[q] = NoTable
      /\ UNCHANGED <<ends, saved, failed, rc, input, line, c>>
  BY TypesHere DEF IInv, TablesInv, ForkCommand, WaitForCommand, session, source, files
<1>2. world' = world /\ MaxFd' = MaxFd
  BY <1>1, TypesHere
<1>3. Still
  BY <1>1 DEF Still
<1>4. /\ pc[p] \in {"execute", "waitpid"} /\ pc'[p] \in {"waitpid", "restore"}
      /\ \A q \in Parents \ {p} : pc'[q] = pc[q]
      /\ fds' = [q \in Procs |-> fds'[q]] /\ \A q \in Parents : fds'[q] = fds[q]
      /\ \/ pc'["command"] = "execv" /\ fds'["command"] = Dup2(fds[p], 1, 2)
         \/ pc'["command"] = "none" /\ fds'["command"] = NoTable
  <2>1. CASE ForkCommand(p)
    <3>1. /\ pc[p] = "execute" /\ External(line[c].prog)
          /\ pc' = [pc EXCEPT ![p] = "waitpid", !["command"] = "execv"]
          /\ fds' = [fds EXCEPT !["command"] = Dup2(fds[p], 1, 2)]
      BY <2>1 DEF ForkCommand
    <3>2. /\ pc'[p] = "waitpid" /\ pc'["command"] = "execv"
          /\ \A q \in Parents \ {p} : pc'[q] = pc[q]
      BY <1>1, <1>3, <3>1, CommandStarts
    <3>3. /\ fds' = [q \in Procs |-> fds'[q]] /\ fds'["command"] = Dup2(fds[p], 1, 2)
          /\ \A q \in Parents : fds'[q] = fds[q]
      BY <1>1, <3>1, ProcsAre
    <3> QED
      BY <3>1, <3>2, <3>3
  <2>2. CASE WaitForCommand(p)
    <3>1. /\ pc[p] = "waitpid" /\ pc["command"] = "exited" /\ fds' = fds
          /\ pc' = [pc EXCEPT ![p] = "restore", !["command"] = "none"]
      BY <2>2 DEF WaitForCommand, files
    <3>2. /\ pc'[p] = "restore" /\ pc'["command"] = "none"
          /\ \A q \in Parents \ {p} : pc'[q] = pc[q]
      BY <1>1, <1>3, <3>1, CommandEnds
    <3>3. fds["command"] = NoTable
      BY <1>1, <3>1, ProcsAre
    <3> QED
      BY <1>1, <3>1, <3>2, <3>3
  <2> QED
    BY <2>1, <2>2
<1>5. CommandIs(pc'["command"], fds'["command"], line, c, w)
  <2>1. CASE pc'["command"] = "execv" /\ fds'["command"] = Dup2(fds[p], 1, 2)
    <3>1. Redirected(fds[p], line[c], c, w)
      BY <1>4, ParentHere, ProcsAre
    <3>2. LET u == Dup2(fds[p], 1, 2) IN Redirected(u, line[c], c, w) /\ u[2] = Goes(line[c], c)
      BY <3>1, ErrorToo
    <3> QED
      BY <2>1, <3>2 DEF CommandIs
  <2>2. CASE pc'["command"] = "none"
    BY <2>2 DEF CommandIs
  <2> QED
    BY <1>4, <2>1, <2>2
<1>6. ShellIs(pc'["shell"], fds["shell"], ends["shell"], saved["shell"], line, c, w)
  <2>1. ShellIs(pc["shell"], fds["shell"], ends["shell"], saved["shell"], line, c, w)
    BY ShellHere
  <2>2. CASE p = "shell"
    <3>1. pc["shell"] \in Executing /\ pc'["shell"] \in Executing
      BY <1>4, <2>2 DEF Executing
    <3> HIDE DEF w
    <3> QED
      BY <2>1, <3>1, ShellExecutes
  <2>3. CASE p = "stage"
    BY <1>4, <2>1, <2>3, ProcsAre
  <2> QED
    BY <2>2, <2>3, ProcsAre
<1>7. StageIs(pc'["stage"], fds["stage"], ends["stage"], saved["stage"], line, c, w)
  <2>1. StageIs(pc["stage"], fds["stage"], ends["stage"], saved["stage"], line, c, w)
    BY ShellHere
  <2>2. CASE p = "stage"
    BY <1>4, <2>1, <2>2 DEF StageIs, Executing
  <2>3. CASE p = "shell"
    BY <1>4, <2>1, <2>3, ProcsAre
  <2> QED
    BY <2>2, <2>3, ProcsAre
<1>8. \A q \in Procs : pc'[q] \in {"none", "exited"} => fds'[q] = NoTable
  BY <1>1, <1>4, ProcsAre
<1>9. fds'["shell"] = fds["shell"] /\ fds'["stage"] = fds["stage"]
  BY <1>4, ProcsAre
<1>10. ShellIs(pc'["shell"], fds'["shell"], ends'["shell"], saved'["shell"], line', c', world')
  BY <1>1, <1>2, <1>6, <1>9
<1>11. StageIs(pc'["stage"], fds'["stage"], ends'["stage"], saved'["stage"], line', c', world')
  BY <1>1, <1>2, <1>7, <1>9
<1>12. CommandIs(pc'["command"], fds'["command"], line', c', world')
  BY <1>1, <1>2, <1>5
<1> QED
  BY <1>1, <1>2, <1>4, <1>8, <1>10, <1>11, <1>12 DEF TablesInv, EndsType

\* The stage before and after parseCmd.
LEMMA StageTables ==
    ASSUME IInv, SetUpStage \/ StageExits
    PROVE  TablesInv'
<1>1. CASE SetUpStage
  <2> DEFINE t == fds["stage"]
             e == ends["stage"]
             u == IntoPipe(FromPipe(t, e), e, line[c].out)
  <2>1. /\ pc["stage"] = "setup" /\ fds' = [fds EXCEPT !["stage"] = u] /\ Goto("stage", "parseCmd")
        /\ UNCHANGED <<ends, saved, failed, rc, input, line, c>>
    BY <1>1 DEF SetUpStage, session, source
  <2>2. /\ world' = world /\ ends' \in [Procs -> EndsType]
        /\ saved' \in [Procs -> [DOMAIN NoSaved -> -1 .. MaxFd']]
        /\ pc["stage"] # "none" /\ pc["command"] = "none"
    BY <2>1, TypesHere, StageIsAlone
  <2>3. ForCommand(u, line[c], c, world)
    <3>1. StageIs("setup", t, e, saved["stage"], line, c, world)
      BY <2>1, ShellHere
    <3> HIDE DEF t, e
    <3> QED
      BY <3>1, SetUpIs
  <2> HIDE DEF u
  <2>4. StageIs("parseCmd", u, ends'["stage"], saved'["stage"], line, c, world)
    BY <2>3 DEF StageIs, Executing
  <2>5. ends'["shell"] = ends["shell"] /\ saved'["shell"] = saved["shell"]
    BY <2>1
  <2>6. "parseCmd" # "none" /\ ("parseCmd" = "exited" => u = NoTable) /\ UNCHANGED <<line, c>>
    BY <2>1
  <2> HIDE DEF t, e
  <2> QED
    BY <2>1, <2>2, <2>4, <2>5, <2>6, OnlyStage
<1>2. CASE StageExits
  <2>1. /\ pc["stage"] = "return" /\ Goto("stage", "exited") /\ UNCHANGED <<rc, failed, input, line, c>>
        /\ fds' = [fds EXCEPT !["stage"] = NoTable] /\ ends' = [ends EXCEPT !["stage"] = NoEnds]
        /\ saved' = [saved EXCEPT !["stage"] = NoSaved]
    BY <1>2 DEF StageExits, Exit, SeekBack, Goto, session
  <2> QED
    BY <2>1, ExitTables, ProcsAre
<1> QED
  BY <1>1, <1>2

LEMMA CommandTables ==
    ASSUME IInv, CommandStep
    PROVE  TablesInv'
<1>1. /\ fds = [q \in Procs |-> fds[q]] /\ pc = [q \in Procs |-> pc[q]]
      /\ ends \in [Procs -> EndsType]
      /\ saved \in [Procs -> [DOMAIN NoSaved -> -1 .. MaxFd]]
  BY TypesHere
<1>2. /\ pc["command"] \in {"execv", "running"} /\ UNCHANGED <<failed, rc, input, line, c>>
  BY DEF CommandStep, Execv, ExecvFails, WriteUnit, CopyUnit, CopyFile, CommandExits, Running,
         Exit, SeekBack, session, source
<1>3. world' = world /\ MaxFd' = MaxFd
  BY <1>2, TypesHere
<1>4. CASE Execv \/ WriteUnit \/ CopyUnit \/ CopyFile
  <2>1. /\ UNCHANGED <<fds, ends, saved>>
        /\ Goto("command", "running") \/ pc' = pc
    BY <1>4 DEF Execv, WriteUnit, CopyUnit, CopyFile, files
  <2> DEFINE at == pc'["command"]
  <2>2. /\ at \in {"execv", "running"} /\ pc'["shell"] = pc["shell"] /\ pc'["stage"] = pc["stage"]
    BY <1>1, <1>2, <2>1, GotoIs, ProcsAre
  <2>3. CommandIs(at, fds'["command"], line, c, world)
    <3>1. CommandIs(pc["command"], fds["command"], line, c, world)
      BY ShellHere
    <3> QED
      BY <1>2, <2>1, <2>2, <3>1 DEF CommandIs
  <2>4. \A p \in Parents : ends'[p] = ends[p] /\ saved'[p] = saved[p]
    BY <2>1
  <2>5. at # "none" /\ at # "exited" /\ pc'["command"] = at
    BY <2>2
  <2> HIDE DEF at
  <2> QED
    BY <1>1, <1>2, <1>3, <2>1, <2>2, <2>3, <2>4, <2>5, OnlyCommand
<1>5. CASE ExecvFails \/ CommandExits
  <2>1. /\ Goto("command", "exited") /\ fds' = [fds EXCEPT !["command"] = NoTable]
        /\ ends' = [ends EXCEPT !["command"] = NoEnds]
        /\ saved' = [saved EXCEPT !["command"] = NoSaved]
    BY <1>5 DEF ExecvFails, CommandExits, Exit, Goto
  <2>2. /\ pc'["command"] = "exited" /\ pc'["shell"] = pc["shell"] /\ pc'["stage"] = pc["stage"]
    BY <1>1, <2>1, GotoIs, ProcsAre
  <2>3. \A p \in Parents : ends'[p] = ends[p] /\ saved'[p] = saved[p]
    BY <1>1, <2>1, ProcsAre
  <2>4. ends' \in [Procs -> EndsType]
    BY <1>1, <2>1, NoEndsType
  <2>5. saved' \in [Procs -> [DOMAIN NoSaved -> -1 .. MaxFd']]
    BY <1>2, <2>1, ExitSaves, ProcsAre
  <2>6. fds'["command"] = NoTable
    BY <1>1, <2>1, ProcsAre
  <2>7. CommandIs("exited", fds'["command"], line, c, world)
    BY DEF CommandIs
  <2> QED
    BY <1>2, <1>3, <2>1, <2>2, <2>3, <2>4, <2>5, <2>6, <2>7, OnlyCommand
<1> QED
  BY <1>4, <1>5 DEF CommandStep

LEMMA TablesKept ==
    ASSUME IInv, Next
    PROVE  TablesInv'
<1>1. ASSUME NEW p \in Parents, ParseCmd(p) PROVE TablesInv'
  BY <1>1, ParseTables, ForkCommandTables DEF ParseCmd
<1>2. CASE ShellStep
  BY <1>1, <1>2, MainTables, ForkTables, CloseTables, WaitTables, ProcsAre DEF ShellStep
<1>3. CASE StageStep
  BY <1>1, <1>3, StageTables, ProcsAre DEF StageStep
<1>4. CASE CommandStep
  BY <1>4, CommandTables
<1> QED
  BY <1>2, <1>3, <1>4, MainTables DEF Next

-----------------------------------------------------------------------------
(***************************************************************************)
(* Output.                                                                 *)
(***************************************************************************)
LEMMA Joins ==
    ASSUME NEW S, NEW q \in Seq(S), NEW r \in Seq(S)
    PROVE  /\ q \o r \in Seq(S) /\ Len(q \o r) = Len(q) + Len(r)
           /\ Range(q \o r) = Range(q) \cup Range(r)
<1>1. /\ q \o r \in Seq(S) /\ Len(q \o r) = Len(q) + Len(r)
      /\ \A i \in 1 .. Len(q) + Len(r) : (q \o r)[i] = IF i <= Len(q) THEN q[i] ELSE r[i - Len(q)]
  OBVIOUS
<1> DEFINE z == q \o r
<1>2. /\ Len(q) \in Nat /\ Len(r) \in Nat /\ DOMAIN q = 1 .. Len(q) /\ DOMAIN r = 1 .. Len(r)
      /\ DOMAIN z = 1 .. Len(q) + Len(r)
  BY <1>1
<1>3. \A i \in 1 .. Len(q) + Len(r) : z[i] = IF i <= Len(q) THEN q[i] ELSE r[i - Len(q)]
  BY <1>1
<1> HIDE DEF z
<1>4. Range(z) \subseteq Range(q) \cup Range(r)
  <2> SUFFICES ASSUME NEW i \in DOMAIN z PROVE z[i] \in Range(q) \cup Range(r)
    BY DEF Range
  <2>1. CASE i <= Len(q)
    BY <1>2, <1>3, <2>1 DEF Range
  <2>2. CASE i > Len(q)
    <3>1. i - Len(q) \in DOMAIN r /\ z[i] = r[i - Len(q)]
      BY <1>2, <1>3, <2>2
    <3> QED
      BY <3>1 DEF Range
  <2> QED
    BY <1>2, <2>1, <2>2
<1>5. Range(q) \subseteq Range(z)
  <2> SUFFICES ASSUME NEW i \in DOMAIN q PROVE q[i] \in Range(z)
    BY DEF Range
  <2>1. i \in DOMAIN z /\ z[i] = q[i]
    BY <1>2, <1>3
  <2> QED
    BY <2>1 DEF Range
<1>6. Range(r) \subseteq Range(z)
  <2> SUFFICES ASSUME NEW i \in DOMAIN r PROVE r[i] \in Range(z)
    BY DEF Range
  <2>1. i + Len(q) \in DOMAIN z /\ z[i + Len(q)] = r[i]
    <3>1. i + Len(q) \in 1 .. Len(q) + Len(r) /\ ~(i + Len(q) <= Len(q)) /\ (i + Len(q)) - Len(q) = i
      BY <1>2
    <3> QED
      BY <1>2, <1>3, <3>1
  <2> QED
    BY <2>1 DEF Range
<1> QED
  BY <1>1, <1>4, <1>5, <1>6 DEF z

Landing == [writer : Units, to : Entries(world)]
LEMMA LandingsAre ==
    ASSUME NEW d \in Entries(world), NEW ws \in Seq(Units)
    PROVE  /\ Landings(d, ws) \in Seq(Landing)
           /\ \A x \in Range(Landings(d, ws)) : \E u \in Range(ws) : x = [writer |-> u, to |-> d]
<1> DEFINE z == Landings(d, ws)
<1>1. /\ DOMAIN ws = 1 .. Len(ws) /\ Len(ws) \in Nat
      /\ \A i \in DOMAIN ws : ws[i] \in Units
  OBVIOUS
<1>2. z = [i \in 1 .. Len(ws) |-> [writer |-> ws[i], to |-> d]]
  BY <1>1 DEF Landings
<1>3. \A i \in 1 .. Len(ws) : [writer |-> ws[i], to |-> d] \in Landing
  BY <1>1 DEF Landing
<1>4. z \in Seq(Landing)
  <2> HIDE DEF z, Landing
  <2>1. z \in [1 .. Len(ws) -> Landing]
    BY <1>2, <1>3
  <2> QED
    BY <1>1, <2>1
<1>5. \A x \in Range(z) : \E u \in Range(ws) : x = [writer |-> u, to |-> d]
  BY <1>1, <1>2 DEF Range
<1> QED
  BY <1>4, <1>5

\* What is written to a pipe fits into it, and what lands is what is written.
LEMMA DeliverIs ==
    ASSUME NEW contents \in [Commands -> Seq(Units)],
           \A k \in Commands : Len(contents[k]) <= Capacity,
           NEW d \in Entries(world), NEW ws \in Seq(Units), Deliver(contents, d, ws),
           landed \in Seq(Landing)
    PROVE  /\ pipe' \in [Commands -> Seq(Units)] /\ \A k \in Commands : Len(pipe'[k]) <= Capacity
           /\ landed' \in Seq(Landing)
           /\ \A x \in Range(landed') :
                x \in Range(landed) \/ \E u \in Range(ws) : x = [writer |-> u, to |-> d]
<1>1. Room(contents, d, ws) /\ pipe' = Poured(contents, d, ws) /\ landed' = landed \o Landings(d, ws)
  BY DEF Deliver
<1>2. /\ landed' \in Seq(Landing)
      /\ \A x \in Range(landed') :
           x \in Range(landed) \/ \E u \in Range(ws) : x = [writer |-> u, to |-> d]
  <2>1. /\ Landings(d, ws) \in Seq(Landing)
        /\ \A x \in Range(Landings(d, ws)) : \E u \in Range(ws) : x = [writer |-> u, to |-> d]
    BY LandingsAre
  <2> HIDE DEF Landing
  <2>2. /\ landed' \in Seq(Landing) /\ Range(landed') = Range(landed) \cup Range(Landings(d, ws))
    BY <1>1, <2>1, Joins
  <2> QED
    BY <2>1, <2>2
<1>3. pipe' \in [Commands -> Seq(Units)] /\ \A k \in Commands : Len(pipe'[k]) <= Capacity
  <2>1. CASE d[1] = "write" /\ d[2] \in Commands
    <3>1. pipe' = [contents EXCEPT ![d[2]] = contents[d[2]] \o ws]
      BY <1>1, <2>1 DEF Poured
    <3>2. Len(contents[d[2]]) + Len(ws) <= Capacity
      BY <1>1, <2>1 DEF Room
    <3>3. /\ contents[d[2]] \o ws \in Seq(Units)
          /\ Len(contents[d[2]] \o ws) = Len(contents[d[2]]) + Len(ws)
      BY <2>1, Joins
    <3> DEFINE q == contents[d[2]] \o ws
    <3>4. q \in Seq(Units) /\ Len(q) <= Capacity /\ pipe' = [contents EXCEPT ![d[2]] = q]
      BY <3>1, <3>2, <3>3
    <3> HIDE DEF q
    <3> QED
      BY <2>1, <3>4
  <2>2. CASE d[1] = "write" /\ d[2] \notin Commands
    <3>1. pipe' = [contents EXCEPT ![d[2]] = contents[d[2]] \o ws]
      BY <1>1, <2>2 DEF Poured
    <3>2. pipe' = contents
      BY <2>2, <3>1
    <3> QED
      BY <3>2
  <2>3. CASE d[1] # "write"
    BY <1>1, <2>3 DEF Poured
  <2> QED
    BY <2>1, <2>2, <2>3
<1> QED
  BY <1>2, <1>3

LEMMA EntriesStay ==
    ASSUME UNCHANGED input
    PROVE  Entries(world') = Entries(world)
BY DEF Entries, world

LEMMA OutputHere ==
    ASSUME IInv
    PROVE  /\ buffer \in [Procs -> Seq(Units)]
           /\ pipe \in [Commands -> Seq(Units)] /\ \A k \in Commands : Len(pipe[k]) <= Capacity
           /\ landed \in Seq(Landing)
           /\ \A p \in Procs : IsBuffer(buffer[p], direct, typed, line, FALSE)
           /\ \A x \in Range(landed) : IsLanded(x, direct, typed, line)
<1>1. OutputInv
  BY DEF IInv
<1>2. \A p \in Procs : IsBuffer(buffer[p], direct, typed, line, FALSE)
  BY <1>1 DEF OutputInv, IsBuffer
<1> QED
  BY <1>1, <1>2 DEF OutputInv, Landing

LEMMA OutputMoves ==
    ASSUME UNCHANGED input, pc'["shell"] # "parsed",
           buffer' \in [Procs -> Seq(Units)],
           pipe' \in [Commands -> Seq(Units)], \A k \in Commands : Len(pipe'[k]) <= Capacity,
           landed' \in Seq(Landing),
           \A p \in Procs : IsBuffer(buffer'[p], direct', typed', line', FALSE),
           \A x \in Range(landed') : IsLanded(x, direct', typed', line')
    PROVE  OutputInv'
<1>1. landed' \in Seq([writer : Units, to : Entries(world')])
  BY EntriesStay DEF Landing
<1>2. \A p \in Procs : IsBuffer(buffer'[p], direct', typed', line', pc'["shell"] = "parsed")
  BY DEF IsBuffer
<1> QED
  BY <1>1, <1>2 DEF OutputInv, Units, Commands

\* A step that writes ws to d, the contents of the pipes being what they are.
LEMMA OutputDelivered ==
    ASSUME IInv, UNCHANGED <<input, direct, typed>>, pc'["shell"] # "parsed",
           NEW contents \in [Commands -> Seq(Units)],
           \A k \in Commands : Len(contents[k]) <= Capacity,
           NEW d \in Entries(world), NEW ws \in Seq(Units), Deliver(contents, d, ws),
           \A u \in Range(ws) : IsLanded([writer |-> u, to |-> d], direct, typed, line'),
           \A x \in Range(landed) : IsLanded(x, direct, typed, line'),
           buffer' \in [Procs -> Seq(Units)],
           \A p \in Procs : IsBuffer(buffer'[p], direct, typed, line', FALSE)
    PROVE  OutputInv'
<1>1. landed \in Seq(Landing)
  BY OutputHere
<1>2. /\ pipe' \in [Commands -> Seq(Units)] /\ \A k \in Commands : Len(pipe'[k]) <= Capacity
      /\ landed' \in Seq(Landing)
      /\ \A x \in Range(landed') :
           x \in Range(landed) \/ \E u \in Range(ws) : x = [writer |-> u, to |-> d]
  BY <1>1, DeliverIs
<1>3. \A x \in Range(landed') : IsLanded(x, direct', typed', line')
  BY <1>2
<1>4. \A p \in Procs : IsBuffer(buffer'[p], direct', typed', line', FALSE)
  OBVIOUS
<1>5. UNCHANGED input
  OBVIOUS
<1> QED
  BY <1>2, <1>3, <1>4, <1>5, OutputMoves

\* Text that waits in a buffer comes from ush, and on a terminal there is none.
LEMMA BufferLands ==
    ASSUME NEW q, NEW tty, NEW n, NEW l, IsBuffer(q, tty, n, l, FALSE), NEW d
    PROVE  \A u \in Range(q) : IsLanded([writer |-> u, to |-> d], tty, n, l)
<1> TAKE u \in Range(q)
<1>1. /\ u[1] <= n /\ ~tty
      /\ u[1] = n => u[2] \in DOMAIN l /\ ~External(l[u[2]].prog)
  <2>1. q # <<>>
    BY DEF Range
  <2> QED
    BY <2>1 DEF IsBuffer
<1> DEFINE x == [writer |-> u, to |-> d]
<1>2. x.writer = u
  OBVIOUS
<1> HIDE DEF x
<1>3. IsLanded(x, tty, n, l)
  BY <1>1, <1>2 DEF IsLanded
<1> QED
  BY <1>3 DEF x

LEMMA BufferIs ==
    ASSUME NEW tty, NEW n \in Int, NEW l
    PROVE  /\ IsBuffer(<<>>, tty, n, l, FALSE)
           /\ \A q \in Seq(Units) : IsBuffer(q, tty, n, l, TRUE) =>
                \A m : IsBuffer(q, tty, n, m, FALSE)
<1>1. Range(<<>>) = {}
  BY DEF Range
<1>2. IsBuffer(<<>>, tty, n, l, FALSE)
  BY <1>1 DEF IsBuffer
<1>3. ASSUME NEW q \in Seq(Units), IsBuffer(q, tty, n, l, TRUE), NEW m
      PROVE  IsBuffer(q, tty, n, m, FALSE)
  <2>1. \A u \in Range(q) : u[1] <= n /\ u[1] # n
    <3> TAKE u \in Range(q)
    <3>1. u[1] \in Int
      BY BoundsAssumption DEF Range, Units
    <3>2. u[1] < n
      BY <1>3 DEF IsBuffer
    <3> QED
      BY <3>1, <3>2
  <2>2. tty => q = <<>>
    BY <1>3 DEF IsBuffer
  <2> QED
    BY <2>1, <2>2 DEF IsBuffer
<1> QED
  BY <1>2, <1>3

LEMMA UnitIs ==
    ASSUME IInv, c <= Len(line)
    PROVE  /\ Unit \in Units /\ Unit[1] = typed /\ Unit[2] = c /\ typed \in Nat
           /\ c \in DOMAIN line /\ <<Unit>> \in Seq(Units) /\ Range(<<Unit>>) = {Unit}
           /\ Len(<<Unit>>) = 1
<1>1. Unit \in Units /\ c \in DOMAIN line /\ typed \in 1 .. MaxLines
  BY AtHand
<1>2. Unit[1] = typed /\ Unit[2] = c
  BY DEF Unit
<1>3. <<Unit>> \in Seq(Units) /\ Range(<<Unit>>) = {Unit} /\ Len(<<Unit>>) = 1
  BY <1>1 DEF Range
<1>4. typed \in Nat
  BY <1>1, BoundsAssumption
<1> QED
  BY <1>1, <1>2, <1>3, <1>4

LEMMA UnitLands ==
    ASSUME IInv, c <= Len(line)
    PROVE  IsLanded([writer |-> Unit, to |-> Goes(line[c], c)], direct, typed, line)
<1> DEFINE d == Goes(line[c], c)
           x == [writer |-> Unit, to |-> d]
<1>1. x.writer = Unit /\ x.to = d
  OBVIOUS
<1>2. Unit[1] = typed /\ Unit[2] = c /\ typed \in Nat /\ c \in DOMAIN line
  BY UnitIs
<1> HIDE DEF x
<1>3. IsLanded(x, direct, typed, line)
  BY <1>1, <1>2 DEF IsLanded, d
<1> QED
  BY <1>3 DEF x, d

\* fflush(NULL) and exit(0).
LEMMA FlushKeeps ==
    ASSUME IInv, UNCHANGED <<input, direct, typed, line>>, pc'["shell"] # "parsed",
           NEW p \in Procs, NEW d \in Entries(world), Deliver(pipe, d, buffer[p]),
           buffer' = [buffer EXCEPT ![p] = <<>>]
    PROVE  OutputInv'
<1>1. /\ buffer \in [Procs -> Seq(Units)]
      /\ pipe \in [Commands -> Seq(Units)] /\ \A k \in Commands : Len(pipe[k]) <= Capacity
      /\ \A q \in Procs : IsBuffer(buffer[q], direct, typed, line, FALSE)
      /\ \A x \in Range(landed) : IsLanded(x, direct, typed, line)
  BY OutputHere
<1>2. buffer[p] \in Seq(Units)
  BY <1>1
<1>3. \A u \in Range(buffer[p]) : IsLanded([writer |-> u, to |-> d], direct, typed, line')
  BY <1>1, BufferLands
<1>4. buffer' \in [Procs -> Seq(Units)]
  BY <1>1
<1>5. \A q \in Procs : IsBuffer(buffer'[q], direct, typed, line', FALSE)
  <2>1. IsBuffer(<<>>, direct, typed, line, FALSE)
    <3>1. typed \in Int
      BY DEF IInv, DataInv
    <3> QED
      BY <3>1, BufferIs
  <2> QED
    BY <1>1, <2>1
<1>6. \A x \in Range(landed) : IsLanded(x, direct, typed, line')
  BY <1>1
<1> QED
  BY <1>1, <1>2, <1>3, <1>4, <1>5, <1>6, OutputDelivered

\* Only buffers change: a child has a copy of its parent's, a program none.
LEMMA BufferMoves ==
    ASSUME IInv, UNCHANGED <<input, direct, typed, line, pipe, landed>>, pc'["shell"] # "parsed",
           buffer' \in [Procs -> Seq(Units)],
           \A p \in Procs : IsBuffer(buffer'[p], direct, typed, line, FALSE)
    PROVE  OutputInv'
<1>1. /\ pipe' \in [Commands -> Seq(Units)] /\ \A k \in Commands : Len(pipe'[k]) <= Capacity
      /\ landed' \in Seq(Landing)
      /\ \A x \in Range(landed') : IsLanded(x, direct', typed', line')
  BY OutputHere
<1>2. \A p \in Procs : IsBuffer(buffer'[p], direct', typed', line', FALSE)
  OBVIOUS
<1>3. UNCHANGED input
  OBVIOUS
<1> QED
  BY <1>1, <1>2, <1>3, OutputMoves

LEMMA OutputStill ==
    ASSUME IInv, UNCHANGED <<input, direct, typed, line, pipe, landed, buffer>>,
           pc'["shell"] # "parsed"
    PROVE  OutputInv'
<1>1. /\ buffer' \in [Procs -> Seq(Units)]
      /\ \A p \in Procs : IsBuffer(buffer'[p], direct, typed, line, FALSE)
  BY OutputHere
<1> QED
  BY <1>1, BufferMoves

LEMMA TableHere ==
    ASSUME IInv, NEW p \in Procs, pc[p] \notin {"none", "exited"}
    PROVE  /\ IsTable(fds[p], world)
           /\ \A n \in {0, 1, 2} : n \in DOMAIN fds[p] /\ fds[p][n] \in Entries(world)
<1>1. IsTable(fds[p], world)
  <2>1. CASE p = "shell"
    <3>1. pc["shell"] \in ShellAt
      BY DEF IInv, ControlInv
    <3>2. ShellIs(pc["shell"], fds["shell"], ends["shell"], saved["shell"], line, c, world)
      BY ShellHere
    <3>3. CASE pc["shell"] \in Resting
      BY <2>1, <3>3, ShellHere DEF IsBase
    <3>4. CASE pc["shell"] \in Executing
      BY <2>1, <3>2, <3>4, ShellExecutes DEF Redirected
    <3>5. CASE pc["shell"] = "next"
      BY <2>1, <3>5, ShellHere DEF BetweenCommands
    <3>6. CASE pc["shell"] \in {"forked", "wait"}
      BY <2>1, <3>2, <3>6, SetUpIs
    <3> QED
      BY <2>1, <3>1, <3>3, <3>4, <3>5, <3>6 DEF ShellAt, InCommand, Resting, Executing
  <2>2. CASE p = "stage"
    <3>1. pc["stage"] \in StageAt
      BY DEF IInv, ControlInv
    <3>2. StageIs(pc["stage"], fds["stage"], ends["stage"], saved["stage"], line, c, world)
      BY ShellHere
    <3> QED
      BY <2>2, <3>1, <3>2 DEF StageIs, StageAt, InCommand, Executing, ForCommand, Redirected
  <2>3. CASE p = "command"
    <3>1. pc["command"] \in CommandAt
      BY DEF IInv, ControlInv
    <3>2. CommandIs(pc["command"], fds["command"], line, c, world)
      BY ShellHere
    <3> QED
      BY <2>3, <3>1, <3>2 DEF CommandIs, CommandAt, Redirected
  <2> QED
    BY <2>1, <2>2, <2>3, ProcsAre
<1>2. /\ {0, 1, 2} \subseteq DOMAIN fds[p] /\ \A m \in DOMAIN fds[p] : fds[p][m] \in Entries(world)
  BY <1>1, TableEntries
<1> QED
  BY <1>1, <1>2

LEMMA RestoredHere ==
    ASSUME IInv, NEW p \in Parents, pc[p] \in Executing
    PROVE  Restored(fds[p], saved[p], line[c])[1] \in Entries(world)
<1>1. Redirected(fds[p], line[c], c, world) /\ IsSaved(fds[p], saved[p], line[c])
  <2>1. pc[p] \in InCommand
    BY ProcsAre
  <2> QED
    BY <2>1, ParentHere
<1> DEFINE r == Restored(fds[p], saved[p], line[c])
<1>2. IsTable(r, world)
  BY <1>1, RestoredInStage DEF Redirected
<1> HIDE DEF r
<1>3. r[1] \in Entries(world)
  BY <1>2, TableEntries
<1> QED
  BY <1>3 DEF r

LEMMA ExitKeeps ==
    ASSUME IInv, UNCHANGED <<input, direct, typed, line>>,
           NEW p \in Procs, pc[p] \notin {"none", "exited"}, Exit(p, <<>>)
    PROVE  OutputInv'
<1>1. pc = [q \in Procs |-> pc[q]] /\ buffer \in [Procs -> Seq(Units)]
  BY TypesHere, OutputHere
<1>2. buffer[p] \o <<>> = buffer[p]
  BY <1>1
<1>3. /\ Deliver(pipe, fds[p][1], buffer[p]) /\ buffer' = [buffer EXCEPT ![p] = <<>>]
      /\ pc' = [pc EXCEPT ![p] = "exited"]
  BY <1>2 DEF Exit
<1>4. fds[p][1] \in Entries(world)
  BY TableHere
<1>5. pc["shell"] # "parsed" \/ p = "shell"
  BY ProcsAre DEF IInv, ControlInv
<1>6. pc'["shell"] # "parsed"
  BY <1>1, <1>3, <1>5, ProcsAre
<1> QED
  BY <1>3, <1>4, <1>6, FlushKeeps

LEMMA PrintKeeps ==
    ASSUME IInv, NEW p \in Parents, PrintOne(p)
    PROVE  OutputInv'
<1>1. /\ pc[p] = "execute" /\ Goto(p, "restore") /\ line[c].prog \in {"echo", "missing"}
      /\ UNCHANGED <<input, typed, line>> /\ Printed(p, fds[p])
      /\ direct \in BOOLEAN
  BY DEF PrintOne, session, source, IInv, StdioInv
<1>2. /\ c <= Len(line) /\ p \in Procs
      /\ pc'["shell"] # "parsed"
  <2>1. c <= Len(line)
    BY <1>1, NoCommand, ProcsAre
  <2>2. pc["shell"] # "parsed" \/ p = "shell"
    BY <1>1, ProcsAre DEF IInv, ControlInv
  <2> QED
    BY <1>1, <2>1, <2>2, TypesHere, GotoIs, ProcsAre
<1>3. /\ buffer \in [Procs -> Seq(Units)]
      /\ pipe \in [Commands -> Seq(Units)] /\ \A k \in Commands : Len(pipe[k]) <= Capacity
      /\ \A q \in Procs : IsBuffer(buffer[q], direct, typed, line, FALSE)
      /\ \A x \in Range(landed) : IsLanded(x, direct, typed, line)
  BY OutputHere
<1>4. CASE Mode(p, fds[p]) = "line"
  <2>1. Deliver(pipe, fds[p][1], <<Unit>>) /\ UNCHANGED <<buffer, direct>>
    BY <1>1, <1>4 DEF Printed
  <2>2. fds[p][1] = Goes(line[c], c)
    BY <1>1, ParentHere, ProcsAre DEF Redirected
  <2>3. fds[p][1] \in Entries(world)
    BY <1>1, <1>2, TableHere
  <2>4. <<Unit>> \in Seq(Units) /\ Range(<<Unit>>) = {Unit}
    BY <1>2, UnitIs
  <2>5. \A u \in Range(<<Unit>>) : IsLanded([writer |-> u, to |-> fds[p][1]], direct, typed, line')
    BY <1>1, <1>2, <2>2, <2>4, UnitLands
  <2>6. /\ \A x \in Range(landed) : IsLanded(x, direct, typed, line')
        /\ buffer' \in [Procs -> Seq(Units)]
        /\ \A q \in Procs : IsBuffer(buffer'[q], direct, typed, line', FALSE)
    BY <1>1, <1>3, <2>1
  <2> QED
    BY <1>1, <1>2, <1>3, <2>1, <2>3, <2>4, <2>5, <2>6, OutputDelivered
<1>5. CASE Mode(p, fds[p]) # "line"
  <2>1. /\ buffer' = [buffer EXCEPT ![p] = Append(buffer[p], Unit)] /\ UNCHANGED <<pipe, landed>>
        /\ direct' = FALSE
    BY <1>1, <1>5 DEF Printed
  <2> DEFINE q == Append(buffer[p], Unit)
  <2>2. /\ buffer[p] \in Seq(Units) /\ Unit \in Units /\ Unit[1] = typed /\ Unit[2] = c
        /\ c \in DOMAIN line /\ typed \in Nat
    BY <1>2, <1>3, UnitIs
  <2>3. q \in Seq(Units) /\ Range(q) = Range(buffer[p]) \cup {Unit}
    BY <2>2, Enqueued
  <2>4. buffer' = [buffer EXCEPT ![p] = q]
    BY <2>1
  <2> HIDE DEF q
  <2>5. \A r \in Procs : IsBuffer(buffer[r], FALSE, typed, line, FALSE)
    BY <1>3 DEF IsBuffer
  <2>6. IsBuffer(q, FALSE, typed, line, FALSE)
    <3>1. ~External(line[c].prog)
      BY <1>1 DEF External
    <3> QED
      BY <1>2, <2>2, <2>3, <2>5, <3>1 DEF IsBuffer
  <2>7. /\ buffer' \in [Procs -> Seq(Units)]
        /\ \A r \in Procs : IsBuffer(buffer'[r], direct', typed', line', FALSE)
    BY <1>1, <1>2, <1>3, <2>1, <2>3, <2>4, <2>5, <2>6
  <2>8. /\ pipe' \in [Commands -> Seq(Units)] /\ \A k \in Commands : Len(pipe'[k]) <= Capacity
        /\ landed' \in Seq(Landing)
    BY <2>1, OutputHere
  <2>9. \A x \in Range(landed') : IsLanded(x, direct', typed', line')
    BY <1>1, <1>3, <2>1 DEF IsLanded
  <2> QED
    BY <1>1, <1>2, <2>7, <2>8, <2>9, OutputMoves
<1> QED
  BY <1>4, <1>5

LEMMA FlushTypes ==
    ASSUME buffer \in [Procs -> Seq(Units)], NEW p, buffer' = [buffer EXCEPT ![p] = <<>>]
    PROVE  buffer' \in [Procs -> Seq(Units)]
<1>1. <<>> \in Seq(Units)
  OBVIOUS
<1> DEFINE S == Seq(Units)
<1>2. <<>> \in S /\ buffer \in [Procs -> S]
  BY <1>1
<1> HIDE DEF S
<1>3. buffer' \in [Procs -> S]
  BY <1>2
<1> QED
  BY <1>3 DEF S

\* The command writes a unit where its line says, a filter after it has taken one
\* from the pipe before it.
LEMMA WriteKeeps ==
    ASSUME IInv, WriteUnit \/ CopyUnit \/ CopyFile
    PROVE  OutputInv'
<1>1. /\ pc["command"] = "running" /\ UNCHANGED <<input, direct, typed, line, buffer, pc>>
  BY DEF WriteUnit, CopyUnit, CopyFile, Running, session, source, stdio
<1>2. /\ c <= Len(line) /\ \A n \in {1, 2} : fds["command"][n] = Goes(line[c], c)
      /\ \A n \in {0, 1, 2} : fds["command"][n] \in Entries(world)
  BY <1>1, CommandHere DEF Redirected
<1>3. /\ buffer \in [Procs -> Seq(Units)]
      /\ pipe \in [Commands -> Seq(Units)] /\ \A k \in Commands : Len(pipe[k]) <= Capacity
      /\ \A q \in Procs : IsBuffer(buffer[q], direct, typed, line, FALSE)
      /\ \A x \in Range(landed) : IsLanded(x, direct, typed, line)
  BY OutputHere
<1>4. pc'["shell"] # "parsed"
  BY <1>1, ProcsAre DEF IInv, ControlInv
<1>5. ASSUME NEW contents \in [Commands -> Seq(Units)],
             \A k \in Commands : Len(contents[k]) <= Capacity,
             \E n \in {1, 2} : Deliver(contents, WrittenTo(n), <<Unit>>)
      PROVE  OutputInv'
  <2>1. PICK n \in {1, 2} : Deliver(contents, fds["command"][n], <<Unit>>)
    BY <1>5 DEF WrittenTo
  <2> DEFINE d == fds["command"][n]
  <2>2. d \in Entries(world) /\ d = Goes(line[c], c)
    BY <1>2
  <2>3. <<Unit>> \in Seq(Units) /\ Range(<<Unit>>) = {Unit}
    BY <1>2, UnitIs
  <2>4. \A u \in Range(<<Unit>>) : IsLanded([writer |-> u, to |-> d], direct, typed, line')
    BY <1>1, <1>2, <2>2, <2>3, UnitLands
  <2>5. /\ \A x \in Range(landed) : IsLanded(x, direct, typed, line')
        /\ buffer' \in [Procs -> Seq(Units)]
        /\ \A q \in Procs : IsBuffer(buffer'[q], direct, typed, line', FALSE)
    BY <1>1, <1>3
  <2>6. Deliver(contents, d, <<Unit>>)
    BY <2>1
  <2> HIDE DEF d
  <2> QED
    BY <1>1, <1>4, <1>5, <2>2, <2>3, <2>4, <2>5, <2>6, OutputDelivered
<1>6. CASE WriteUnit \/ CopyFile
  <2>1. \E n \in {1, 2} : Deliver(pipe, WrittenTo(n), <<Unit>>)
    BY <1>6 DEF WriteUnit, CopyFile
  <2> QED
    BY <1>3, <1>5, <2>1
<1>7. CASE CopyUnit
  <2> DEFINE j == fds["command"][0][2]
             contents == [pipe EXCEPT ![j] = Tail(@)]
  <2>1. /\ pipe[j] # <<>> /\ \E n \in {1, 2} : Deliver(contents, WrittenTo(n), <<Unit>>)
    BY <1>7 DEF CopyUnit
  <2> HIDE DEF j
  <2>2. ASSUME j \in Commands
        PROVE  Tail(pipe[j]) \in Seq(Units) /\ Len(Tail(pipe[j])) <= Capacity
    <3>1. pipe[j] \in Seq(Units) /\ Len(pipe[j]) <= Capacity
      BY <1>3, <2>2
    <3>2. Tail(pipe[j]) \in Seq(Units) /\ Len(Tail(pipe[j])) = Len(pipe[j]) - 1
      BY <2>1, <3>1, Dequeued
    <3> QED
      BY <3>1, <3>2, BoundsAssumption
  <2>3. contents \in [Commands -> Seq(Units)] /\ \A k \in Commands : Len(contents[k]) <= Capacity
    BY <1>3, <2>2
  <2> HIDE DEF contents
  <2> QED
    BY <1>5, <2>1, <2>3
<1> QED
  BY <1>6, <1>7

\* A file that cannot be executed: the child says so, and exits.
LEMMA RefusalKeeps ==
    ASSUME IInv, ExecvFails
    PROVE  OutputInv'
<1>1. /\ pc["command"] = "execv" /\ Exit("command", <<Unit>>)
      /\ UNCHANGED <<input, direct, typed, line>>
  BY DEF ExecvFails, SeekBack, session, Exit, stdio
<1> DEFINE d == fds["command"][1]
           b == buffer["command"]
           ws == b \o <<Unit>>
<1>2. /\ c <= Len(line) /\ d = Goes(line[c], c) /\ d \in Entries(world)
  BY <1>1, CommandHere DEF Redirected
<1>3. /\ buffer \in [Procs -> Seq(Units)]
      /\ pipe \in [Commands -> Seq(Units)] /\ \A k \in Commands : Len(pipe[k]) <= Capacity
      /\ \A q \in Procs : IsBuffer(buffer[q], direct, typed, line, FALSE)
      /\ \A x \in Range(landed) : IsLanded(x, direct, typed, line)
  BY OutputHere
<1>4. pc'["shell"] # "parsed"
  BY <1>1, TypesHere, ProcsAre DEF IInv, ControlInv, Exit
<1>5. Deliver(pipe, d, ws) /\ buffer' = [buffer EXCEPT !["command"] = <<>>]
  BY <1>1 DEF Exit
<1>6. <<Unit>> \in Seq(Units) /\ Range(<<Unit>>) = {Unit}
  BY <1>2, UnitIs
<1>7. /\ b \in Seq(Units) /\ IsBuffer(b, direct, typed, line, FALSE)
  BY <1>3, ProcsAre
<1> HIDE DEF d, b
<1>8. ws \in Seq(Units) /\ Range(ws) = Range(b) \cup {Unit}
  <2> DEFINE one == <<Unit>>
  <2>1. one \in Seq(Units) /\ Range(one) = {Unit}
    BY <1>6
  <2> HIDE DEF one
  <2>2. b \o one \in Seq(Units) /\ Range(b \o one) = Range(b) \cup Range(one)
    BY <1>7, <2>1, Joins
  <2> QED
    BY <2>1, <2>2 DEF one
<1> HIDE DEF ws
<1>9. \A u \in Range(ws) : IsLanded([writer |-> u, to |-> d], direct, typed, line')
  <2>1. \A u \in Range(b) : IsLanded([writer |-> u, to |-> d], direct, typed, line)
    BY <1>7, BufferLands
  <2>2. IsLanded([writer |-> Unit, to |-> d], direct, typed, line)
    BY <1>2, UnitLands
  <2> QED
    BY <1>1, <1>8, <2>1, <2>2
<1>10. /\ \A x \in Range(landed) : IsLanded(x, direct, typed, line')
       /\ buffer' \in [Procs -> Seq(Units)]
  <2>1. buffer' \in [Procs -> Seq(Units)]
    BY <1>3, <1>5, FlushTypes
  <2> QED
    BY <1>1, <1>3, <2>1
<1>11. \A q \in Procs : IsBuffer(buffer'[q], direct, typed, line', FALSE)
  <2>1. typed \in Int
    BY DEF IInv, DataInv
  <2>2. IsBuffer(<<>>, direct, typed, line, FALSE)
    BY <2>1, BufferIs
  <2> QED
    BY <1>1, <1>3, <1>5, <2>2
<1> QED
  BY <1>1, <1>2, <1>3, <1>4, <1>5, <1>8, <1>9, <1>10, <1>11, OutputDelivered

\* A line begins with empty buffers, unless the shell's stdio is fully buffered.
LEMMA NothingKept ==
    ASSUME IInv, NEW l, Parsed(l)
    PROVE  /\ mode' \in [Parents -> {"unset", "line", "full"}] /\ mode'["stage"] = mode["stage"]
           /\ mode["shell"] = "line" => mode'["shell"] = "line"
           /\ mode'["shell"] # "full" => mode["shell"] # "full"
           /\ direct' \in BOOLEAN
           /\ direct' => \A q \in Procs : buffer[q] = <<>>
           /\ pc["stage"] = "none" /\ pc["command"] = "none"
<1>1. /\ pc["shell"] \in {"prompt", "rc"} /\ Prompted /\ direct' = (mode'["shell"] # "full")
      /\ mode \in [Parents -> {"unset", "line", "full"}]
      /\ \A p \in Procs : pc[p] \in {"none", "exited"} => buffer[p] = <<>>
      /\ \A p \in Parents : mode[p] # "full" => buffer[p] = <<>>
  BY DEF Parsed, IInv, StdioInv
<1>2. pc["stage"] = "none" /\ pc["command"] = "none"
  BY <1>1, ProcsAre DEF IInv, ControlInv
<1>3. /\ Mode("shell", fds["shell"]) \in {"unset", "line", "full"}
      /\ mode["shell"] # "unset" => Mode("shell", fds["shell"]) = mode["shell"]
  BY <1>1, ProcsAre DEF Mode
<1>4. mode' = mode \/ mode' = [mode EXCEPT !["shell"] = Mode("shell", fds["shell"])]
  BY <1>1 DEF Prompted
<1>5. /\ mode' \in [Parents -> {"unset", "line", "full"}] /\ mode'["stage"] = mode["stage"]
      /\ mode["shell"] # "unset" => mode'["shell"] = mode["shell"]
  <2> DEFINE m == Mode("shell", fds["shell"])
             Modes == {"unset", "line", "full"}
  <2>1. m \in Modes /\ (mode["shell"] # "unset" => m = mode["shell"])
    BY <1>3
  <2>2. mode' = mode \/ mode' = [mode EXCEPT !["shell"] = m]
    BY <1>4
  <2>3. mode \in [Parents -> Modes] /\ "shell" \in Parents /\ "stage" \in Parents
    BY <1>1, ProcsAre
  <2> HIDE DEF m, Modes
  <2>4. /\ mode' \in [Parents -> Modes] /\ mode'["stage"] = mode["stage"]
        /\ mode["shell"] # "unset" => mode'["shell"] = mode["shell"]
    BY <2>1, <2>2, <2>3
  <2> QED
    BY <2>4 DEF Modes
<1>6. /\ mode["shell"] = "line" => mode'["shell"] = "line"
      /\ mode'["shell"] # "full" => mode["shell"] # "full"
  BY <1>5
<1>7. direct' => \A q \in Procs : buffer[q] = <<>>
  <2> HAVE direct'
  <2>1. buffer["shell"] = <<>>
    BY <1>1, <1>6, ProcsAre
  <2>2. buffer["stage"] = <<>> /\ buffer["command"] = <<>>
    BY <1>1, <1>2, ProcsAre
  <2> QED
    BY <2>1, <2>2, ProcsAre
<1>8. direct' \in BOOLEAN
  BY <1>1
<1> QED
  BY <1>2, <1>5, <1>6, <1>7, <1>8

\* The next line: nothing of it is written yet.
LEMMA ParsingStarts ==
    ASSUME IInv, NEW l, Parsed(l)
    PROVE  OutputInv'
<1>1. /\ UNCHANGED <<buffer, input>> /\ typed' = typed + 1
      /\ pipe' = [k \in Commands |-> <<>>] /\ landed' = <<>>
  BY DEF Parsed
<1>2. /\ buffer \in [Procs -> Seq(Units)]
      /\ \A q \in Procs : IsBuffer(buffer[q], direct, typed, line, FALSE)
  BY OutputHere
<1>3. \A q \in Procs : IsBuffer(buffer'[q], direct', typed', line', TRUE)
  <2> TAKE q \in Procs
  <2>1. buffer[q] \in Seq(Units) /\ IsBuffer(buffer[q], direct, typed, line, FALSE)
    BY <1>2
  <2>2. \A u \in Range(buffer[q]) : u[1] <= typed' /\ u[1] < typed' /\ u[1] # typed'
    <3> TAKE u \in Range(buffer[q])
    <3>1. u[1] \in Int /\ typed \in Int
      BY <2>1, BoundsAssumption DEF Range, Units, IInv, DataInv
    <3>2. u[1] <= typed
      BY <2>1 DEF IsBuffer
    <3> QED
      BY <1>1, <3>1, <3>2
  <2>3. direct' => buffer[q] = <<>>
    BY NothingKept
  <2> QED
    BY <1>1, <2>2, <2>3 DEF IsBuffer
<1>4. \A q \in Procs : IsBuffer(buffer'[q], direct', typed', line', pc'["shell"] = "parsed")
  BY <1>3 DEF IsBuffer
<1>5. /\ <<>> \in Seq(Units) /\ <<>> \in Seq([writer : Units, to : Entries(world')])
      /\ Len(<<>>) = 0 /\ Range(<<>>) = {}
  BY EmptyQueue
<1>6. pipe' \in [Commands -> Seq(Units)] /\ \A k \in Commands : Len(pipe'[k]) <= Capacity
  BY <1>1, <1>5, BoundsAssumption
<1>7. /\ landed' \in Seq([writer : Units, to : Entries(world')])
      /\ \A x \in Range(landed') : IsLanded(x, direct', typed', line')
  BY <1>1, <1>5
<1> QED
  BY <1>1, <1>2, <1>4, <1>6, <1>7 DEF OutputInv, Units, Commands

\* check_ushrc flushes what earlier lines left, if anything.
LEMMA LeavingKeeps ==
    ASSUME IInv, LeaveUshrc
    PROVE  OutputInv'
<1> DEFINE d == fds'["shell"][1]
           b == buffer["shell"]
<1>1. /\ pc["shell"] = "parsed" /\ Goto("shell", "prompt") /\ UNCHANGED <<input, direct, typed>>
      /\ Deliver(pipe, d, b) /\ buffer' = [buffer EXCEPT !["shell"] = <<>>]
  BY DEF LeaveUshrc, Flushed, stdio
<1>2. /\ buffer \in [Procs -> Seq(Units)]
      /\ pipe \in [Commands -> Seq(Units)] /\ \A k \in Commands : Len(pipe[k]) <= Capacity
  BY OutputHere
<1>3. pc'["shell"] = "prompt"
  BY <1>1, TypesHere, GotoIs, ProcsAre
<1>4. landed = <<>> /\ \A p \in Procs : IsBuffer(buffer[p], direct, typed, line, TRUE)
  BY <1>1 DEF IInv, OutputInv
<1>5. typed \in Int
  BY DEF IInv, DataInv
<1>6. \A p \in Procs : IsBuffer(buffer[p], direct, typed, line', FALSE)
  BY <1>2, <1>4, <1>5, BufferIs
<1>7. d \in Entries(world)
  <2>1. ShellIs(pc'["shell"], fds'["shell"], ends'["shell"], saved'["shell"], line', c', world')
    BY MainTables DEF TablesInv
  <2>2. IsBase(fds'["shell"], world')
    BY <1>3, <2>1 DEF ShellIs
  <2>3. fds'["shell"][1] \in Entries(world')
    BY <2>2, TableEntries DEF IsBase
  <2> QED
    BY <1>1, <2>3, EntriesStay
<1>8. b \in Seq(Units) /\ IsBuffer(b, direct, typed, line', FALSE)
  BY <1>2, <1>6, ProcsAre
<1> HIDE DEF d, b
<1>9. \A u \in Range(b) : IsLanded([writer |-> u, to |-> d], direct, typed, line')
  BY <1>8, BufferLands
<1>10. buffer' \in [Procs -> Seq(Units)]
  BY <1>1, <1>2, FlushTypes
<1>11. \A p \in Procs : IsBuffer(buffer'[p], direct, typed, line', FALSE)
  <2>1. IsBuffer(<<>>, direct, typed, line', FALSE)
    BY <1>5, BufferIs
  <2> QED
    BY <1>1, <1>2, <1>6, <2>1
<1>12. \A x \in Range(landed) : IsLanded(x, direct, typed, line')
  BY <1>4, EmptyQueue
<1>13. pc'["shell"] # "parsed"
  BY <1>3
<1> QED
  BY <1>1, <1>2, <1>7, <1>8, <1>9, <1>10, <1>11, <1>12, <1>13, OutputDelivered

LEMMA OutputKept ==
    ASSUME IInv, Next
    PROVE  OutputInv'
<1>0. /\ pc = [q \in Procs |-> pc[q]] /\ buffer \in [Procs -> Seq(Units)]
      /\ \A q \in Procs : IsBuffer(buffer[q], direct, typed, line, FALSE)
      /\ IsBuffer(<<>>, direct, typed, line, FALSE)
  <2>1. typed \in Int
    BY DEF IInv, DataInv
  <2>2. IsBuffer(<<>>, direct, typed, line, FALSE)
    BY <2>1, BufferIs
  <2> QED
    BY <2>2, TypesHere, OutputHere
<1>a. \A p \in {"stage", "command"} : pc[p] \notin {"none", "exited"} => pc["shell"] # "parsed"
  BY ProcsAre DEF IInv, ControlInv
<1>b. ASSUME NEW p \in Procs, NEW at, Goto(p, at), at # "parsed", pc["shell"] # "parsed" \/ p = "shell"
      PROVE  pc'["shell"] # "parsed"
  BY <1>0, <1>b, GotoIs, ProcsAre
<1>c. ASSUME NEW p \in Procs, NEW q \in Procs, UNCHANGED <<input, direct, typed, line, pipe, landed>>,
             buffer' = [buffer EXCEPT ![p] = buffer[q]] \/ buffer' = [buffer EXCEPT ![p] = <<>>],
             pc'["shell"] # "parsed"
      PROVE  OutputInv'
  <2>1. buffer' \in [Procs -> Seq(Units)]
    <3>1. CASE buffer' = [buffer EXCEPT ![p] = buffer[q]]
      <4> DEFINE S == Seq(Units)
      <4>1. buffer \in [Procs -> S]
        BY <1>0
      <4> HIDE DEF S
      <4>2. buffer' \in [Procs -> S]
        BY <1>c, <3>1, <4>1
      <4> QED
        BY <4>2 DEF S
    <3>2. CASE buffer' = [buffer EXCEPT ![p] = <<>>]
      BY <1>0, <3>2, FlushTypes
    <3> QED
      BY <1>c, <3>1, <3>2
  <2>2. \A r \in Procs : IsBuffer(buffer'[r], direct, typed, line, FALSE)
    BY <1>0, <1>c
  <2> QED
    BY <1>c, <2>1, <2>2, BufferMoves
<1>1. CASE \/ OpenUshrc \/ ExecuteLine \/ RunInShell \/ CloseOldEnds \/ NextInShell
  <2>1. UNCHANGED <<input, direct, typed, line, pipe, landed, buffer>>
    BY <1>1 DEF OpenUshrc, ExecuteLine, RunInShell, CloseOldEnds, NextInShell, session, source, io, stdio
  <2>2. \E at : Goto("shell", at) /\ at # "parsed"
    <3>1. \/ Goto("shell", "prompt") \/ Goto("shell", "rc") \/ Goto("shell", "next")
          \/ Goto("shell", "parseCmd") \/ Goto("shell", "wait")
      BY <1>1 DEF OpenUshrc, ExecuteLine, RunInShell, CloseOldEnds, NextInShell
    <3> QED
      BY <3>1
  <2>3. pc'["shell"] # "parsed"
    BY <1>b, <2>2, ProcsAre
  <2> QED
    BY <2>1, <2>3, OutputStill
<1>2. CASE LeaveUshrc
  BY <1>2, LeavingKeeps
<1>3. CASE (\E l \in Lines : ReadLine(l)) \/ ReadBuffered \/ ReadFile \/ ReadEnd
  BY <1>3, ParsingStarts DEF ReadLine, ReadBuffered, ReadFile, ReadEnd, Take
<1>4. CASE EndOfLine
  <2>1. pc["shell"] = "next" /\ UNCHANGED <<input, direct, typed, line>>
    BY <1>4 DEF EndOfLine, session, source, Flushed, io, stdio
  <2>2. CASE rc = NoRc
    <3>1. /\ Deliver(pipe, fds["shell"][1], buffer["shell"]) /\ Goto("shell", "prompt")
          /\ buffer' = [buffer EXCEPT !["shell"] = <<>>]
      BY <1>4, <2>2 DEF EndOfLine, Flushed
    <3>2. fds["shell"][1] \in Entries(world)
      BY <2>1, TableHere, ProcsAre
    <3>3. pc'["shell"] # "parsed"
      BY <1>b, <3>1, ProcsAre
    <3> QED
      BY <2>1, <3>1, <3>2, <3>3, FlushKeeps, ProcsAre
  <2>3. CASE rc # NoRc
    <3>1. Goto("shell", "rc") /\ UNCHANGED <<pipe, landed, buffer>>
      BY <1>4, <2>3 DEF EndOfLine, io
    <3>2. pc'["shell"] # "parsed"
      BY <1>b, <3>1, ProcsAre
    <3> QED
      BY <2>1, <3>1, <3>2, OutputStill
  <2> QED
    BY <2>2, <2>3
<1>5. CASE EndOfInput
  <2>1. /\ pc["shell"] = "next" /\ UNCHANGED <<input, direct, typed, line>>
        /\ Exit("shell", <<>>)
    BY <1>5 DEF EndOfInput, AtCommand, session, source, Exit, stdio
  <2> QED
    BY <2>1, ExitKeeps, ProcsAre
<1>6. CASE ForkStage
  <2>1. /\ buffer' = [buffer EXCEPT !["stage"] = buffer["shell"]]
        /\ pc' = [pc EXCEPT !["shell"] = "forked", !["stage"] = "setup"]
        /\ UNCHANGED <<input, direct, typed, line, pipe, landed>>
    BY <1>6 DEF ForkStage, session, source
  <2>2. pc'["shell"] # "parsed"
    BY <1>0, <2>1, ProcsAre
  <2> QED
    BY <1>c, <2>1, <2>2, ProcsAre
<1>7. CASE WaitForStage
  <2>1. /\ pc' = [pc EXCEPT !["shell"] = "next", !["stage"] = "none"]
        /\ UNCHANGED <<input, direct, typed, line, pipe, landed, buffer>>
    BY <1>7 DEF WaitForStage, session, source, io, stdio
  <2>2. pc'["shell"] # "parsed"
    BY <1>0, <2>1, ProcsAre
  <2> QED
    BY <2>1, <2>2, OutputStill
<1>8. CASE SetUpStage
  <2>1. /\ pc["stage"] = "setup" /\ Goto("stage", "parseCmd")
        /\ UNCHANGED <<input, direct, typed, line, pipe, landed, buffer>>
    BY <1>8 DEF SetUpStage, session, source, io, stdio
  <2>2. pc'["shell"] # "parsed"
    BY <1>a, <1>b, <2>1, ProcsAre
  <2> QED
    BY <2>1, <2>2, OutputStill
<1>9. CASE StageExits
  <2>1. /\ pc["stage"] = "return" /\ UNCHANGED <<input, direct, typed, line>>
        /\ Exit("stage", <<>>)
    BY <1>9 DEF StageExits, SeekBack, session, Exit, stdio
  <2> QED
    BY <2>1, ExitKeeps, ProcsAre
<1>10. ASSUME NEW p \in Parents, ParseCmd(p) PROVE OutputInv'
  <2>0. /\ p \in Procs /\ pc[p] \in InCommand
        /\ pc["shell"] # "parsed" \/ p = "shell"
    <3>1. p \in Procs /\ pc[p] \in InCommand
      BY <1>10, ProcsAre DEF ParseCmd, RedirectCommand, OutputOpenFails, PrintOne, Logout,
         ForkCommand, WaitForCommand, RestoreAndFlush, InCommand
    <3> QED
      BY <1>a, <3>1, ProcsAre
  <2>1. CASE RedirectCommand(p) \/ OutputOpenFails(p)
    <3>1. /\ Goto(p, "execute") \/ Goto(p, "return")
          /\ UNCHANGED <<input, direct, typed, line, pipe, landed, buffer>>
      BY <2>1 DEF RedirectCommand, OutputOpenFails, session, source, io, stdio
    <3>2. pc'["shell"] # "parsed"
      BY <1>b, <2>0, <3>1
    <3> QED
      BY <3>1, <3>2, OutputStill
  <2>2. CASE PrintOne(p)
    BY <2>2, PrintKeeps
  <2>3. CASE Logout(p)
    <3>1. /\ pc[p] = "execute" /\ UNCHANGED <<input, direct, typed, line>>
          /\ Exit(p, <<>>)
      BY <2>3 DEF Logout, SeekBack, session, Exit, stdio
    <3> QED
      BY <2>0, <3>1, ExitKeeps
  <2>4. CASE ForkCommand(p)
    <3>1. /\ buffer' = [buffer EXCEPT !["command"] = buffer[p]]
          /\ pc' = [pc EXCEPT ![p] = "waitpid", !["command"] = "execv"]
          /\ UNCHANGED <<input, direct, typed, line, pipe, landed>>
      BY <2>4 DEF ForkCommand, session, source, stdio
    <3>2. pc'["shell"] # "parsed"
      BY <1>0, <2>0, <3>1, ProcsAre
    <3> QED
      BY <1>c, <2>0, <3>1, <3>2, ProcsAre
  <2>5. CASE WaitForCommand(p)
    <3>1. /\ pc' = [pc EXCEPT ![p] = "restore", !["command"] = "none"]
          /\ UNCHANGED <<input, direct, typed, line, pipe, landed, buffer>>
      BY <2>5 DEF WaitForCommand, session, source, io, stdio
    <3>2. pc'["shell"] # "parsed"
      BY <1>0, <2>0, <3>1, ProcsAre
    <3> QED
      BY <3>1, <3>2, OutputStill
  <2>6. CASE RestoreAndFlush(p)
    <3>1. /\ pc[p] = "restore" /\ Goto(p, "return") /\ UNCHANGED <<input, direct, typed, line>>
      BY <2>6 DEF RestoreAndFlush, session, source, Flushed, io, stdio
    <3>2. pc'["shell"] # "parsed"
      BY <1>b, <2>0, <3>1
    <3>3. CASE ToFile(line[c].out) \/ line[c].in = "Tin"
      <4>1. /\ Deliver(pipe, Restored(fds[p], saved[p], line[c])[1], buffer[p])
            /\ buffer' = [buffer EXCEPT ![p] = <<>>]
        BY <2>6, <3>3 DEF RestoreAndFlush, Flushed
      <4>2. Restored(fds[p], saved[p], line[c])[1] \in Entries(world)
        BY <3>1, RestoredHere DEF Executing
      <4> QED
        BY <2>0, <3>1, <3>2, <4>1, <4>2, FlushKeeps
    <3>4. CASE ~(ToFile(line[c].out) \/ line[c].in = "Tin")
      <4>1. UNCHANGED <<pipe, landed, buffer>>
        BY <2>6, <3>4 DEF RestoreAndFlush, io
      <4> QED
        BY <3>1, <3>2, <4>1, OutputStill
    <3> QED
      BY <3>3, <3>4
  <2> QED
    BY <1>10, <2>1, <2>2, <2>3, <2>4, <2>5, <2>6 DEF ParseCmd
<1>11. CASE Execv
  <2>1. /\ pc["command"] = "execv" /\ Goto("command", "running")
        /\ buffer' = [buffer EXCEPT !["command"] = <<>>]
        /\ UNCHANGED <<input, direct, typed, line, pipe, landed>>
    BY <1>11 DEF Execv, session, source, stdio
  <2>2. pc'["shell"] # "parsed"
    BY <1>a, <1>b, <2>1, ProcsAre
  <2> QED
    BY <1>c, <2>1, <2>2, ProcsAre
<1>12. CASE ExecvFails
  BY <1>12, RefusalKeeps
<1>13. CASE WriteUnit \/ CopyUnit \/ CopyFile
  BY <1>13, WriteKeeps
<1>14. CASE CommandExits
  <2>1. /\ pc["command"] = "running" /\ UNCHANGED <<input, direct, typed, line>>
        /\ Exit("command", <<>>)
    BY <1>14 DEF CommandExits, session, source, Exit, stdio
  <2> QED
    BY <2>1, ExitKeeps, ProcsAre
<1> QED
  BY <1>1, <1>2, <1>3, <1>4, <1>5, <1>6, <1>7, <1>8, <1>9, <1>10, <1>11, <1>12, <1>13, <1>14, ProcsAre
  DEF Next, ShellStep, StageStep, CommandStep

-----------------------------------------------------------------------------
(***************************************************************************)
(* stdio.                                                                  *)
(***************************************************************************)
LEMMA StdioHere ==
    ASSUME IInv
    PROVE  /\ mode \in [Parents -> {"unset", "line", "full"}] /\ direct \in BOOLEAN
           /\ \A p \in Procs : pc[p] \in {"none", "exited"} => buffer[p] = <<>>
           /\ \A p \in Parents : mode[p] # "full" => buffer[p] = <<>>
           /\ mode["shell"] = "line" /\ pc["stage"] # "none" => mode["stage"] = "line"
           /\ typed = 0 => failed["shell"] = 0 /\ mode["shell"] # "full"
           /\ input["rc"] = NoFile => rc = NoRc
           /\ TypedAtTerminal => mode["shell"] = "line" /\ direct
BY DEF IInv, StdioInv

\* A step that leaves the modes alone, and at most empties buffers.
LEMMA StdioMoves ==
    ASSUME IInv, UNCHANGED <<stdio, interactive, input, typed>>,
           \A p \in Procs : buffer'[p] \in {buffer[p], <<>>},
           \A p \in Procs :
               pc'[p] \in {"none", "exited"} => pc[p] \in {"none", "exited"} \/ buffer'[p] = <<>>,
           pc'["stage"] # "none" => pc["stage"] # "none",
           failed'["shell"] = failed["shell"] \/ typed # 0,
           rc' = rc \/ rc' = NoRc \/ input["rc"] # NoFile
    PROVE  StdioInv'
<1>1. UNCHANGED <<mode, direct, typed, input>> /\ TypedAtTerminal' = TypedAtTerminal
  BY DEF stdio, TypedAtTerminal
<1>2. \A p \in Parents : p \in Procs
  BY ProcsAre
<1>3. \A p \in Procs : pc'[p] \in {"none", "exited"} => buffer'[p] = <<>>
  BY StdioHere
<1>4. \A p \in Parents : mode'[p] # "full" => buffer'[p] = <<>>
  BY <1>1, <1>2, StdioHere
<1> QED
  BY <1>1, <1>3, <1>4, StdioHere DEF StdioInv

LEMMA StdioStill ==
    ASSUME IInv, UNCHANGED <<stdio, buffer, interactive, input, typed, failed>>,
           \A p \in Procs : pc'[p] \in {"none", "exited"} => pc[p] \in {"none", "exited"},
           pc'["stage"] # "none" => pc["stage"] # "none",
           rc' = rc \/ rc' = NoRc \/ input["rc"] # NoFile
    PROVE  StdioInv'
BY StdioMoves

\* fflush(NULL).
LEMMA StdioFlushed ==
    ASSUME IInv, NEW p \in Procs, NEW t, Flushed(p, t),
           UNCHANGED <<interactive, input, typed, failed>>,
           \A q \in Procs : pc'[q] \in {"none", "exited"} => pc[q] \in {"none", "exited"},
           pc'["stage"] # "none" => pc["stage"] # "none",
           rc' = rc \/ rc' = NoRc
    PROVE  StdioInv'
<1>1. buffer' = [buffer EXCEPT ![p] = <<>>] /\ UNCHANGED stdio
  BY DEF Flushed
<1>2. \A q \in Procs : buffer'[q] \in {buffer[q], <<>>}
  BY <1>1, OutputHere
<1> QED
  BY <1>1, <1>2, StdioMoves

LEMMA StdioExits ==
    ASSUME IInv, NEW p \in Procs, pc[p] \notin {"none", "exited"}, NEW ws, Exit(p, ws),
           UNCHANGED <<interactive, input, typed, failed, rc>>
    PROVE  StdioInv'
<1>1. /\ buffer' = [buffer EXCEPT ![p] = <<>>] /\ UNCHANGED stdio
      /\ pc' = [pc EXCEPT ![p] = "exited"]
  BY DEF Exit
<1>2. /\ \A q \in Procs : buffer'[q] \in {buffer[q], <<>>}
      /\ buffer'[p] = <<>> /\ \A q \in Procs \ {p} : pc'[q] = pc[q]
      /\ pc'["stage"] # "none" => pc["stage"] # "none"
  BY <1>1, OutputHere, TypesHere, ProcsAre
<1> QED
  BY <1>1, <1>2, StdioMoves

\* The first text that is printed chooses the mode; at a terminal the prompt has
\* done so before.
LEMMA StdioPrints ==
    ASSUME IInv, NEW p \in Parents, PrintOne(p)
    PROVE  StdioInv'
<1> DEFINE m == Mode(p, fds[p])
<1>1. /\ pc[p] = "execute" /\ Goto(p, "restore") /\ p \in Procs
      /\ UNCHANGED <<interactive, input, typed, line, rc, failed>>
      /\ mode' = [mode EXCEPT ![p] = m] /\ direct' = (direct /\ m = "line")
      /\ m = "line" => UNCHANGED buffer
      /\ \A q \in Procs \ {p} : buffer'[q] = buffer[q]
  <2>1. /\ pc[p] = "execute" /\ Goto(p, "restore") /\ p \in Procs
        /\ UNCHANGED <<interactive, input, typed, line, rc, failed>> /\ Printed(p, fds[p])
    BY ProcsAre DEF PrintOne, session, source
  <2> QED
    BY <2>1, OutputHere DEF Printed
<1>2. m \in {"unset", "line", "full"} /\ m # "unset" /\ (mode[p] # "unset" => m = mode[p])
  BY StdioHere DEF Mode
<1> HIDE DEF m
<1>3. /\ c <= Len(line) /\ typed \in Nat /\ typed # 0
      /\ pc = [q \in Procs |-> pc[q]]
      /\ p = "shell" => pc["stage"] = "none"
      /\ p = "stage" => pc["stage"] # "none"
  <2>1. c <= Len(line)
    BY <1>1, NoCommand, ProcsAre
  <2>2. typed \in 1 .. MaxLines
    BY <2>1, AtHand
  <2> QED
    BY <1>1, <2>1, <2>2, BoundsAssumption, TypesHere, ProcsAre DEF IInv, ControlInv
<1>4. /\ pc'[p] = "restore" /\ \A q \in Procs \ {p} : pc'[q] = pc[q]
  BY <1>1, <1>3, GotoIs
<1>5. mode' \in [Parents -> {"unset", "line", "full"}] /\ direct' \in BOOLEAN
  BY <1>1, <1>2, StdioHere
<1>6. \A q \in Procs : pc'[q] \in {"none", "exited"} => buffer'[q] = <<>>
  BY <1>1, <1>4, StdioHere
<1>7. \A q \in Parents : mode'[q] # "full" => buffer'[q] = <<>>
  <2>1. m # "full" => buffer'[p] = <<>>
    BY <1>1, <1>2, StdioHere
  <2>2. \A q \in Parents : mode'[q] = (IF q = p THEN m ELSE mode[q])
    BY <1>1, StdioHere
  <2>3. \A q \in Parents \ {p} : mode[q] # "full" => buffer'[q] = <<>>
    BY <1>1, StdioHere, ProcsAre
  <2> QED
    BY <2>1, <2>2, <2>3
<1>8. mode["shell"] = "line" => m = "line"
  BY <1>2, <1>3, StdioHere, ProcsAre
<1>9. mode'["shell"] = "line" /\ pc'["stage"] # "none" => mode'["stage"] = "line"
  BY <1>1, <1>3, <1>4, <1>8, StdioHere, ProcsAre
<1>10. TypedAtTerminal' => mode'["shell"] = "line" /\ direct'
  <2>1. TypedAtTerminal' = TypedAtTerminal
    BY <1>1 DEF TypedAtTerminal
  <2> QED
    BY <1>1, <1>8, <2>1, StdioHere, ProcsAre
<1> QED
  BY <1>1, <1>3, <1>5, <1>6, <1>7, <1>9, <1>10, StdioHere DEF StdioInv

\* The prompt.
LEMMA StdioPrompts ==
    ASSUME IInv, NEW l, Parsed(l)
    PROVE  StdioInv'
<1>1. /\ pc["shell"] \in {"prompt", "rc"} /\ Goto("shell", "parsed")
      /\ Prompted /\ direct' = (mode'["shell"] # "full") /\ typed' = typed + 1
      /\ UNCHANGED <<buffer, interactive, input, rc, failed>>
  BY DEF Parsed
<1>2. /\ mode' \in [Parents -> {"unset", "line", "full"}] /\ mode'["stage"] = mode["stage"]
      /\ mode["shell"] = "line" => mode'["shell"] = "line"
      /\ mode'["shell"] # "full" => mode["shell"] # "full"
      /\ pc["stage"] = "none" /\ pc["command"] = "none" /\ typed \in Nat
  BY NothingKept DEF IInv, DataInv
<1>3. pc'["shell"] = "parsed" /\ pc'["stage"] = "none" /\ pc'["command"] = "none"
  BY <1>1, <1>2, GotoIs, TypesHere, ProcsAre
<1>4. mode' \in [Parents -> {"unset", "line", "full"}] /\ direct' \in BOOLEAN
  BY <1>1, <1>2, StdioHere
<1>5. \A p \in Procs : pc'[p] \in {"none", "exited"} => buffer'[p] = <<>>
  BY <1>1, <1>2, <1>3, StdioHere, ProcsAre
<1>6. \A p \in Parents : mode'[p] # "full" => buffer'[p] = <<>>
  BY <1>1, <1>2, StdioHere, ProcsAre
<1>7. typed' # 0
  BY <1>1, <1>2
<1>8. ASSUME TypedAtTerminal' PROVE mode'["shell"] = "line"
  <2>1. interactive /\ input["rc"] = NoFile /\ input["stdin"] = NoFile
    BY <1>1, <1>8 DEF TypedAtTerminal
  <2>2. CASE typed > 0
    BY <1>2, <2>1, <2>2, StdioHere DEF TypedAtTerminal
  <2>3. CASE typed = 0
    <3>1. rc = NoRc /\ failed["shell"] = 0 /\ mode["shell"] # "full" /\ pc["shell"] = "prompt"
      BY <1>1, <2>1, <2>3, StdioHere DEF IInv, ControlInv
    <3>2. IsBase(fds["shell"], world)
      BY <3>1, ShellHere DEF Resting
    <3>3. fds["shell"] = Terminal
      BY <3>1, <3>2, WorldIs DEF IsBase
    <3>4. IsTerminal(fds["shell"][0]) /\ IsTerminal(fds["shell"][1])
      BY <2>1, <3>3, TerminalIs DEF IsTerminal
    <3>5. mode' = [mode EXCEPT !["shell"] = Mode("shell", fds["shell"])]
      BY <1>1, <3>1, <3>4 DEF Prompted
    <3>6. Mode("shell", fds["shell"]) = "line"
      BY <3>1, <3>4, StdioHere, ProcsAre DEF Mode
    <3> QED
      BY <3>5, <3>6, StdioHere, ProcsAre
  <2> QED
    BY <1>2, <2>2, <2>3
<1> QED
  BY <1>1, <1>2, <1>3, <1>4, <1>5, <1>6, <1>7, <1>8, StdioHere DEF StdioInv

LEMMA StdioKept ==
    ASSUME IInv, Next
    PROVE  StdioInv'
<1>0. pc = [q \in Procs |-> pc[q]]
  BY TypesHere
<1>a. ASSUME NEW p \in Procs, NEW at, Goto(p, at), at \notin {"none", "exited"},
             pc["stage"] # "none" \/ p # "stage"
      PROVE  /\ \A q \in Procs : pc'[q] \in {"none", "exited"} => pc[q] \in {"none", "exited"}
             /\ pc'["stage"] # "none" => pc["stage"] # "none"
  <2>1. pc'[p] = at /\ \A q \in Procs \ {p} : pc'[q] = pc[q]
    BY <1>0, <1>a, GotoIs
  <2> QED
    BY <1>a, <2>1, ProcsAre
<1>1. CASE OpenUshrc \/ ExecuteLine \/ RunInShell \/ CloseOldEnds \/ NextInShell
  <2>1. UNCHANGED <<stdio, buffer, interactive, input, typed, failed>>
    BY <1>1 DEF OpenUshrc, ExecuteLine, RunInShell, CloseOldEnds, NextInShell, session, source, io
  <2>2. rc' = rc \/ input["rc"] # NoFile
    BY <1>1 DEF OpenUshrc, ExecuteLine, RunInShell, CloseOldEnds, NextInShell, source
  <2>3. \E at : Goto("shell", at) /\ at \notin {"none", "exited"}
    <3>1. \/ Goto("shell", "prompt") \/ Goto("shell", "rc") \/ Goto("shell", "next")
          \/ Goto("shell", "parseCmd") \/ Goto("shell", "wait")
      BY <1>1 DEF OpenUshrc, ExecuteLine, RunInShell, CloseOldEnds, NextInShell
    <3> QED
      BY <3>1
  <2> QED
    BY <1>a, <2>1, <2>2, <2>3, StdioStill, ProcsAre
<1>2. CASE LeaveUshrc
  <2>1. /\ UNCHANGED <<interactive, input, typed, failed>> /\ rc' = NoRc
        /\ \E t : Flushed("shell", t)
        /\ Goto("shell", "prompt")
    BY <1>2 DEF LeaveUshrc
  <2> QED
    BY <1>a, <2>1, StdioFlushed, ProcsAre
<1>3. CASE (\E l \in Lines : ReadLine(l)) \/ ReadBuffered \/ ReadFile \/ ReadEnd
  BY <1>3, StdioPrompts DEF ReadLine, ReadBuffered, ReadFile, ReadEnd, Take
<1>4. CASE EndOfLine
  <2>1. /\ UNCHANGED <<interactive, input, typed, failed, rc>>
        /\ \/ Flushed("shell", fds["shell"]) /\ Goto("shell", "prompt")
           \/ UNCHANGED <<stdio, buffer>> /\ Goto("shell", "rc")
    BY <1>4 DEF EndOfLine, session, source, io
  <2>2. CASE Flushed("shell", fds["shell"]) /\ Goto("shell", "prompt")
    BY <1>a, <2>1, <2>2, StdioFlushed, ProcsAre
  <2>3. CASE UNCHANGED <<stdio, buffer>> /\ Goto("shell", "rc")
    BY <1>a, <2>1, <2>3, StdioStill, ProcsAre
  <2> QED
    BY <2>1, <2>2, <2>3
<1>5. CASE EndOfInput
  <2>1. /\ pc["shell"] = "next" /\ Exit("shell", <<>>)
        /\ UNCHANGED <<interactive, input, typed, failed, rc>>
    BY <1>5 DEF EndOfInput, AtCommand, session, source
  <2> QED
    BY <2>1, StdioExits, ProcsAre
<1>6. CASE ForkStage
  <2>1. /\ pc["shell"] = "next" /\ UNCHANGED <<interactive, input, typed, failed, rc, direct>>
        /\ mode' = [mode EXCEPT !["stage"] = mode["shell"]]
        /\ buffer' = [buffer EXCEPT !["stage"] = buffer["shell"]]
        /\ pc' = [pc EXCEPT !["shell"] = "forked", !["stage"] = "setup"]
    BY <1>6 DEF ForkStage, AtCommand, session, source
  <2>2. /\ \A p \in Procs : pc'[p] \in {"none", "exited"} => buffer'[p] = <<>>
        /\ \A p \in Parents : mode'[p] # "full" => buffer'[p] = <<>>
        /\ mode'["stage"] = mode["shell"] /\ mode'["shell"] = mode["shell"]
        /\ mode' \in [Parents -> {"unset", "line", "full"}]
    BY <1>0, <2>1, StdioHere, OutputHere, ProcsAre
  <2>3. TypedAtTerminal' = TypedAtTerminal
    BY <2>1 DEF TypedAtTerminal
  <2> QED
    BY <2>1, <2>2, <2>3, StdioHere DEF StdioInv
<1>7. CASE WaitForStage
  <2>1. /\ pc["stage"] = "exited" /\ pc' = [pc EXCEPT !["shell"] = "next", !["stage"] = "none"]
        /\ UNCHANGED <<stdio, buffer, interactive, input, typed, failed, rc>>
    BY <1>7 DEF WaitForStage, session, source, io
  <2>2. /\ \A q \in Procs : pc'[q] \in {"none", "exited"} => pc[q] \in {"none", "exited"}
        /\ pc'["stage"] = "none"
    BY <1>0, <2>1, ProcsAre
  <2> QED
    BY <2>1, <2>2, StdioStill
<1>8. CASE SetUpStage
  <2>1. /\ pc["stage"] = "setup" /\ Goto("stage", "parseCmd")
        /\ UNCHANGED <<stdio, buffer, interactive, input, typed, failed, rc>>
    BY <1>8 DEF SetUpStage, session, source, io
  <2> QED
    BY <1>a, <2>1, StdioStill, ProcsAre
<1>9. CASE StageExits
  <2>1. /\ pc["stage"] = "return" /\ Exit("stage", <<>>)
        /\ UNCHANGED <<interactive, input, typed, failed, rc>>
    BY <1>9 DEF StageExits, SeekBack, session
  <2> QED
    BY <2>1, StdioExits, ProcsAre
<1>10. ASSUME NEW p \in Parents, ParseCmd(p) PROVE StdioInv'
  <2>0. p \in Procs /\ pc[p] \in InCommand /\ (pc["stage"] # "none" \/ p # "stage")
    BY <1>10, ProcsAre DEF ParseCmd, RedirectCommand, OutputOpenFails, PrintOne, Logout,
       ForkCommand, WaitForCommand, RestoreAndFlush, InCommand
  <2>1. CASE RedirectCommand(p)
    <3>1. /\ Goto(p, "execute")
          /\ UNCHANGED <<stdio, buffer, interactive, input, typed, failed, rc>>
      BY <2>1 DEF RedirectCommand, session, source, io
    <3> QED
      BY <1>a, <2>0, <3>1, StdioStill
  <2>2. CASE OutputOpenFails(p)
    <3>1. /\ Goto(p, "return") /\ pc[p] = "parseCmd"
          /\ UNCHANGED <<stdio, buffer, interactive, input, typed, rc>>
      BY <2>2 DEF OutputOpenFails, session, source, io
    <3>2. c <= Len(line)
      BY <2>0, <3>1, NoCommand, ProcsAre
    <3>3. typed # 0
      BY <3>2, AtHand, BoundsAssumption
    <3> QED
      BY <1>a, <2>0, <3>1, <3>3, StdioMoves
  <2>3. CASE PrintOne(p)
    BY <2>3, StdioPrints
  <2>4. CASE Logout(p)
    <3>1. /\ pc[p] = "execute" /\ Exit(p, <<>>)
          /\ UNCHANGED <<interactive, input, typed, failed, rc>>
      BY <2>4 DEF Logout, SeekBack, session
    <3> QED
      BY <2>0, <3>1, StdioExits
  <2>5. CASE ForkCommand(p)
    <3>1. /\ pc[p] = "execute" /\ UNCHANGED <<stdio, interactive, input, typed, failed, rc>>
          /\ buffer' = [buffer EXCEPT !["command"] = buffer[p]]
          /\ pc' = [pc EXCEPT ![p] = "waitpid", !["command"] = "execv"]
      BY <2>5 DEF ForkCommand, session, source
    <3>2. UNCHANGED <<mode, direct>> /\ TypedAtTerminal' = TypedAtTerminal
      BY <3>1 DEF stdio, TypedAtTerminal
    <3>3. /\ \A q \in Procs : pc'[q] \in {"none", "exited"} => buffer'[q] = <<>>
          /\ \A q \in Parents : mode'[q] # "full" => buffer'[q] = <<>>
          /\ pc'["stage"] # "none" => pc["stage"] # "none"
      BY <1>0, <2>0, <3>1, <3>2, StdioHere, OutputHere, ProcsAre
    <3> QED
      BY <3>1, <3>2, <3>3, StdioHere DEF StdioInv
  <2>6. CASE WaitForCommand(p)
    <3>1. /\ pc["command"] = "exited" /\ pc' = [pc EXCEPT ![p] = "restore", !["command"] = "none"]
          /\ UNCHANGED <<stdio, buffer, interactive, input, typed, failed, rc>>
      BY <2>6 DEF WaitForCommand, session, source, io
    <3>2. /\ \A q \in Procs : pc'[q] \in {"none", "exited"} => pc[q] \in {"none", "exited"}
          /\ pc'["stage"] # "none" => pc["stage"] # "none"
      BY <1>0, <2>0, <3>1, ProcsAre
    <3> QED
      BY <3>1, <3>2, StdioStill
  <2>7. CASE RestoreAndFlush(p)
    <3>1. /\ Goto(p, "return") /\ UNCHANGED <<interactive, input, typed, failed, rc>>
          /\ (\E t : Flushed(p, t)) \/ UNCHANGED <<stdio, buffer>>
      BY <2>7 DEF RestoreAndFlush, session, source, io
    <3>2. CASE \E t : Flushed(p, t)
      BY <1>a, <2>0, <3>1, <3>2, StdioFlushed
    <3>3. CASE UNCHANGED <<stdio, buffer>>
      BY <1>a, <2>0, <3>1, <3>3, StdioStill
    <3> QED
      BY <3>1, <3>2, <3>3
  <2> QED
    BY <1>10, <2>1, <2>2, <2>3, <2>4, <2>5, <2>6, <2>7 DEF ParseCmd
<1>11. CASE Execv
  <2>1. /\ Goto("command", "running") /\ buffer' = [buffer EXCEPT !["command"] = <<>>]
        /\ UNCHANGED <<stdio, interactive, input, typed, failed, rc>>
    BY <1>11 DEF Execv, session, source
  <2>2. \A q \in Procs : buffer'[q] \in {buffer[q], <<>>}
    BY <2>1, OutputHere
  <2> QED
    BY <1>a, <2>1, <2>2, StdioMoves, ProcsAre
<1>12. CASE ExecvFails
  <2>1. /\ pc["command"] = "execv" /\ Exit("command", <<Unit>>)
        /\ UNCHANGED <<interactive, input, typed, failed, rc>>
    BY <1>12 DEF ExecvFails, SeekBack, session
  <2> QED
    BY <2>1, StdioExits, ProcsAre
<1>13. CASE WriteUnit \/ CopyUnit \/ CopyFile
  <2>1. UNCHANGED <<stdio, buffer, interactive, input, typed, failed, rc, pc>>
    BY <1>13 DEF WriteUnit, CopyUnit, CopyFile, session, source
  <2> QED
    BY <2>1, StdioStill
<1>14. CASE CommandExits
  <2>1. /\ pc["command"] = "running" /\ Exit("command", <<>>)
        /\ UNCHANGED <<interactive, input, typed, failed, rc>>
    BY <1>14 DEF CommandExits, session, source
  <2> QED
    BY <2>1, StdioExits, ProcsAre
<1> QED
  BY <1>1, <1>2, <1>3, <1>4, <1>5, <1>6, <1>7, <1>8, <1>9, <1>10, <1>11, <1>12, <1>13, <1>14, ProcsAre
  DEF Next, ShellStep, StageStep, CommandStep

-----------------------------------------------------------------------------
(***************************************************************************)
(* The invariant, and what follows from it.                                *)
(***************************************************************************)
LEMMA InitInv ==
    ASSUME Init
    PROVE  IInv
<1>1. ControlInv
  BY ProcsAre DEF Init, ControlInv, ShellAt, StageAt, CommandAt
<1>2. DataInv
  <2>1. /\ <<>> \in Seq(FileNames \X Nat) /\ Len(<<>>) = 0 /\ DOMAIN <<>> = {} /\ Range(<<>>) = {}
    BY EmptyQueue
  <2>2. /\ interactive \in BOOLEAN /\ sticky \in BOOLEAN /\ eof \in BOOLEAN
        /\ input \in [FileNames -> Files \cup {NoFile}] /\ offset = [f \in FileNames |-> 0]
        /\ ahead = <<>> /\ rc = NoRc /\ typed = 0 /\ left = 0 /\ line = <<>> /\ c = 1
        /\ failed = [p \in Parents |-> 0] /\ pc["command"] = "none"
    BY ProcsAre DEF Init, FileNames
  <2>3. \A f \in FileNames : offset[f] <= (IF input[f] = NoFile THEN 0 ELSE Len(input[f]))
    <3> TAKE f \in FileNames
    <3>1. input[f] # NoFile => Len(input[f]) \in Nat
      BY <2>2, LinesAssumption
    <3> QED
      BY <2>2, <3>1
  <2>4. rc \in [ushrc_f : -1 .. MaxFd, stdin_bak : -1 .. MaxFd]
    BY <2>2, ProcsAre DEF NoRc, None, MaxFd
  <2>5. LeftInv
    BY <2>2 DEF LeftInv
  <2>6. WellFormed(line) /\ c \in 1 .. Len(line) + 1
    BY <2>1, <2>2, EndLineIs
  <2> QED
    BY <2>1, <2>2, <2>3, <2>4, <2>5, <2>6, BoundsAssumption DEF DataInv
<1>3. TablesInv
  <2>1. /\ fds = [p \in Procs |-> fds[p]] /\ fds["shell"] = Terminal
        /\ fds["stage"] = NoTable /\ fds["command"] = NoTable
        /\ pc["shell"] = "start" /\ pc["stage"] = "none" /\ pc["command"] = "none"
        /\ ends = [p \in Procs |-> NoEnds] /\ saved = [p \in Procs |-> NoSaved]
        /\ rc = NoRc /\ failed["shell"] = 0
    BY ProcsAre DEF Init
  <2>2. saved \in [Procs -> [DOMAIN NoSaved -> -1 .. MaxFd]]
    <3>1. -1 .. -1 \subseteq -1 .. MaxFd
      BY <2>1 DEF MaxFd
    <3> HIDE DEF MaxFd
    <3> DEFINE D == DOMAIN NoSaved
    <3>2. NoSaved \in [D -> -1 .. MaxFd]
      BY <3>1, NoSavedType
    <3> HIDE DEF D
    <3>3. saved \in [Procs -> [D -> -1 .. MaxFd]]
      BY <2>1, <3>2
    <3> QED
      BY <3>3 DEF D
  <2>3. ends \in [Procs -> EndsType] /\ ~ends["shell"].old_flag
    BY <2>1, NoEndsType, ProcsAre
  <2>4. IsBase(fds["shell"], world)
    <3>1. world.rc = NoRc /\ world.failures = 0
      BY <2>1 DEF world
    <3> QED
      BY <2>1, <3>1, TerminalIsBase
  <2>5. ShellIs("start", fds["shell"], ends["shell"], saved["shell"], line, c, world)
    BY <2>3, <2>4, ShellRests DEF Resting
  <2>6. StageIs("none", fds["stage"], ends["stage"], saved["stage"], line, c, world)
    BY DEF StageIs, Executing
  <2>7. CommandIs("none", fds["command"], line, c, world)
    BY DEF CommandIs
  <2>8. \A p \in Procs : pc[p] \in {"none", "exited"} => fds[p] = NoTable
    BY <2>1, ProcsAre
  <2> QED
    BY <2>1, <2>2, <2>3, <2>5, <2>6, <2>7, <2>8 DEF TablesInv, EndsType
<1>4. OutputInv
  <2>1. /\ buffer = [p \in Procs |-> <<>>] /\ pipe = [k \in Commands |-> <<>>] /\ landed = <<>>
    BY DEF Init
  <2>2. /\ <<>> \in Seq(Units) /\ <<>> \in Seq([writer : Units, to : Entries(world)])
        /\ Len(<<>>) = 0 /\ Range(<<>>) = {}
    BY EmptyQueue
  <2>3. /\ buffer \in [Procs -> Seq(Units)] /\ pipe \in [Commands -> Seq(Units)]
        /\ \A k \in Commands : Len(pipe[k]) <= Capacity
    BY <2>1, <2>2, BoundsAssumption
  <2>4. \A p \in Procs : IsBuffer(buffer[p], direct, typed, line, pc["shell"] = "parsed")
    BY <2>1, <2>2 DEF IsBuffer
  <2>5. \A x \in Range(landed) : IsLanded(x, direct, typed, line)
    BY <2>1, <2>2
  <2>6. landed \in Seq([writer : Units, to : Entries(world)])
    BY <2>1, <2>2
  <2> QED
    BY <2>1, <2>3, <2>4, <2>5, <2>6 DEF OutputInv
<1>5. StdioInv
  <2>1. /\ mode = [p \in Parents |-> "unset"] /\ direct = TRUE
        /\ buffer = [p \in Procs |-> <<>>] /\ typed = 0 /\ rc = NoRc
        /\ failed = [p \in Parents |-> 0] /\ pc["stage"] = "none"
    BY ProcsAre DEF Init
  <2> QED
    BY <2>1, ProcsAre DEF StdioInv, TypedAtTerminal
<1> QED
  BY <1>1, <1>2, <1>3, <1>4, <1>5 DEF IInv

LEMMA StutterKeeps ==
    ASSUME IInv, UNCHANGED vars
    PROVE  IInv'
<1>1. UNCHANGED <<interactive, sticky, input, offset, ahead, eof, rc, line, c, typed, pc, fds, ends,
                  saved, mode, direct, buffer, left, pipe, landed, failed>>
  BY DEF vars, session, source, files, io, stdio
<1>2. world' = world /\ MaxFd' = MaxFd
  BY <1>1, TypesHere
<1>3. ControlInv'
  BY <1>1 DEF IInv, ControlInv
<1>4. DataInv'
  BY <1>1, DataStill DEF IInv, DataInv
<1>5. TablesInv'
  BY <1>1, <1>2 DEF IInv, TablesInv
<1>6. OutputInv'
  BY <1>1, <1>2 DEF IInv, OutputInv
<1>7. StdioInv'
  BY <1>1 DEF IInv, StdioInv, TypedAtTerminal
<1> QED
  BY <1>3, <1>4, <1>5, <1>6, <1>7 DEF IInv

\* The inductive invariant holds in every state of the shell: where the three
\* processes are, what they know of the input, what each descriptor table holds
\* at each place of parsePipe and parseCmd, where output may be, and when stdio
\* keeps it.
THEOREM Invariance == Spec => []IInv
<1>1. Init => IInv
  BY InitInv
<1>2. IInv /\ [Next]_vars => IInv'
  BY ControlKept, DataKept, TablesKept, OutputKept, StdioKept, StutterKeeps DEF IInv
<1> QED
  BY <1>1, <1>2, PTL DEF Spec

\* When the shell prompts again it has the descriptors it began with: parseCmd has
\* undone its dup, dup2 and open, parsePipe has closed every pipe, and check_ushrc
\* has put standard input back, whatever was on the line and in .ushrc.
THEOREM DescriptorsRestored == Spec => []DescriptorsBack
<1>1. IInv => DescriptorsBack
  <2> SUFFICES ASSUME IInv, pc["shell"] = "prompt"
               PROVE  /\ failed["shell"] = 0 => fds["shell"] = Terminal
                      /\ \A n \in {1, 2} : fds["shell"][n] = Terminal[n]
    BY DEF DescriptorsBack
  <2>1. IsBase(fds["shell"], world)
    BY ShellHere DEF Resting
  <2>2. rc = NoRc
    BY DEF IInv, ControlInv
  <2> QED
    BY <2>1, <2>2, WorldIs, TerminalIs DEF IsBase
<1> QED
  BY <1>1, Invariance, PTL

-----------------------------------------------------------------------------
(***************************************************************************)
(* Input.                                                                  *)
(***************************************************************************)
\* A step that leaves those alone that have redirected their input.
LEMMA InputMoves ==
    ASSUME InputInv,
           \A p \in Parents : pc'[p] \in Executing =>
               /\ pc[p] \in Executing /\ fds'[p] = fds[p] /\ saved'[p] = saved[p]
               /\ line' = line /\ c' = c /\ world' = world,
           \A p \in Parents : pc'[p] = "waitpid" /\ pc'["command"] # "exited" =>
               /\ pc[p] = "waitpid" /\ pc["command"] # "exited"
               /\ fds'["command"] = fds["command"]
    PROVE  InputInv'
<1> SUFFICES ASSUME NEW p \in Parents
             PROVE  /\ pc'[p] \in Executing /\ ~Piped(line'[c'].in) =>
                          IF saved'[p].inFile # None THEN fds'[p][0] = <<"infile", c'>>
                          ELSE Inherited(fds'[p][0], world')
                    /\ pc'[p] = "waitpid" /\ pc'["command"] # "exited" =>
                          fds'["command"][0] = fds'[p][0]
  BY DEF InputInv, Inherited
<1>1. pc'[p] = "waitpid" => pc'[p] \in Executing
  BY ProcsAre
<1> QED
  BY <1>1 DEF InputInv

\* A step of which the shell is the only actor, between two commands.
LEMMA InputBetween ==
    ASSUME IInv, \A p \in Parents : pc'[p] \notin Executing
    PROVE  InputInv'
BY ProcsAre DEF InputInv

\* A process ends.
LEMMA InputExits ==
    ASSUME IInv, InputInv, NEW p \in Procs, NEW ws, Exit(p, ws),
           UNCHANGED <<line, c, rc, failed, input>>
    PROVE  InputInv'
<1>1. /\ fds = [q \in Procs |-> fds[q]] /\ pc = [q \in Procs |-> pc[q]]
      /\ saved \in [Procs -> [DOMAIN NoSaved -> -1 .. MaxFd]] /\ world' = world
  BY TypesHere
<1>2. /\ fds' = [fds EXCEPT ![p] = NoTable] /\ pc' = [pc EXCEPT ![p] = "exited"]
      /\ saved' = [saved EXCEPT ![p] = NoSaved]
  BY DEF Exit
<1>3. /\ pc'[p] = "exited"
      /\ \A q \in Procs \ {p} : pc'[q] = pc[q] /\ fds'[q] = fds[q] /\ saved'[q] = saved[q]
  <2> DEFINE S == [DOMAIN NoSaved -> -1 .. MaxFd]
  <2>1. saved \in [Procs -> S]
    BY <1>1
  <2> HIDE DEF S
  <2> QED
    BY <1>1, <1>2, <2>1
<1>4. \A q \in Parents : pc'[q] \in Executing => q # p /\ q \in Procs
  BY <1>3, ProcsAre
<1>5. \A q \in Parents : pc'[q] = "waitpid" /\ pc'["command"] # "exited" =>
        q # p /\ q \in Procs /\ p # "command"
  BY <1>3, ProcsAre
<1> QED
  BY <1>1, <1>3, <1>4, <1>5, InputMoves, ProcsAre

\* parseCmd opens the input file, or leaves the input as it is.
LEMMA InputRedirected ==
    ASSUME IInv, InputInv, NEW p \in Parents, RedirectCommand(p)
    PROVE  InputInv'
<1> DEFINE t == fds[p]
           cmd == line[c]
<1>1. /\ pc[p] = "parseCmd" /\ Goto(p, "execute") /\ p \in Procs
      /\ UNCHANGED <<line, c, rc, failed, input>>
  BY ProcsAre DEF RedirectCommand, session, source
<1>2. /\ fds = [q \in Procs |-> fds[q]] /\ pc = [q \in Procs |-> pc[q]]
      /\ saved \in [Procs -> [DOMAIN NoSaved -> -1 .. MaxFd]] /\ world' = world
  BY <1>1, TypesHere
<1>3. PICK in_ok \in BOOLEAN :
        /\ fds' = [fds EXCEPT ![p] =
               OutputOnto(InputOnto(WithOpened(t, Opened(t, cmd, c, in_ok)), cmd, c, in_ok), cmd, c)]
        /\ saved' = [saved EXCEPT ![p] = Locals(t, Opened(t, cmd, c, in_ok))]
  BY DEF RedirectCommand, Opened
<1> DEFINE s == Locals(t, Opened(t, cmd, c, in_ok))
           new == OutputOnto(InputOnto(WithOpened(t, Opened(t, cmd, c, in_ok)), cmd, c, in_ok), cmd, c)
<1>4. c <= Len(line) /\ pc["command"] = "none"
  BY <1>1, NoCommand, ProcsAre
<1>5. c \in Commands /\ IsCommand(cmd) /\ world.failures \in Nat /\ ForCommand(t, cmd, c, world)
  BY <1>1, <1>4, AtHand, WorldIs, ParentHere, ProcsAre
<1> HIDE DEF t, cmd
<1>6. ~Piped(cmd.in) => IF s["inFile"] # None THEN new[0] = <<"infile", c>>
                        ELSE Inherited(new[0], world)
  BY <1>5, OpensItsFiles
<1>7. fds' = [fds EXCEPT ![p] = new] /\ saved' = [saved EXCEPT ![p] = s]
  BY <1>3
<1> HIDE DEF s, new
<1>8. /\ fds'[p] = new /\ saved'[p] = s
      /\ \A q \in Procs \ {p} : fds'[q] = fds[q] /\ saved'[q] = saved[q]
  <2> DEFINE S == [DOMAIN NoSaved -> -1 .. MaxFd]
  <2>1. saved \in [Procs -> S]
    BY <1>2
  <2> HIDE DEF S
  <2> QED
    BY <1>1, <1>2, <1>7, <2>1
<1>9. /\ pc'[p] = "execute" /\ pc'["command"] = "none"
      /\ \A q \in Procs \ {p} : pc'[q] = pc[q]
  BY <1>1, <1>2, <1>4, GotoIs, ProcsAre
<1>10. \A q \in Parents : pc'[q] # "waitpid"
  BY <1>4, <1>9, ProcsAre DEF IInv, ControlInv
<1>11. \A q \in Parents : pc'[q] \in Executing /\ ~Piped(cmd.in) =>
         IF saved'[q].inFile # None THEN fds'[q][0] = <<"infile", c>>
         ELSE Inherited(fds'[q][0], world)
  <2> TAKE q \in Parents
  <2>1. CASE q = p
    BY <1>6, <1>8, <2>1
  <2>2. CASE q # p
    <3>1. q \in Procs /\ pc'[q] = pc[q] /\ fds'[q] = fds[q] /\ saved'[q] = saved[q]
      BY <1>8, <1>9, <2>2, ProcsAre
    <3> QED
      BY <3>1 DEF InputInv, cmd
  <2> QED
    BY <2>1, <2>2
<1>12. \A q \in Parents : pc'[q] \in Executing /\ ~Piped(line'[c'].in) =>
         IF saved'[q].inFile # None THEN fds'[q][0] = <<"infile", c'>>
         ELSE Inherited(fds'[q][0], world')
  BY <1>1, <1>2, <1>11 DEF cmd
<1> QED
  BY <1>10, <1>12 DEF InputInv, Inherited

\* The command gets the input of the process that forks it.
LEMMA InputForked ==
    ASSUME IInv, InputInv, NEW p \in Parents, ForkCommand(p)
    PROVE  InputInv'
<1>1. /\ pc[p] = "execute" /\ p \in Procs /\ p # "command"
      /\ fds' = [fds EXCEPT !["command"] = Dup2(fds[p], 1, 2)]
      /\ pc' = [pc EXCEPT ![p] = "waitpid", !["command"] = "execv"]
      /\ UNCHANGED <<line, c, saved, rc, failed, input>>
  BY ProcsAre DEF ForkCommand, session, source
<1>2. /\ fds = [q \in Procs |-> fds[q]] /\ pc = [q \in Procs |-> pc[q]] /\ world' = world
  BY <1>1, TypesHere
<1>3. c <= Len(line) /\ pc["command"] = "none"
  BY <1>1, NoCommand, ProcsAre
<1>4. \A q \in Parents : pc[q] # "waitpid"
  BY <1>3 DEF IInv, ControlInv
<1>5. /\ pc'[p] = "waitpid" /\ \A q \in Parents \ {p} : pc'[q] = pc[q]
      /\ fds'["command"] = Dup2(fds[p], 1, 2) /\ \A q \in Parents : fds'[q] = fds[q]
  BY <1>1, <1>2, ProcsAre
<1>6. 0 \in DOMAIN fds[p]
  BY <1>1, TableHere
<1>7. fds'["command"][0] = fds'[p][0]
  BY <1>5, <1>6 DEF Dup2, With
<1>8. \A q \in Parents : pc'[q] \in Executing => pc[q] \in Executing
  BY <1>1, <1>5, ProcsAre
<1>9. \A q \in Parents : pc'[q] = "waitpid" => q = p
  BY <1>4, <1>5
<1>10. \A q \in Parents : pc'[q] \in Executing /\ ~Piped(line'[c'].in) =>
         IF saved'[q].inFile # None THEN fds'[q][0] = <<"infile", c'>>
         ELSE Inherited(fds'[q][0], world')
  BY <1>1, <1>2, <1>5, <1>8 DEF InputInv
<1> QED
  BY <1>7, <1>9, <1>10 DEF InputInv, Inherited

LEMMA InputKept ==
    ASSUME IInv, InputInv, Next
    PROVE  InputInv'
<1>0. /\ pc = [q \in Procs |-> pc[q]] /\ fds = [q \in Procs |-> fds[q]]
      /\ UNCHANGED <<rc, failed, input>> => world' = world
  BY TypesHere
<1>a. ASSUME NEW at, Goto("shell", at), at \notin Executing,
             pc["shell"] \notin {"forked", "wait"}
      PROVE  InputInv'
  <2>1. pc["stage"] = "none"
    BY <1>a DEF IInv, ControlInv
  <2>2. pc'["shell"] = at /\ pc'["stage"] = "none"
    BY <1>0, <1>a, <2>1, GotoIs, ProcsAre
  <2> QED
    BY <1>a, <2>2, InputBetween, ProcsAre
<1>1. CASE OpenUshrc \/ ExecuteLine \/ RunInShell \/ NextInShell
  <2>1. /\ pc["shell"] \in {"start", "parsed", "next", "return"}
        /\ \E at : Goto("shell", at) /\ at \notin Executing
    <3>1. \/ Goto("shell", "prompt") \/ Goto("shell", "rc") \/ Goto("shell", "next")
          \/ Goto("shell", "parseCmd")
      BY <1>1 DEF OpenUshrc, ExecuteLine, RunInShell, NextInShell
    <3> QED
      BY <1>1, <3>1, ProcsAre DEF OpenUshrc, ExecuteLine, RunInShell, NextInShell, AtCommand
  <2> QED
    BY <1>a, <2>1
<1>2. CASE LeaveUshrc
  BY <1>2, <1>a, ProcsAre DEF LeaveUshrc
<1>3. CASE (\E l \in Lines : ReadLine(l)) \/ ReadBuffered \/ ReadFile \/ ReadEnd
  <2>1. \E l : Parsed(l)
    BY <1>3 DEF ReadLine, ReadBuffered, ReadFile, ReadEnd, Take
  <2> QED
    BY <1>a, <2>1, ProcsAre DEF Parsed
<1>4. CASE EndOfLine
  <2>1. pc["shell"] = "next" /\ (Goto("shell", "prompt") \/ Goto("shell", "rc"))
    BY <1>4 DEF EndOfLine
  <2> QED
    BY <1>a, <2>1, ProcsAre
<1>5. CASE EndOfInput
  BY <1>5, InputExits, ProcsAre DEF EndOfInput, session, source
<1>6. CASE ForkStage
  <2>1. pc' = [pc EXCEPT !["shell"] = "forked", !["stage"] = "setup"]
    BY <1>6 DEF ForkStage
  <2>2. pc'["shell"] = "forked" /\ pc'["stage"] = "setup"
    BY <1>0, <2>1, ProcsAre
  <2> QED
    BY <2>2, InputBetween, ProcsAre
<1>7. CASE CloseOldEnds
  <2>1. /\ pc["shell"] = "forked" /\ Goto("shell", "wait")
        /\ fds' = [fds EXCEPT !["shell"] = KeptByShell(@, ends["shell"])]
        /\ UNCHANGED <<line, c, saved, rc, failed, input>>
    BY <1>7 DEF CloseOldEnds, session, source
  <2>2. /\ pc'["shell"] = "wait" /\ pc'["stage"] = pc["stage"] /\ pc'["command"] = pc["command"]
        /\ fds'["stage"] = fds["stage"] /\ fds'["command"] = fds["command"]
    BY <1>0, <2>1, GotoIs, ProcsAre
  <2> QED
    BY <1>0, <2>1, <2>2, InputMoves, ProcsAre
<1>8. CASE WaitForStage
  <2>1. pc' = [pc EXCEPT !["shell"] = "next", !["stage"] = "none"]
    BY <1>8 DEF WaitForStage
  <2>2. pc'["shell"] = "next" /\ pc'["stage"] = "none"
    BY <1>0, <2>1, ProcsAre
  <2> QED
    BY <2>2, InputBetween, ProcsAre
<1>b. ASSUME NEW p \in Parents, NEW at, Goto(p, at), at \notin Executing,
             p = "stage" => pc["stage"] # "none",
             p = "shell" => pc["shell"] \notin {"forked", "wait"}
      PROVE  InputInv'
  <2>1. CASE p = "shell"
    BY <1>a, <1>b, <2>1
  <2>2. CASE p = "stage"
    <3>1. pc["shell"] \in {"forked", "wait"}
      BY <1>b, <2>2 DEF IInv, ControlInv
    <3>2. pc'["stage"] = at /\ pc'["shell"] \in {"forked", "wait"}
      BY <1>0, <1>b, <2>2, <3>1, GotoIs, ProcsAre
    <3> QED
      BY <1>b, <3>2, InputBetween, ProcsAre
  <2> QED
    BY <2>1, <2>2, ProcsAre
<1>9. CASE SetUpStage
  <2>1. pc["stage"] = "setup" /\ Goto("stage", "parseCmd")
    BY <1>9 DEF SetUpStage
  <2> QED
    BY <1>b, <2>1, ProcsAre
<1>10. CASE StageExits
  BY <1>10, InputExits, ProcsAre DEF StageExits, SeekBack, session
<1>11. ASSUME NEW p \in Parents, ParseCmd(p) PROVE InputInv'
  <2>0. p \in Procs
    BY ProcsAre
  <2>1. CASE RedirectCommand(p)
    BY <2>1, InputRedirected
  <2>2. CASE OutputOpenFails(p) \/ RestoreAndFlush(p)
    <3>1. pc[p] \in {"parseCmd", "restore"} /\ Goto(p, "return")
      BY <2>2 DEF OutputOpenFails, RestoreAndFlush
    <3> QED
      BY <1>b, <3>1, ProcsAre
  <2>3. CASE PrintOne(p)
    <3>1. /\ pc[p] = "execute" /\ Goto(p, "restore")
          /\ UNCHANGED <<fds, saved, line, c, rc, failed, input>>
      BY <2>3 DEF PrintOne, session, source, files
    <3>2. pc["command"] = "none"
      BY <3>1, NoCommand, ProcsAre
    <3>3. /\ pc'[p] = "restore" /\ \A q \in Procs \ {p} : pc'[q] = pc[q]
      BY <1>0, <2>0, <3>1, GotoIs
    <3>4. \A q \in Parents : pc[q] # "waitpid"
      BY <3>2 DEF IInv, ControlInv
    <3> QED
      BY <1>0, <3>1, <3>3, <3>4, InputMoves, ProcsAre
  <2>4. CASE Logout(p)
    BY <2>0, <2>4, InputExits DEF Logout, SeekBack, session
  <2>5. CASE ForkCommand(p)
    BY <2>5, InputForked
  <2>6. CASE WaitForCommand(p)
    <3>1. /\ pc[p] = "waitpid" /\ pc' = [pc EXCEPT ![p] = "restore", !["command"] = "none"]
          /\ UNCHANGED <<fds, saved, line, c, rc, failed, input>>
      BY <2>6 DEF WaitForCommand, session, source, files
    <3>2. /\ pc'[p] = "restore" /\ \A q \in Parents \ {p} : pc'[q] = pc[q]
          /\ pc'["command"] = "none"
      BY <1>0, <2>0, <3>1, ProcsAre
    <3>3. \A q \in Parents \ {p} : pc[q] # "waitpid"
      BY <3>1, ProcsAre DEF IInv, ControlInv
    <3> QED
      BY <1>0, <3>1, <3>2, <3>3, InputMoves, ProcsAre
  <2> QED
    BY <1>11, <2>1, <2>2, <2>3, <2>4, <2>5, <2>6 DEF ParseCmd
<1>12. CASE Execv
  <2>1. /\ pc["command"] = "execv" /\ Goto("command", "running")
        /\ UNCHANGED <<fds, saved, line, c, rc, failed, input>>
    BY <1>12 DEF Execv, session, source, files
  <2>2. \A q \in Parents : pc'[q] = pc[q]
    BY <1>0, <2>1, GotoIs, ProcsAre
  <2> QED
    BY <1>0, <2>1, <2>2, InputMoves
<1>13. CASE ExecvFails
  BY <1>13, InputExits, ProcsAre DEF ExecvFails, SeekBack, session
<1>14. CASE WriteUnit \/ CopyUnit \/ CopyFile
  <2>1. UNCHANGED <<pc, fds, saved, line, c, rc, failed, input>>
    BY <1>14 DEF WriteUnit, CopyUnit, CopyFile, session, source, files
  <2> QED
    BY <1>0, <2>1, InputMoves
<1>15. CASE CommandExits
  BY <1>15, InputExits, ProcsAre DEF CommandExits, session, source
<1> QED
  BY <1>1, <1>2, <1>3, <1>4, <1>5, <1>6, <1>7, <1>8, <1>9, <1>10, <1>11, <1>12, <1>13, <1>14, <1>15,
     ProcsAre
  DEF Next, ShellStep, StageStep, CommandStep

\* A command reads from the pipe before it, from its input file if that could be
\* opened, and else from where the shell reads, whatever the redirections of its
\* line and the failures before it: parseCmd's dup2 of the input file holds until
\* the program runs, in the shell and in a stage.
THEOREM InputRight == Spec => []ReadsItsInput
<1>1. Init => InputInv
  BY ProcsAre DEF Init, InputInv
<1>2. IInv /\ InputInv /\ [Next]_vars => InputInv'
  <2>1. ASSUME IInv, InputInv, UNCHANGED vars PROVE InputInv'
    <3>1. UNCHANGED <<pc, fds, saved, line, c, rc, failed, input>>
      BY <2>1 DEF vars, session, source, files
    <3>2. world' = world
      BY <2>1, <3>1, TypesHere
    <3> QED
      BY <2>1, <3>1, <3>2, InputMoves
  <2> QED
    BY <2>1, InputKept
<1>3. IInv /\ InputInv => ReadsItsInput
  <2> SUFFICES ASSUME IInv, InputInv, NEW p \in Parents,
                      pc["command"] = "running", pc[p] = "waitpid"
               PROVE  LET d == fds["command"][0] IN
                      IF Piped(line[c].in) THEN d = <<"read", c - 1>>
                      ELSE IF saved[p].inFile # None THEN d = <<"infile", c>>
                      ELSE \/ d = <<IF rc = NoRc THEN "stdin" ELSE "rc", 0>>
                           \/ d[1] = "infile" /\ failed["shell"] > 0
    BY DEF ReadsItsInput
  <2> DEFINE d == fds["command"][0]
  <2>1. ReadsFrom(d, line[c], c, world)
    BY CommandHere DEF Redirected
  <2>2. ~Piped(line[c].in) => IF saved[p].inFile # None THEN d = <<"infile", c>>
                              ELSE Inherited(d, world)
    BY ProcsAre DEF InputInv
  <2> HIDE DEF d
  <2>3. /\ Piped(line[c].in) => d = <<"read", c - 1>>
        /\ Inherited(d, world) => \/ d = <<IF rc = NoRc THEN "stdin" ELSE "rc", 0>>
                                  \/ d[1] = "infile" /\ failed["shell"] > 0
    BY <2>1, WorldIs DEF ReadsFrom, Inherited
  <2> QED
    BY <2>2, <2>3 DEF d
<1> QED
  BY <1>1, <1>2, <1>3, Invariance, PTL DEF Spec

\* What a command puts out arrives in the file or in the pipe its line names, or
\* on the standard output: always what programs write, and what ush prints itself
\* as long as stdio keeps nothing; and at a terminal, without .ushrc, it never
\* does.
THEOREM OutputRight == Spec => []OutputLandsRight
<1>1. IInv => OutputLandsRight
  <2>1. ASSUME IInv, NEW i \in DOMAIN landed,
               landed[i].writer[1] = typed,
               direct \/ External(line[landed[i].writer[2]].prog)
        PROVE  landed[i].to = Destination(landed[i].writer[2])
    <3>1. IsLanded(landed[i], direct, typed, line)
      BY <2>1, OutputHere DEF Range
    <3>2. landed[i].to = Goes(line[landed[i].writer[2]], landed[i].writer[2])
      BY <2>1, <3>1 DEF IsLanded
    <3> QED
      BY <3>2 DEF Goes, Destination
  <2>2. ASSUME IInv, TypedAtTerminal PROVE direct
    BY <2>2, StdioHere
  <2> QED
    BY <2>1, <2>2 DEF OutputLandsRight
<1> QED
  BY <1>1, Invariance, PTL

LEMMA TypesAreOK ==
    ASSUME IInv
    PROVE  TypeOK
<1>1. /\ interactive \in BOOLEAN /\ sticky \in BOOLEAN /\ eof \in BOOLEAN
      /\ typed \in 0 .. MaxLines /\ Len(ahead) < ReadAhead
      /\ failed \in [Parents -> Nat] /\ left \in Nat
  BY DEF IInv, DataInv
<1>2. \A f \in {"rc", "stdin"} :
        offset[f] \in 0 .. (IF input[f] = NoFile THEN 0 ELSE Len(input[f]))
  <2> TAKE f \in {"rc", "stdin"}
  <2>1. f \in FileNames
    BY DEF FileNames
  <2>2. /\ offset[f] \in Nat /\ input[f] \in Files \cup {NoFile}
        /\ offset[f] <= (IF input[f] = NoFile THEN 0 ELSE Len(input[f]))
    BY <2>1 DEF IInv, DataInv
  <2>3. input[f] # NoFile => Len(input[f]) \in Nat
    BY <2>2, LinesAssumption
  <2> QED
    BY <2>2, <2>3
<1>3. rc.ushrc_f \in -1 .. MaxFd /\ rc.stdin_bak \in -1 .. MaxFd
  <2>1. rc \in [ushrc_f : -1 .. MaxFd, stdin_bak : -1 .. MaxFd]
    BY DEF IInv, DataInv
  <2> HIDE DEF MaxFd
  <2> QED
    BY <2>1
<1>4. Len(line) <= MaxCommands /\ c \in 1 .. Len(line) + 1
  BY DEF IInv, DataInv, WellFormed
<1>5. ASSUME NEW p \in Procs
      PROVE  /\ DOMAIN fds[p] \subseteq 0 .. MaxFd
             /\ \A n \in DOMAIN fds[p] : fds[p][n] \in Kinds \X (0 .. MaxCommands)
             /\ pc[p] \in {"none", "exited"} <=> fds[p] = NoTable
  <2>1. CASE pc[p] \in {"none", "exited"}
    <3>1. fds[p] = NoTable
      BY <2>1 DEF IInv, TablesInv
    <3>2. DOMAIN NoTable = {}
      BY DEF NoTable
    <3> QED
      BY <2>1, <3>1, <3>2
  <2>2. CASE pc[p] \notin {"none", "exited"}
    <3>1. IsTable(fds[p], world) /\ 0 \in DOMAIN fds[p]
      BY <2>2, TableHere
    <3>2. /\ DOMAIN fds[p] \subseteq 0 .. LastFd(world)
          /\ \A n \in DOMAIN fds[p] : fds[p][n] \in Entries(world)
      BY <3>1 DEF IsTable
    <3>3. \A n \in DOMAIN fds[p] : fds[p][n] \in Kinds \X (0 .. MaxCommands)
      BY <3>2 DEF Entries
    <3>4. fds[p] # NoTable
      BY <3>1 DEF NoTable
    <3> QED
      BY <2>2, <3>2, <3>3, <3>4, WorldIs
  <2> QED
    BY <2>1, <2>2
<1>6. ASSUME NEW p \in Procs
      PROVE  /\ \A x \in DOMAIN saved[p] : saved[p][x] \in -1 .. MaxFd
             /\ \A i \in DOMAIN buffer[p] : buffer[p][i] \in (1 .. MaxLines) \X Commands
  <2>1. buffer[p] \in Seq(Units)
    BY OutputHere
  <2>2. saved[p] \in [DOMAIN NoSaved -> -1 .. MaxFd]
    BY TypesHere
  <2> HIDE DEF MaxFd
  <2>3. \A x \in DOMAIN saved[p] : saved[p][x] \in -1 .. MaxFd
    <3> DEFINE D == DOMAIN NoSaved
    <3>1. saved[p] \in [D -> -1 .. MaxFd]
      BY <2>2
    <3> HIDE DEF D
    <3> QED
      BY <3>1
  <2>4. \A i \in DOMAIN buffer[p] : buffer[p][i] \in Units
    BY <2>1
  <2> QED
    BY <2>3, <2>4 DEF Units
<1>7. \A k \in Commands : Len(pipe[k]) <= Capacity
  BY OutputHere
<1>8. mode \in [Parents -> {"unset", "line", "full"}] /\ direct \in BOOLEAN
  BY StdioHere
<1> HIDE DEF MaxFd, Procs
<1> QED
  BY <1>1, <1>2, <1>3, <1>4, <1>5, <1>6, <1>7, <1>8 DEF TypeOK

\* The ends of pipes the shell has come in pairs.
LEMMA ShellIsPaired ==
    ASSUME IInv, pc["shell"] # "exited"
    PROVE  IsPaired(fds["shell"])
<1> DEFINE t == fds["shell"]
           e == ends["shell"]
           s == saved["shell"]
           at == pc["shell"]
           w == world
<1>1. ShellIs(at, t, e, s, line, c, w) /\ at \in ShellAt
  BY ShellHere DEF IInv, ControlInv
<1>2. c \in 1 .. Len(line) + 1 /\ Len(line) <= MaxCommands /\ Len(line) \in Nat
  BY DEF IInv, DataInv, WellFormed
<1>3. CASE at \in Resting
  BY <1>3, ShellHere, BaseIsPaired
<1>4. CASE at \in Executing
  <2>1. UsesPipes(t, line[c], c)
    BY <1>1, <1>4, ShellExecutes DEF Redirected
  <2>2. ~Piped(line[c].out)
    BY <1>4, ProcsAre DEF IInv, ControlInv, NeedsStage
  <2>3. \A m \in DOMAIN t : t[m][1] # "write"
    BY <2>1, <2>2 DEF UsesPipes
  <2> QED
    BY <2>3 DEF IsPaired, Range
<1>5. ASSUME NEW u, NEW x, NEW k \in Commands, HasEnds(u, x, k, w)
      PROVE  IsPaired(u)
  BY <1>5, PairsOfEnds, BaseIsPaired DEF HasEnds
<1>6. CASE at = "next"
  <2>1. BetweenCommands(t, e, c, w) /\ (e.old_flag => c > 1)
    BY <1>6, ShellHere
  <2>2. CASE e.old_flag
    <3>1. c - 1 \in Commands /\ HasEnds(t, e.old, c - 1, w)
      BY <1>2, <2>1, <2>2, BoundsAssumption DEF BetweenCommands, Commands
    <3> DEFINE k == c - 1
    <3>2. k \in Commands /\ HasEnds(t, e.old, k, w)
      BY <3>1
    <3> HIDE DEF k, t, e, w
    <3> QED
      BY <1>5, <3>2 DEF t
  <2>3. CASE ~e.old_flag
    BY <2>1, <2>3, BaseIsPaired DEF BetweenCommands
  <2> QED
    BY <2>2, <2>3
<1>7. CASE at \in {"forked", "wait"}
  <2>1. c \in Commands /\ c \in DOMAIN line
    BY <1>7, AtHand DEF IInv, ControlInv
  <2>2. CASE at = "wait"
    <3>1. IF e.old_flag THEN HasEnds(t, e.old, c, w) ELSE IsBase(t, w)
      BY <1>1, <2>2, SetUpIs
    <3> QED
      BY <1>5, <2>1, <3>1, BaseIsPaired
  <2>3. CASE at = "forked"
    <3> DEFINE b == KeptByShell(t, e)
    <3>1. /\ IF Piped(line[c].out) THEN HasEnds(b, e.new, c, w) ELSE IsBase(b, w)
          /\ e.old_flag <=> c > 1 /\ Piped(line[c - 1].out)
          /\ e.old_flag => /\ {e.old[1], e.old[2]} \subseteq DOMAIN t
                           /\ t[e.old[1]] = <<"read", c - 1>>
                           /\ t[e.old[2]] = <<"write", c - 1>>
      BY <1>1, <2>3, SetUpIs
    <3>2. IsPaired(b)
      <4> HIDE DEF b, e, w
      <4> QED
        BY <1>5, <2>1, <3>1, BaseIsPaired
    <3>3. CASE e.old_flag
      <4> DEFINE k == c - 1
                 x == e.old
      <4>1. k \in Commands
        BY <1>2, <2>1, <3>1, <3>3, BoundsAssumption DEF Commands
      <4>2. /\ {x[1], x[2]} \subseteq DOMAIN t /\ t[x[1]] = <<"read", k>> /\ t[x[2]] = <<"write", k>>
        BY <3>1, <3>3
      <4>3. IsPaired(Close(t, {x[1], x[2]}))
        BY <3>2, <3>3 DEF KeptByShell
      <4> HIDE DEF k, x, t
      <4>4. IsPaired(t)
        BY <4>1, <4>2, <4>3, PairsOfEnds
      <4> QED
        BY <4>4 DEF t
    <3>4. CASE ~e.old_flag
      BY <3>2, <3>4 DEF KeptByShell
    <3> QED
      BY <3>3, <3>4
  <2> QED
    BY <1>7, <2>2, <2>3
<1> QED
  BY <1>1, <1>3, <1>4, <1>6, <1>7 DEF ShellAt, InCommand, Executing, Resting

\* While a stage is there that writes to a pipe, the shell can read it.
LEMMA ShellHolds ==
    ASSUME IInv, pc["shell"] \in {"forked", "wait"}, Piped(line[c].out)
    PROVE  <<"read", c>> \in Range(fds["shell"])
<1> DEFINE t == fds["shell"]
           e == ends["shell"]
           w == world
<1>1. ShellIs(pc["shell"], t, e, saved["shell"], line, c, w)
  BY ShellHere
<1>2. CASE pc["shell"] = "wait"
  <2>1. HasEnds(t, e.old, c, w)
    BY <1>1, <1>2, SetUpIs
  <2> QED
    BY <2>1 DEF HasEnds, Range
<1>3. CASE pc["shell"] = "forked"
  <2> DEFINE b == KeptByShell(t, e)
  <2>1. HasEnds(b, e.new, c, w)
    BY <1>1, <1>3, SetUpIs
  <2>2. e.new[1] \in DOMAIN b /\ b[e.new[1]] = <<"read", c>>
    BY <2>1 DEF HasEnds
  <2>3. \A m \in DOMAIN b : m \in DOMAIN t /\ b[m] = t[m]
    BY DEF KeptByShell, Close, Restrict
  <2> HIDE DEF b, t
  <2>4. <<"read", c>> \in Range(t)
    BY <2>2, <2>3 DEF Range
  <2> QED
    BY <2>4 DEF t
<1> QED
  BY <1>2, <1>3

\* What a stage past its setup, or a command, has of pipes.
LEMMA ChildUses ==
    ASSUME IInv, NEW p \in {"stage", "command"}, pc[p] \notin {"none", "setup", "exited"}
    PROVE  UsesPipes(fds[p], line[c], c)
<1>1. CASE p = "stage"
  <2>1. StageIs(pc["stage"], fds["stage"], ends["stage"], saved["stage"], line, c, world)
    BY ShellHere
  <2>2. pc["stage"] \in StageAt
    BY DEF IInv, ControlInv
  <2> QED
    BY <1>1, <2>1, <2>2 DEF StageIs, StageAt, InCommand, Executing, ForCommand, Redirected
<1>2. CASE p = "command"
  BY <1>2, CommandHere DEF Redirected
<1> QED
  BY <1>1, <1>2

\* No process keeps a pipe it reads from ending, no write end is without a
\* reader, and no table grows: what the stage and the shell close of each pipe in
\* parsePipe is enough, and not too much.
THEOREM TablesSound == Spec => []TablesAreSound
<1>1. ASSUME IInv PROVE NoReaderHoldsWriteEnd
  <2> SUFFICES ASSUME NEW p \in {"stage", "command"}, NEW k \in Commands, pc[p] # "setup",
                      <<"read", k>> \in Range(fds[p]), <<"write", k>> \in Range(fds[p])
               PROVE  FALSE
    BY DEF NoReaderHoldsWriteEnd
  <2>1. pc[p] \notin {"none", "exited"}
    <3>1. Range(NoTable) = {}
      BY DEF NoTable, Range
    <3>2. pc[p] \in {"none", "exited"} => fds[p] = NoTable
      BY <1>1, ProcsAre DEF IInv, TablesInv
    <3> QED
      BY <3>1, <3>2
  <2>2. UsesPipes(fds[p], line[c], c)
    BY <1>1, <2>1, ChildUses
  <2>3. k = c - 1
    BY <2>2 DEF UsesPipes, Range
  <2>4. k = c
    BY <2>2 DEF UsesPipes, Range
  <2>5. c \in Int
    BY <1>1 DEF IInv, DataInv
  <2> QED
    BY <2>3, <2>4, <2>5
<1>2. ASSUME IInv PROVE WriteEndsHaveReaders
  <2> SUFFICES ASSUME NEW k \in Commands, NEW p \in Procs, <<"write", k>> \in Range(fds[p])
               PROVE  \E q \in Procs : <<"read", k>> \in Range(fds[q])
    BY DEF WriteEndsHaveReaders, HasWriter
  <2>1. pc[p] \notin {"none", "exited"}
    <3>1. Range(NoTable) = {}
      BY DEF NoTable, Range
    <3>2. pc[p] \in {"none", "exited"} => fds[p] = NoTable
      BY <1>2 DEF IInv, TablesInv
    <3> QED
      BY <3>1, <3>2
  <2>2. CASE p = "shell"
    BY <1>2, <2>1, <2>2, ShellIsPaired DEF IsPaired
  <2>3. CASE p = "stage" /\ pc[p] = "setup"
    <3>1. IsPaired(fds["stage"])
      BY <1>2, <2>3, ShellHere, SetUpIs
    <3> QED
      BY <2>3, <3>1 DEF IsPaired
  <2>4. CASE p \in {"stage", "command"} /\ pc[p] # "setup"
    <3>1. UsesPipes(fds[p], line[c], c)
      BY <1>2, <2>1, <2>4, ChildUses
    <3>2. k = c /\ Piped(line[c].out)
      BY <3>1 DEF UsesPipes, Range
    <3>3. pc["shell"] \in {"forked", "wait"}
      <4>1. CASE p = "stage"
        BY <1>2, <2>1, <4>1 DEF IInv, ControlInv
      <4>2. CASE p = "command"
        <5>1. PICK q \in Parents : pc[q] = "waitpid"
          BY <1>2, <2>1, <4>2, CommandHere
        <5>2. q # "shell"
          BY <1>2, <3>2, <5>1, ProcsAre DEF IInv, ControlInv, NeedsStage
        <5>3. pc["stage"] # "none"
          BY <5>1, <5>2, ProcsAre
        <5> QED
          BY <1>2, <5>3 DEF IInv, ControlInv
      <4> QED
        BY <2>4, <4>1, <4>2
    <3>4. <<"read", c>> \in Range(fds["shell"])
      BY <1>2, <3>2, <3>3, ShellHolds
    <3> QED
      BY <3>2, <3>4, ProcsAre
  <2>5. p \in {"shell", "stage", "command"}
    BY ProcsAre
  <2>6. CASE p = "command" /\ pc[p] = "setup"
    <3>1. pc["command"] \in CommandAt
      BY <1>2 DEF IInv, ControlInv
    <3> QED
      BY <2>6, <3>1 DEF CommandAt
  <2> QED
    BY <2>2, <2>3, <2>4, <2>5, <2>6
<1>3. IInv => TablesAreSound
  BY <1>1, <1>2, TypesAreOK DEF TablesAreSound
<1> QED
  BY <1>3, Invariance, PTL

-----------------------------------------------------------------------------
(***************************************************************************)
(* The lines of .ushrc and of a script.                                    *)
(***************************************************************************)
\* The places in a sequence that hold x, and one more.
LEMMA TimesGrow ==
    ASSUME NEW S, NEW ex \in Seq(S), NEW y \in S, NEW x
    PROVE  /\ Times(ex, x) \in Nat
           /\ Times(Append(ex, y), x) = IF x = y THEN Times(ex, x) + 1 ELSE Times(ex, x)
           /\ x \notin Range(ex) => Times(ex, x) = 0
<1> DEFINE D == {i \in DOMAIN ex : ex[i] = x}
           E == {i \in DOMAIN Append(ex, y) : Append(ex, y)[i] = x}
           n == Len(ex)
<1>1. n \in Nat /\ DOMAIN ex = 1 .. n /\ DOMAIN Append(ex, y) = 1 .. n + 1
      /\ (\A i \in 1 .. n : Append(ex, y)[i] = ex[i]) /\ Append(ex, y)[n + 1] = y
  OBVIOUS
<1>2. D \subseteq 1 .. n /\ n + 1 \notin D
  BY <1>1
<1>3. E = IF x = y THEN D \cup {n + 1} ELSE D
  BY <1>1
<1>4. IsFiniteSet(1 .. n)
  BY <1>1, FS_Interval
<1>5. x \notin Range(ex) => D = {}
  BY DEF Range
<1>6. Times(ex, x) = Cardinality(D) /\ Times(Append(ex, y), x) = Cardinality(E)
  BY DEF Times
<1> HIDE DEF D, E, n
<1>7. IsFiniteSet(D) /\ Cardinality(D) \in Nat
  BY <1>2, <1>4, FS_Subset, FS_CardinalityType
<1>8. Cardinality(D \cup {n + 1}) = Cardinality(D) + 1
  BY <1>2, <1>7, FS_AddElement
<1> QED
  BY <1>3, <1>5, <1>6, <1>7, <1>8, FS_EmptySet

\* What is at one place only.
LEMMA TimesOnce ==
    ASSUME NEW ex, NEW j \in DOMAIN ex, \A i \in DOMAIN ex : ex[i] = ex[j] => i = j
    PROVE  Times(ex, ex[j]) = 1
<1>1. {i \in DOMAIN ex : ex[i] = ex[j]} = {j}
  OBVIOUS
<1> QED
  BY <1>1, FS_Singleton DEF Times

\* The moves back of a file, and one more.
LEMMA MovesGrow ==
    ASSUME NEW mv \in Seq(FileNames \X Nat), NEW y \in FileNames \X Nat, NEW f
    PROVE  /\ Cardinality(Moves(mv, f)) \in Nat
           /\ Cardinality(Moves(mv, f)) = 0 <=> Moves(mv, f) = {}
           /\ Moves(Append(mv, y), f) =
                IF y[1] = f THEN Moves(mv, f) \cup {Len(mv) + 1} ELSE Moves(mv, f)
           /\ Cardinality(Moves(Append(mv, y), f)) =
                Cardinality(Moves(mv, f)) + (IF y[1] = f THEN 1 ELSE 0)
<1> DEFINE S == FileNames \X Nat
           D == Moves(mv, f)
           n == Len(mv)
<1>1. n \in Nat /\ DOMAIN mv = 1 .. n /\ DOMAIN Append(mv, y) = 1 .. n + 1
      /\ (\A i \in 1 .. n : Append(mv, y)[i] = mv[i]) /\ Append(mv, y)[n + 1] = y
  <2>1. mv \in Seq(S) /\ y \in S
    OBVIOUS
  <2> HIDE DEF S
  <2> QED
    BY <2>1
<1>2. D \subseteq 1 .. n /\ n + 1 \notin D
  BY <1>1 DEF Moves
<1>3. Moves(Append(mv, y), f) = IF y[1] = f THEN D \cup {n + 1} ELSE D
  BY <1>1 DEF Moves
<1>4. IsFiniteSet(1 .. n)
  BY <1>1, FS_Interval
<1> HIDE DEF D, n
<1>5. IsFiniteSet(D) /\ Cardinality(D) \in Nat
  BY <1>2, <1>4, FS_Subset, FS_CardinalityType
<1>6. Cardinality(D \cup {n + 1}) = Cardinality(D) + 1
  BY <1>2, <1>5, FS_AddElement
<1>7. Cardinality(D) = 0 <=> D = {}
  BY <1>5, FS_EmptySet
<1>8. Cardinality(Moves(Append(mv, y), f)) = Cardinality(D) + (IF y[1] = f THEN 1 ELSE 0)
  BY <1>3, <1>5, <1>6
<1> QED
  BY <1>3, <1>5, <1>7, <1>8 DEF D, n

AheadTyped(ah, off) ==
    /\ ah \in Seq(FileNames \X Nat) /\ \A y \in Range(ah) : IsLine(y)
    /\ off \in [FileNames -> Nat]
    /\ \A f \in FileNames : input[f] # NoFile => DOMAIN input[f] \subseteq Nat

\* parse() takes the next of the lines read ahead.
LEMMA TakeKeeps ==
    ASSUME NEW ex, NEW ah, NEW off, NEW et, NEW mv, NEW open,
           AheadTyped(ah, off), LinesAre(ex, ah, off, et, mv, open), ah # <<>>
    PROVE  LinesAre(Append(ex, ah[1]), Tail(ah), off, et, mv, open)
<1> DEFINE S == FileNames \X Nat
           x == ah[1]
           new == Append(ex, x)
           rest == Tail(ah)
           n == Len(ex)
           m == Len(ah)
<1>1. /\ ex \in Seq(S) /\ (\A y \in Range(ex) : IsLine(y))
      /\ mv \in Seq(S) /\ (\A k \in DOMAIN mv : mv[k][2] \in Nat /\ mv[k][2] <= n)
      /\ Consecutive(ah)
      /\ NonePassed(ex, ah, off, et) /\ UshrcFirst(ex, ah, open)
      /\ Forward(ex, ah, off, mv) /\ Counted(ex, ah, off, mv) /\ Once(ex, ah, off, mv, open)
  <2>1. mv \in Seq(S) /\ (\A k \in DOMAIN mv : mv[k][2] <= n)
    BY DEF LinesAre
  <2>2. \A k \in DOMAIN mv : mv[k] \in S
    <3> HIDE DEF S
    <3> QED
      BY <2>1
  <2> QED
    BY <2>1, <2>2 DEF LinesAre
<1>2. /\ ah \in Seq(S) /\ Head(ah) = x
      /\ m \in Nat /\ m > 0 /\ DOMAIN ah = 1 .. m
      /\ DOMAIN rest = 1 .. m - 1 /\ \A i \in 1 .. m - 1 : rest[i] = ah[i + 1]
  <2> HIDE DEF S
  <2>1. ah \in Seq(S)
    BY DEF S, AheadTyped
  <2> QED
    BY <2>1
<1>3. /\ x \in S /\ rest \in Seq(S) /\ Range(ah) = Range(rest) \cup {x}
  <2> HIDE DEF S
  <2> QED
    BY <1>2, Dequeued
<1>4. /\ new \in Seq(S) /\ Range(new) = Range(ex) \cup {x}
      /\ n \in Nat /\ Len(new) = n + 1 /\ DOMAIN ex = 1 .. n /\ DOMAIN new = 1 .. n + 1
      /\ (\A i \in 1 .. n : new[i] = ex[i]) /\ new[n + 1] = x
  <2> HIDE DEF S, x
  <2> QED
    BY <1>1, <1>3, Enqueued
<1> HIDE DEF new, rest, x, n, m
<1>5. x[1] \in FileNames /\ x[2] \in Nat /\ x = <<x[1], x[2]>> /\ IsLine(x) /\ x \in Range(ah)
  <2>1. x[1] \in FileNames /\ x[2] \in Nat /\ x = <<x[1], x[2]>>
    BY <1>3
  <2> QED
    BY <1>3, <2>1 DEF AheadTyped
<1> HIDE DEF S
<1>6. \A i \in 1 .. m - 1 : rest[i] = <<x[1], x[2] + i>>
  <2> TAKE i \in 1 .. m - 1
  <2>1. i + 1 \in DOMAIN ah /\ (x[2] + (i + 1)) - 1 = x[2] + i
    BY <1>2, <1>5
  <2>2. ah[i + 1] = <<x[1], x[2] + (i + 1) - 1>>
    BY <1>1, <2>1 DEF Consecutive, x
  <2> QED
    BY <1>2, <2>1, <2>2
<1>7. /\ \A y \in Range(rest) : y[1] = x[1] /\ y[2] \in Nat /\ x[2] < y[2]
      /\ x \notin Range(rest)
  BY <1>2, <1>5, <1>6 DEF Range
<1>8. rest # <<>> => m > 1 /\ rest[1] = <<x[1], x[2] + 1>>
  <2>1. rest # <<>> => m > 1
    <3>1. m = 1 => Len(rest) = 0
      BY <1>2, <1>3
    <3> QED
      BY <1>2, <1>3, <3>1
  <2> QED
    BY <1>2, <1>6, <2>1
<1>9. Consecutive(rest)
  <2> SUFFICES ASSUME NEW i \in 1 .. m - 1
               PROVE  rest[i] = <<rest[1][1], rest[1][2] + i - 1>>
    BY <1>2 DEF Consecutive
  <2>1. 1 \in 1 .. m - 1
    BY <1>2
  <2>2. rest[1] = <<x[1], x[2] + 1>>
    BY <1>6, <2>1
  <2>3. rest[i] = <<x[1], x[2] + i>>
    BY <1>6
  <2> QED
    BY <1>5, <2>2, <2>3
<1>10. NonePassed(new, rest, off, et)
  <2>1. /\ \A y \in Range(ex) : \A i \in 1 .. y[2] : <<y[1], i>> \in Range(ex) \cup et
        /\ \A i \in 1 .. x[2] - 1 : <<x[1], i>> \in Range(ex) \cup et
        /\ \A f \in FileNames : \A i \in 1 .. off[f] : <<f, i>> \in (Range(ex) \cup et) \cup Range(ah)
    BY <1>1 DEF NonePassed, x
  <2>2. \A i \in 1 .. x[2] : <<x[1], i>> \in Range(new) \cup et
    BY <1>4, <1>5, <2>1
  <2>3. ASSUME NEW y \in Range(new), NEW i \in 1 .. y[2]
        PROVE  <<y[1], i>> \in Range(new) \cup et
    BY <1>4, <2>1, <2>2
  <2>4. rest # <<>> => \A i \in 1 .. rest[1][2] - 1 : <<rest[1][1], i>> \in Range(new) \cup et
    BY <1>5, <1>8, <2>2
  <2>5. ASSUME NEW f \in FileNames, NEW i \in 1 .. off[f]
        PROVE  <<f, i>> \in (Range(new) \cup et) \cup Range(rest)
    BY <1>3, <1>4, <2>1
  <2> QED
    BY <2>3, <2>4, <2>5 DEF NonePassed
<1>11. UshrcFirst(new, rest, open)
  <2>1. /\ \A i, j \in DOMAIN ex : i < j /\ ex[j][1] = "rc" => ex[i][1] = "rc"
        /\ \A y \in Range(ah) : y[1] = "rc" => \A z \in Range(ex) : z[1] = "rc"
        /\ open => \A z \in Range(ex) \cup Range(ah) : z[1] = "rc"
    BY <1>1 DEF UshrcFirst
  <2>2. ASSUME NEW i \in DOMAIN new, NEW j \in DOMAIN new, i < j, new[j][1] = "rc"
        PROVE  new[i][1] = "rc"
    <3>1. i \in 1 .. n /\ new[i] = ex[i] /\ ex[i] \in Range(ex)
      BY <1>4, <2>2 DEF Range
    <3>2. CASE j = n + 1
      BY <1>4, <1>5, <2>1, <2>2, <3>1, <3>2
    <3>3. CASE j # n + 1
      <4>1. j \in 1 .. n /\ new[j] = ex[j]
        BY <1>4, <2>2, <3>3
      <4> QED
        BY <1>4, <2>1, <2>2, <3>1, <4>1
    <3> QED
      BY <3>2, <3>3
  <2>3. ASSUME NEW y \in Range(rest), y[1] = "rc", NEW z \in Range(new)
        PROVE  z[1] = "rc"
    BY <1>3, <1>4, <1>5, <1>7, <2>1, <2>3
  <2>4. open => \A z \in Range(new) \cup Range(rest) : z[1] = "rc"
    BY <1>3, <1>4, <1>5, <2>1
  <2> QED
    BY <2>2, <2>3, <2>4 DEF UshrcFirst
<1>12. Forward(new, rest, off, mv)
  <2> SUFFICES ASSUME NEW f \in FileNames, Moves(mv, f) = {}
               PROVE  /\ \A i, j \in DOMAIN new : i < j /\ new[i][1] = f /\ new[j][1] = f
                                                    => new[i][2] < new[j][2]
                      /\ \A z \in Range(new) : z[1] = f =>
                           /\ z[2] <= off[f]
                           /\ \A y \in Range(rest) : y[1] = f => z[2] < y[2]
                      /\ \A y \in Range(rest) : y[1] = f => y[2] <= off[f]
    BY DEF Forward
  <2>1. /\ \A i, j \in DOMAIN ex : i < j /\ ex[i][1] = f /\ ex[j][1] = f => ex[i][2] < ex[j][2]
        /\ \A z \in Range(ex) : z[1] = f =>
             /\ z[2] <= off[f]
             /\ \A y \in Range(ah) : y[1] = f => z[2] < y[2]
        /\ \A y \in Range(ah) : y[1] = f => y[2] <= off[f]
    BY <1>1 DEF Forward
  <2>2. \A z \in Range(new) : z[1] = f =>
           /\ z[2] <= off[f]
           /\ \A y \in Range(rest) : y[1] = f => z[2] < y[2]
    BY <1>3, <1>4, <1>5, <1>7, <2>1
  <2>3. ASSUME NEW i \in 1 .. n + 1, NEW j \in 1 .. n + 1, i < j, new[i][1] = f, new[j][1] = f
        PROVE  new[i][2] < new[j][2]
    <3>1. i \in 1 .. n /\ new[i] = ex[i] /\ ex[i] \in Range(ex)
      BY <1>4, <2>3 DEF Range
    <3>2. CASE j = n + 1
      BY <1>4, <1>5, <2>1, <2>3, <3>1, <3>2
    <3>3. CASE j # n + 1
      <4>1. j \in 1 .. n /\ new[j] = ex[j]
        BY <1>4, <3>3
      <4> QED
        BY <1>4, <2>1, <2>3, <3>1, <4>1
    <3> QED
      BY <3>2, <3>3
  <2> QED
    BY <1>3, <1>4, <2>1, <2>2, <2>3
<1>13. Counted(new, rest, off, mv)
  <2> SUFFICES ASSUME NEW f \in FileNames, input[f] # NoFile, NEW k \in DOMAIN input[f]
               PROVE  Times(new, <<f, k>>) + (IF <<f, k>> \in Range(rest) THEN 1 ELSE 0)
                        <= Cardinality(Moves(mv, f)) + (IF k <= off[f] THEN 1 ELSE 0)
    BY DEF Counted
  <2> DEFINE y == <<f, k>>
             a == Cardinality(Moves(mv, f)) + (IF k <= off[f] THEN 1 ELSE 0)
  <2>1. Times(ex, y) + (IF y \in Range(ah) THEN 1 ELSE 0) <= a
    BY <1>1 DEF Counted
  <2> HIDE DEF a, y
  <2>2. /\ Times(ex, y) \in Nat
        /\ Times(new, y) = IF y = x THEN Times(ex, y) + 1 ELSE Times(ex, y)
    <3>1. ex \in Seq(S) /\ x \in S
      BY <1>1, <1>3
    <3> HIDE DEF S
    <3> QED
      BY <3>1, TimesGrow DEF new
  <2>3. Times(new, y) + (IF y \in Range(rest) THEN 1 ELSE 0)
          = Times(ex, y) + (IF y \in Range(ah) THEN 1 ELSE 0)
    BY <1>3, <1>7, <2>2
  <2> QED
    BY <2>1, <2>3 DEF a, y
<1>14. Once(new, rest, off, mv, open)
  <2> SUFFICES ASSUME NEW k \in DOMAIN mv, Cardinality(Moves(mv, mv[k][1])) = 1,
                      NEW j \in 1 .. mv[k][2], new[j][1] = mv[k][1]
               PROVE  /\ Times(new, new[j]) = 1 /\ new[j] \notin Range(rest)
                      /\ new[j][2] <= off[new[j][1]] \/ (new[j][1] = "rc" /\ ~open)
    BY DEF Once
  <2>1. j \in 1 .. n /\ new[j] = ex[j]
    <3>1. mv[k][2] \in Nat /\ mv[k][2] <= n
      BY <1>1
    <3> QED
      BY <1>4, <3>1
  <2>2. /\ Times(ex, ex[j]) = 1 /\ ex[j] \notin Range(ah)
        /\ ex[j][2] <= off[ex[j][1]] \/ (ex[j][1] = "rc" /\ ~open)
    BY <1>1, <2>1 DEF Once
  <2>3. Times(new, ex[j]) = Times(ex, ex[j])
    <3>1. ex \in Seq(S) /\ x \in S /\ ex[j] # x
      BY <1>1, <1>3, <1>5, <2>2
    <3> HIDE DEF S
    <3> QED
      BY <3>1, TimesGrow DEF new
  <2> QED
    BY <1>3, <2>1, <2>2, <2>3
<1>15. /\ \A y \in Range(new) : IsLine(y)
       /\ \A k \in DOMAIN mv : mv[k][2] <= Len(new)
  BY <1>1, <1>4, <1>5
<1>16. LinesAre(new, rest, off, et, mv, open)
  BY <1>1, <1>4, <1>9, <1>10, <1>11, <1>12, <1>13, <1>14, <1>15 DEF LinesAre, S
<1> QED
  BY <1>16 DEF new, rest, x

LEMMA CountsAreNat ==
    ASSUME NEW ex \in Seq(FileNames \X Nat), NEW mv \in Seq(FileNames \X Nat), NEW x, NEW f
    PROVE  Times(ex, x) \in Nat /\ Cardinality(Moves(mv, f)) \in Nat
<1> DEFINE y == <<"rc", 0>>
<1>1. y \in FileNames \X Nat
  BY DEF FileNames
<1> HIDE DEF y
<1> QED
  BY <1>1, TimesGrow, MovesGrow

LEMMA LinesHere ==
    ASSUME NEW ex, NEW ah, NEW off, NEW et, NEW mv, NEW open,
           AheadTyped(ah, off), LinesAre(ex, ah, off, et, mv, open)
    PROVE  /\ \A x \in Range(ex) \cup Range(ah) :
                x[1] \in FileNames /\ x[2] \in Nat /\ x = <<x[1], x[2]>> /\ IsLine(x)
           /\ \A f \in FileNames : off[f] \in Nat
           /\ Len(ex) \in Nat /\ DOMAIN ex = 1 .. Len(ex)
           /\ Len(ah) \in Nat /\ DOMAIN ah = 1 .. Len(ah) /\ (ah # <<>> => Len(ah) > 0)
           /\ Len(mv) \in Nat /\ DOMAIN mv = 1 .. Len(mv)
           /\ \A k \in DOMAIN mv : mv[k][1] \in FileNames /\ mv[k][2] \in 0 .. Len(ex)
<1> DEFINE S == FileNames \X Nat
<1>1. /\ ex \in Seq(S) /\ mv \in Seq(S) /\ ah \in Seq(S)
      /\ \A k \in DOMAIN mv : mv[k][2] <= Len(ex)
      /\ \A x \in Range(ex) \cup Range(ah) : IsLine(x)
  BY DEF LinesAre, AheadTyped
<1>2. \A f \in FileNames : off[f] \in Nat
  BY DEF AheadTyped
<1>3. \A x \in S : x[1] \in FileNames /\ x[2] \in Nat /\ x = <<x[1], x[2]>>
  OBVIOUS
<1> HIDE DEF S
<1>4. Range(ex) \subseteq S /\ Range(ah) \subseteq S
  BY <1>1, RangeInSet
<1>5. /\ Len(ex) \in Nat /\ DOMAIN ex = 1 .. Len(ex)
      /\ Len(ah) \in Nat /\ DOMAIN ah = 1 .. Len(ah) /\ (ah # <<>> => Len(ah) > 0)
      /\ Len(mv) \in Nat /\ DOMAIN mv = 1 .. Len(mv) /\ \A k \in DOMAIN mv : mv[k] \in S
  BY <1>1
<1>6. \A k \in DOMAIN mv : mv[k][1] \in FileNames /\ mv[k][2] \in 0 .. Len(ex)
  BY <1>1, <1>3, <1>5
<1> QED
  BY <1>1, <1>2, <1>3, <1>4, <1>5, <1>6

\* stdio fills its buffer with the next n lines.
NextLines(f, off, n) == [i \in 1 .. n |-> <<f, off[f] + i>>]
OffsetAfter(f, off, n) == [off EXCEPT ![f] = @ + n]
LEMMA FillKeeps ==
    ASSUME NEW ex, NEW off, NEW et, NEW mv, NEW open,
           AheadTyped(<<>>, off), LinesAre(ex, <<>>, off, et, mv, open),
           NEW f \in FileNames, open <=> f = "rc", input[f] # NoFile,
           NEW n \in Nat, 1 .. off[f] + n \subseteq DOMAIN input[f]
    PROVE  /\ AheadTyped(NextLines(f, off, n), OffsetAfter(f, off, n))
           /\ LinesAre(ex, NextLines(f, off, n), OffsetAfter(f, off, n), et, mv, open)
<1> DEFINE lines == [i \in 1 .. n |-> <<f, off[f] + i>>]
           to == [off EXCEPT ![f] = @ + n]
<1>1. /\ \A x \in Range(ex) :
            x[1] \in FileNames /\ x[2] \in Nat /\ x = <<x[1], x[2]>> /\ IsLine(x)
      /\ \A g \in FileNames : off[g] \in Nat
      /\ \A k \in DOMAIN mv : mv[k][1] \in FileNames /\ mv[k][2] \in 0 .. Len(ex)
      /\ Len(ex) \in Nat /\ DOMAIN ex = 1 .. Len(ex)
  BY LinesHere
<1>2. /\ to \in [FileNames -> Nat] /\ to[f] = off[f] + n
      /\ \A g \in FileNames \ {f} : to[g] = off[g]
  BY <1>1 DEF AheadTyped
<1>3. lines \in Seq(FileNames \X Nat) /\ DOMAIN lines = 1 .. n
  <2>1. \A i \in 1 .. n : <<f, off[f] + i>> \in FileNames \X Nat
    BY <1>1
  <2> QED
    BY <2>1
<1>4. \A y : y \in Range(lines) <=> \E i \in off[f] + 1 .. off[f] + n : y = <<f, i>>
  <2>1. ASSUME NEW i \in off[f] + 1 .. off[f] + n
        PROVE  <<f, i>> \in Range(lines)
    <3>1. i - off[f] \in 1 .. n /\ off[f] + (i - off[f]) = i
      BY <1>1
    <3>2. lines[i - off[f]] = <<f, i>>
      BY <3>1
    <3> QED
      BY <1>3, <3>1, <3>2 DEF Range
  <2>2. ASSUME NEW i \in 1 .. n
        PROVE  off[f] + i \in off[f] + 1 .. off[f] + n
    BY <1>1
  <2> QED
    BY <1>3, <2>1, <2>2 DEF Range
<1>5. Consecutive(lines)
  <2> SUFFICES ASSUME NEW i \in 1 .. n
               PROVE  lines[i] = <<lines[1][1], lines[1][2] + i - 1>>
    BY <1>3 DEF Consecutive
  <2>1. 1 \in 1 .. n
    OBVIOUS
  <2> QED
    BY <1>1, <2>1
<1>6. lines # <<>> => lines[1] = <<f, off[f] + 1>>
  <2>1. n = 0 => Len(lines) = 0 /\ lines = <<>>
    BY <1>3
  <2> QED
    BY <2>1
<1> HIDE DEF lines, to
<1>7. AheadTyped(lines, to)
  <2>1. \A y \in Range(lines) : IsLine(y)
    BY <1>1, <1>4 DEF IsLine
  <2> QED
    BY <1>2, <1>3, <2>1 DEF AheadTyped
<1>8. /\ ex \in Seq(FileNames \X Nat) /\ mv \in Seq(FileNames \X Nat)
      /\ NonePassed(ex, <<>>, off, et) /\ UshrcFirst(ex, <<>>, open)
      /\ Forward(ex, <<>>, off, mv) /\ Counted(ex, <<>>, off, mv) /\ Once(ex, <<>>, off, mv, open)
  BY DEF LinesAre
<1>a. ASSUME NEW g \in FileNames
      PROVE  off[g] <= to[g] /\ off[g] \in Nat /\ to[g] \in Nat
  BY <1>1, <1>2
<1>9. NonePassed(ex, lines, to, et)
  <2>1. /\ \A x \in Range(ex) : \A i \in 1 .. x[2] : <<x[1], i>> \in Range(ex) \cup et
        /\ \A g \in FileNames : \A i \in 1 .. off[g] : <<g, i>> \in Range(ex) \cup et
    BY <1>8, EmptyQueue DEF NonePassed
  <2>2. lines # <<>> => \A i \in 1 .. lines[1][2] - 1 : <<lines[1][1], i>> \in Range(ex) \cup et
    BY <1>1, <1>6, <2>1
  <2>3. ASSUME NEW g \in FileNames, NEW i \in 1 .. to[g]
        PROVE  <<g, i>> \in (Range(ex) \cup et) \cup Range(lines)
    <3>1. CASE g = f /\ i > off[f]
      BY <1>1, <1>2, <1>4, <3>1
    <3>2. CASE ~(g = f /\ i > off[f])
      BY <1>1, <1>2, <2>1, <3>2
    <3> QED
      BY <3>1, <3>2
  <2> QED
    BY <2>1, <2>2, <2>3 DEF NonePassed
<1>10. UshrcFirst(ex, lines, open)
  <2>1. \A y \in Range(lines) : y[1] = f
    BY <1>4
  <2> QED
    BY <1>8, <2>1 DEF UshrcFirst
<1>11. Forward(ex, lines, to, mv)
  <2> SUFFICES ASSUME NEW g \in FileNames, Moves(mv, g) = {}
               PROVE  /\ \A i, j \in DOMAIN ex : i < j /\ ex[i][1] = g /\ ex[j][1] = g
                                                   => ex[i][2] < ex[j][2]
                      /\ \A x \in Range(ex) : x[1] = g =>
                           /\ x[2] <= to[g]
                           /\ \A y \in Range(lines) : y[1] = g => x[2] < y[2]
                      /\ \A y \in Range(lines) : y[1] = g => y[2] <= to[g]
    BY DEF Forward
  <2>1. /\ \A i, j \in DOMAIN ex : i < j /\ ex[i][1] = g /\ ex[j][1] = g => ex[i][2] < ex[j][2]
        /\ \A x \in Range(ex) : x[1] = g => x[2] <= off[g]
    BY <1>8 DEF Forward
  <2>2. off[g] <= to[g]
    BY <1>1, <1>2
  <2>3. \A y \in Range(lines) : y[1] = f /\ y[2] \in Nat /\ off[f] < y[2] /\ y[2] <= to[f]
    BY <1>1, <1>2, <1>4
  <2>4. to[g] \in Nat /\ off[g] \in Nat
    BY <1>1, <1>2
  <2>5. ASSUME NEW x \in Range(ex), x[1] = g
        PROVE  x[2] <= to[g] /\ \A y \in Range(lines) : y[1] = g => x[2] < y[2]
    BY <1>1, <2>1, <2>2, <2>3, <2>4, <2>5
  <2> QED
    BY <2>1, <2>3, <2>5
<1>12. Counted(ex, lines, to, mv)
  <2> SUFFICES ASSUME NEW g \in FileNames, input[g] # NoFile, NEW k \in DOMAIN input[g]
               PROVE  Times(ex, <<g, k>>) + (IF <<g, k>> \in Range(lines) THEN 1 ELSE 0)
                        <= Cardinality(Moves(mv, g)) + (IF k <= to[g] THEN 1 ELSE 0)
    BY DEF Counted
  <2>1. Times(ex, <<g, k>>) \in Nat /\ Cardinality(Moves(mv, g)) \in Nat
    BY <1>8, CountsAreNat
  <2>2. Times(ex, <<g, k>>) <= Cardinality(Moves(mv, g)) + (IF k <= off[g] THEN 1 ELSE 0)
    <3>1. Times(ex, <<g, k>>) + 0 <= Cardinality(Moves(mv, g)) + (IF k <= off[g] THEN 1 ELSE 0)
      BY <1>8, EmptyQueue DEF Counted
    <3> QED
      BY <3>1, <2>1
  <2> DEFINE a == Times(ex, <<g, k>>)
             b == Cardinality(Moves(mv, g))
  <2> HIDE DEF a, b
  <2>3. a <= b + (IF k <= off[g] THEN 1 ELSE 0) /\ a \in Nat /\ b \in Nat
    BY <2>1, <2>2 DEF a, b
  <2>4. <<g, k>> \in Range(lines) => k \in Nat /\ ~(k <= off[g]) /\ k <= to[g]
    BY <1>1, <1>2, <1>4
  <2>5. k <= off[g] => k <= to[g]
    <3>1. k \in Nat
      BY DEF AheadTyped
    <3> QED
      BY <1>1, <1>2, <3>1
  <2>6. a + (IF <<g, k>> \in Range(lines) THEN 1 ELSE 0) <= b + (IF k <= to[g] THEN 1 ELSE 0)
    BY <2>3, <2>4, <2>5
  <2> QED
    BY <2>6 DEF a, b
<1>13. Once(ex, lines, to, mv, open)
  <2> SUFFICES ASSUME NEW k \in DOMAIN mv, Cardinality(Moves(mv, mv[k][1])) = 1,
                      NEW j \in 1 .. mv[k][2], ex[j][1] = mv[k][1]
               PROVE  /\ Times(ex, ex[j]) = 1 /\ ex[j] \notin Range(lines)
                      /\ ex[j][2] <= to[ex[j][1]] \/ (ex[j][1] = "rc" /\ ~open)
    BY DEF Once
  <2>1. /\ Times(ex, ex[j]) = 1
        /\ ex[j][2] <= off[ex[j][1]] \/ (ex[j][1] = "rc" /\ ~open)
    BY <1>8 DEF Once
  <2>2. ex[j][1] \in FileNames /\ ex[j][2] \in Nat
    <3>1. j \in DOMAIN ex
      BY <1>1
    <3> QED
      BY <1>1, <3>1 DEF Range
  <2> DEFINE x == ex[j]
  <2> HIDE DEF x
  <2>3. /\ x[1] \in FileNames /\ x[2] \in Nat
        /\ x[2] <= off[x[1]] \/ (x[1] = "rc" /\ ~open)
    BY <2>1, <2>2 DEF x
  <2>4. x \notin Range(lines)
    BY <1>1, <1>4, <2>3
  <2>5. x[2] <= to[x[1]] \/ (x[1] = "rc" /\ ~open)
    <3>1. off[x[1]] <= to[x[1]] /\ off[x[1]] \in Nat /\ to[x[1]] \in Nat
      BY <1>a, <2>3
    <3> DEFINE a == off[x[1]]
               b == to[x[1]]
    <3>2. a <= b /\ a \in Nat /\ b \in Nat /\ (x[2] <= a \/ (x[1] = "rc" /\ ~open))
      BY <2>3, <3>1
    <3> HIDE DEF a, b
    <3>3. x[2] <= b \/ (x[1] = "rc" /\ ~open)
      BY <2>3, <3>2
    <3> QED
      BY <3>3 DEF b
  <2> QED
    BY <2>1, <2>4, <2>5 DEF x
<1>14. LinesAre(ex, lines, to, et, mv, open)
  BY <1>5, <1>9, <1>10, <1>11, <1>12, <1>13 DEF LinesAre
<1> QED
  BY <1>7, <1>14 DEF lines, to, NextLines, OffsetAfter

\* A child that exits moves an offset back by what is read ahead.
LEMMA BackKeeps ==
    ASSUME NEW ex, NEW ah, NEW off, NEW et, NEW mv, NEW open,
           AheadTyped(ah, off), LinesAre(ex, ah, off, et, mv, open), ah # <<>>,
           NEW f \in FileNames, Len(ah) <= off[f]
    PROVE  LinesAre(ex, ah, [off EXCEPT ![f] = @ - Len(ah)], et,
                    Append(mv, <<f, Len(ex)>>), open)
<1> DEFINE S == FileNames \X Nat
           to == [off EXCEPT ![f] = @ - Len(ah)]
           move == <<f, Len(ex)>>
           moves == Append(mv, move)
           last == Len(mv) + 1
<1>1. /\ \A x \in Range(ex) \cup Range(ah) :
            x[1] \in FileNames /\ x[2] \in Nat /\ x = <<x[1], x[2]>> /\ IsLine(x)
      /\ \A g \in FileNames : off[g] \in Nat
      /\ Len(ex) \in Nat /\ DOMAIN ex = 1 .. Len(ex)
      /\ Len(ah) \in Nat /\ DOMAIN ah = 1 .. Len(ah) /\ Len(ah) > 0
      /\ Len(mv) \in Nat /\ DOMAIN mv = 1 .. Len(mv)
      /\ \A k \in DOMAIN mv : mv[k][1] \in FileNames /\ mv[k][2] \in 0 .. Len(ex)
  BY LinesHere
<1>2. /\ ex \in Seq(S) /\ mv \in Seq(S) /\ Consecutive(ah)
      /\ \A x \in Range(ex) : IsLine(x)
      /\ NonePassed(ex, ah, off, et) /\ UshrcFirst(ex, ah, open)
      /\ Forward(ex, ah, off, mv) /\ Counted(ex, ah, off, mv) /\ Once(ex, ah, off, mv, open)
  BY DEF LinesAre
<1>3. /\ to[f] = off[f] - Len(ah) /\ \A g \in FileNames \ {f} : to[g] = off[g]
      /\ \A g \in FileNames : to[g] \in Nat /\ to[g] <= off[g]
  BY <1>1 DEF AheadTyped
<1>4. move \in S /\ move[1] = f /\ move[2] = Len(ex)
  BY <1>1
<1> HIDE DEF S, move, to
<1>5. /\ moves \in Seq(S) /\ Len(moves) = last /\ DOMAIN moves = 1 .. last
      /\ (\A k \in 1 .. Len(mv) : moves[k] = mv[k]) /\ moves[last] = move
  BY <1>1, <1>2, <1>4
<1>6. ASSUME NEW g
      PROVE  /\ Cardinality(Moves(mv, g)) \in Nat
             /\ Cardinality(Moves(mv, g)) = 0 <=> Moves(mv, g) = {}
             /\ g = f => /\ Moves(moves, g) = Moves(mv, g) \cup {last}
                         /\ Cardinality(Moves(moves, g)) = Cardinality(Moves(mv, g)) + 1
             /\ g # f => Moves(moves, g) = Moves(mv, g)
  BY <1>2, <1>4, MovesGrow DEF S
<1> HIDE DEF moves, last
<1>7. NonePassed(ex, ah, to, et)
  <2>1. ASSUME NEW g \in FileNames, NEW i \in 1 .. to[g]
        PROVE  i \in 1 .. off[g]
    BY <1>1, <1>3
  <2> QED
    BY <1>2, <2>1 DEF NonePassed
<1>8. Forward(ex, ah, to, moves)
  <2> SUFFICES ASSUME NEW g \in FileNames, Moves(moves, g) = {}
               PROVE  /\ \A i, j \in DOMAIN ex : i < j /\ ex[i][1] = g /\ ex[j][1] = g
                                                   => ex[i][2] < ex[j][2]
                      /\ \A x \in Range(ex) : x[1] = g =>
                           /\ x[2] <= to[g]
                           /\ \A y \in Range(ah) : y[1] = g => x[2] < y[2]
                      /\ \A y \in Range(ah) : y[1] = g => y[2] <= to[g]
    BY DEF Forward
  <2>1. g # f /\ Moves(mv, g) = {} /\ to[g] = off[g]
    BY <1>3, <1>6
  <2> QED
    BY <1>2, <2>1 DEF Forward
<1>9. Counted(ex, ah, to, moves)
  <2> SUFFICES ASSUME NEW g \in FileNames, input[g] # NoFile, NEW k \in DOMAIN input[g]
               PROVE  Times(ex, <<g, k>>) + (IF <<g, k>> \in Range(ah) THEN 1 ELSE 0)
                        <= Cardinality(Moves(moves, g)) + (IF k <= to[g] THEN 1 ELSE 0)
    BY DEF Counted
  <2> DEFINE a == Times(ex, <<g, k>>) + (IF <<g, k>> \in Range(ah) THEN 1 ELSE 0)
             b == Cardinality(Moves(mv, g))
             d == Cardinality(Moves(moves, g))
  <2>1. a <= b + (IF k <= off[g] THEN 1 ELSE 0)
    BY <1>2 DEF Counted
  <2>2. a \in Nat
    <3>1. Times(ex, <<g, k>>) \in Nat
      BY <1>2, CountsAreNat DEF S
    <3> QED
      BY <3>1
  <2>3. b \in Nat /\ d = IF g = f THEN b + 1 ELSE b
    BY <1>6
  <2> HIDE DEF a, b, d
  <2>4. a <= d + (IF k <= to[g] THEN 1 ELSE 0)
    <3>1. CASE g = f
      BY <2>1, <2>2, <2>3, <3>1
    <3>2. CASE g # f
      <4>1. to[g] = off[g]
        BY <1>3, <3>2
      <4> QED
        BY <2>1, <2>2, <2>3, <3>2, <4>1
    <3> QED
      BY <3>1, <3>2
  <2> QED
    BY <2>4 DEF a, d
<1>10. ASSUME NEW j \in 1 .. Len(ex), ex[j][1] = f, Moves(mv, f) = {}
       PROVE  /\ Times(ex, ex[j]) = 1 /\ ex[j] \notin Range(ah)
              /\ ex[j][2] <= to[f] \/ (f = "rc" /\ ~open)
  <2>1. /\ \A i, k \in DOMAIN ex : i < k /\ ex[i][1] = f /\ ex[k][1] = f => ex[i][2] < ex[k][2]
        /\ \A x \in Range(ex) : x[1] = f => \A y \in Range(ah) : y[1] = f => x[2] < y[2]
        /\ \A y \in Range(ah) : y[1] = f => y[2] <= off[f]
    BY <1>2, <1>10 DEF Forward
  <2>2. j \in DOMAIN ex /\ ex[j] \in Range(ex) /\ ex[j][2] \in Nat
    <3>1. j \in DOMAIN ex /\ ex[j] \in Range(ex)
      BY <1>1 DEF Range
    <3> QED
      BY <1>1, <3>1
  <2>3. ASSUME NEW i \in DOMAIN ex, ex[i] = ex[j]
        PROVE  i = j
    <3>1. ~(i < j) /\ ~(j < i)
      BY <1>10, <2>1, <2>2, <2>3
    <3> QED
      BY <1>1, <3>1
  <2>4. Times(ex, ex[j]) = 1
    BY <2>2, <2>3, TimesOnce
  <2>5. ex[j] \notin Range(ah)
    BY <1>10, <2>1, <2>2
  <2>6. \A y \in Range(ah) : y[1] = ah[1][1]
    BY <1>2 DEF Consecutive, Range
  <2>7. ah[1] \in Range(ah) /\ ah[1][2] \in Nat /\ ah[1][1] \in FileNames
    BY <1>1 DEF Range
  <2>8. CASE ah[1][1] = f
    <3>1. ex[j][2] < ah[1][2]
      BY <1>10, <2>1, <2>2, <2>7, <2>8
    <3>2. ah[Len(ah)] = <<f, ah[1][2] + Len(ah) - 1>> /\ ah[Len(ah)] \in Range(ah)
      BY <1>1, <1>2, <2>8 DEF Consecutive, Range
    <3>3. ah[1][2] + Len(ah) - 1 <= off[f]
      BY <2>1, <3>2
    <3> QED
      BY <1>1, <1>3, <2>2, <2>4, <2>5, <2>7, <3>1, <3>3
  <2>9. CASE ah[1][1] # f
    <3>1. CASE f = "rc"
      <4>1. ~open
        BY <1>2, <2>2, <2>7, <2>9, <3>1 DEF UshrcFirst
      <4> QED
        BY <2>4, <2>5, <3>1, <4>1
    <3>2. CASE f # "rc"
      <4>1. ah[1][1] = "rc"
        BY <2>7, <2>9, <3>2 DEF FileNames
      <4>2. ex[j][1] = "rc"
        BY <1>2, <2>2, <2>7, <4>1 DEF UshrcFirst
      <4> QED
        BY <1>10, <3>2, <4>2
    <3> QED
      BY <3>1, <3>2
  <2> QED
    BY <2>8, <2>9
<1>11. Once(ex, ah, to, moves, open)
  <2> SUFFICES ASSUME NEW k \in DOMAIN moves, Cardinality(Moves(moves, moves[k][1])) = 1,
                      NEW j \in 1 .. moves[k][2], ex[j][1] = moves[k][1]
               PROVE  /\ Times(ex, ex[j]) = 1 /\ ex[j] \notin Range(ah)
                      /\ ex[j][2] <= to[ex[j][1]] \/ (ex[j][1] = "rc" /\ ~open)
    BY DEF Once
  <2>1. CASE k = last
    <3>1. moves[k][1] = f /\ moves[k][2] = Len(ex)
      BY <1>4, <1>5, <2>1
    <3>2. Moves(mv, f) = {}
      BY <1>6, <3>1
    <3>3. /\ Times(ex, ex[j]) = 1 /\ ex[j] \notin Range(ah)
          /\ ex[j][2] <= to[f] \/ (f = "rc" /\ ~open)
      BY <1>10, <3>1, <3>2
    <3> QED
      BY <3>1, <3>3
  <2>2. CASE k # last
    <3>1. k \in DOMAIN mv /\ moves[k] = mv[k]
      BY <1>1, <1>5, <2>2 DEF last
    <3>2. moves[k][1] # f
      <4> SUFFICES ASSUME moves[k][1] = f PROVE FALSE
        OBVIOUS
      <4>1. k \in Moves(mv, f)
        BY <3>1 DEF Moves
      <4>2. Cardinality(Moves(mv, f)) = 0
        BY <1>6
      <4> QED
        BY <1>6, <4>1, <4>2
    <3>3. Cardinality(Moves(mv, mv[k][1])) = 1
      BY <1>6, <3>1, <3>2
    <3>4. /\ Times(ex, ex[j]) = 1 /\ ex[j] \notin Range(ah)
          /\ ex[j][2] <= off[ex[j][1]] \/ (ex[j][1] = "rc" /\ ~open)
      BY <1>2, <3>1, <3>3 DEF Once
    <3>5. to[ex[j][1]] = off[ex[j][1]]
      BY <1>1, <1>3, <3>1, <3>2
    <3> QED
      BY <3>4, <3>5
  <2> QED
    BY <2>1, <2>2
<1>12. \A k \in DOMAIN moves : moves[k][2] <= Len(ex)
  <2> TAKE k \in DOMAIN moves
  <2>1. k = last => moves[k][2] = Len(ex)
    BY <1>4, <1>5
  <2>2. k # last => k \in DOMAIN mv /\ moves[k] = mv[k]
    BY <1>1, <1>5 DEF last
  <2> QED
    BY <1>1, <2>1, <2>2
<1>13. LinesAre(ex, ah, to, et, moves, open)
  BY <1>2, <1>5, <1>7, <1>8, <1>9, <1>11, <1>12 DEF LinesAre, S
<1> QED
  BY <1>13 DEF to, moves, move

\* A command reads the next line of a file.
LEMMA EatKeeps ==
    ASSUME NEW ex, NEW ah, NEW off, NEW et, NEW mv, NEW open,
           AheadTyped(ah, off), LinesAre(ex, ah, off, et, mv, open), NEW f \in FileNames
    PROVE  LinesAre(ex, ah, [off EXCEPT ![f] = @ + 1], et \cup {<<f, off[f] + 1>>}, mv, open)
<1> DEFINE to == [off EXCEPT ![f] = @ + 1]
           eat == et \cup {<<f, off[f] + 1>>}
<1>1. /\ \A x \in Range(ex) \cup Range(ah) : x[1] \in FileNames /\ x[2] \in Nat
      /\ \A g \in FileNames : off[g] \in Nat
      /\ Len(ex) \in Nat /\ DOMAIN ex = 1 .. Len(ex)
      /\ \A k \in DOMAIN mv : mv[k][2] \in 0 .. Len(ex)
  BY LinesHere
<1>2. /\ NonePassed(ex, ah, off, et)
      /\ Forward(ex, ah, off, mv) /\ Counted(ex, ah, off, mv) /\ Once(ex, ah, off, mv, open)
  BY DEF LinesAre
<1>3. /\ to[f] = off[f] + 1 /\ \A g \in FileNames \ {f} : to[g] = off[g]
      /\ \A g \in FileNames : to[g] \in Nat /\ off[g] <= to[g]
  BY <1>1 DEF AheadTyped
<1>4. et \subseteq eat /\ <<f, to[f]>> \in eat
  BY <1>3
<1> HIDE DEF to, eat
<1>5. NonePassed(ex, ah, to, eat)
  <2>1. ASSUME NEW g \in FileNames, NEW i \in 1 .. to[g]
        PROVE  <<g, i>> \in (Range(ex) \cup eat) \cup Range(ah)
    <3>1. CASE g = f /\ i = to[f]
      BY <1>4, <3>1
    <3>2. CASE ~(g = f /\ i = to[f])
      <4>1. i \in 1 .. off[g]
        BY <1>1, <1>3, <3>2
      <4> QED
        BY <1>2, <1>4, <4>1 DEF NonePassed
    <3> QED
      BY <3>1, <3>2
  <2> QED
    BY <1>2, <1>4, <2>1 DEF NonePassed
<1>6. ASSUME NEW g \in FileNames, NEW n \in Nat, n <= off[g]
      PROVE  n <= to[g]
  BY <1>1, <1>3, <1>6
<1>7. Forward(ex, ah, to, mv)
  <2> SUFFICES ASSUME NEW g \in FileNames, Moves(mv, g) = {}
               PROVE  /\ \A i, j \in DOMAIN ex : i < j /\ ex[i][1] = g /\ ex[j][1] = g
                                                   => ex[i][2] < ex[j][2]
                      /\ \A x \in Range(ex) : x[1] = g =>
                           /\ x[2] <= to[g]
                           /\ \A y \in Range(ah) : y[1] = g => x[2] < y[2]
                      /\ \A y \in Range(ah) : y[1] = g => y[2] <= to[g]
    BY DEF Forward
  <2> QED
    BY <1>1, <1>2, <1>6 DEF Forward
<1>8. Counted(ex, ah, to, mv)
  <2> SUFFICES ASSUME NEW g \in FileNames, input[g] # NoFile, NEW k \in DOMAIN input[g]
               PROVE  Times(ex, <<g, k>>) + (IF <<g, k>> \in Range(ah) THEN 1 ELSE 0)
                        <= Cardinality(Moves(mv, g)) + (IF k <= to[g] THEN 1 ELSE 0)
    BY DEF Counted
  <2> DEFINE a == Times(ex, <<g, k>>) + (IF <<g, k>> \in Range(ah) THEN 1 ELSE 0)
             b == Cardinality(Moves(mv, g))
  <2>1. a <= b + (IF k <= off[g] THEN 1 ELSE 0)
    BY <1>2 DEF Counted
  <2>2. Times(ex, <<g, k>>) \in Nat /\ b \in Nat
    BY CountsAreNat DEF LinesAre
  <2>3. a \in Nat
    BY <2>2
  <2>4. k <= off[g] => k <= to[g]
    <3>1. k \in Nat
      BY DEF AheadTyped
    <3> QED
      BY <1>6, <3>1
  <2> HIDE DEF a, b
  <2>5. a <= b + (IF k <= to[g] THEN 1 ELSE 0)
    BY <2>1, <2>2, <2>3, <2>4
  <2> QED
    BY <2>5 DEF a, b
<1>9. Once(ex, ah, to, mv, open)
  <2> SUFFICES ASSUME NEW k \in DOMAIN mv, Cardinality(Moves(mv, mv[k][1])) = 1,
                      NEW j \in 1 .. mv[k][2], ex[j][1] = mv[k][1]
               PROVE  /\ Times(ex, ex[j]) = 1 /\ ex[j] \notin Range(ah)
                      /\ ex[j][2] <= to[ex[j][1]] \/ (ex[j][1] = "rc" /\ ~open)
    BY DEF Once
  <2>1. /\ Times(ex, ex[j]) = 1 /\ ex[j] \notin Range(ah)
        /\ ex[j][2] <= off[ex[j][1]] \/ (ex[j][1] = "rc" /\ ~open)
    BY <1>2 DEF Once
  <2>2. ex[j][1] \in FileNames /\ ex[j][2] \in Nat
    <3>1. j \in DOMAIN ex /\ ex[j] \in Range(ex)
      BY <1>1 DEF Range
    <3> QED
      BY <1>1, <3>1
  <2> QED
    BY <1>6, <2>1, <2>2
<1>10. LinesAre(ex, ah, to, eat, mv, open)
  BY <1>5, <1>7, <1>8, <1>9 DEF LinesAre
<1> QED
  BY <1>10 DEF to, eat

\* .ushrc is opened before anything is read, and closed.
LEMMA UshrcOpens ==
    ASSUME NEW off, NEW et, NEW mv, LinesAre(<<>>, <<>>, off, et, mv, FALSE)
    PROVE  LinesAre(<<>>, <<>>, off, et, mv, TRUE)
<1>1. \A m \in DOMAIN mv : 1 .. mv[m][2] = {}
  <2> TAKE m \in DOMAIN mv
  <2> DEFINE S == FileNames \X Nat
  <2>1. mv \in Seq(S) /\ mv[m][2] <= 0
    BY DEF LinesAre
  <2>2. \A x \in S : x[2] \in Nat
    OBVIOUS
  <2> HIDE DEF S
  <2>3. mv[m] \in S
    BY <2>1
  <2> QED
    BY <2>1, <2>2, <2>3
<1> QED
  BY <1>1, EmptyQueue DEF LinesAre, UshrcFirst, Once

LEMMA UshrcCloses ==
    ASSUME NEW ex, NEW ah, NEW off, NEW et, NEW mv, NEW open,
           LinesAre(ex, ah, off, et, mv, open), NEW shut, ~shut
    PROVE  LinesAre(ex, ah, off, et, mv, shut)
BY DEF LinesAre, UshrcFirst, Once

LEMMA AheadHere ==
    ASSUME IInv
    PROVE  AheadTyped(ahead, offset)
<1>1. /\ ahead \in Seq(FileNames \X Nat) /\ offset \in [FileNames -> Nat]
      /\ \A x \in Range(ahead) : input[x[1]] # NoFile /\ x[2] \in DOMAIN input[x[1]]
      /\ input \in [FileNames -> Files \cup {NoFile}]
  BY DEF IInv, DataInv
<1>2. \A x \in Range(ahead) : IsLine(x)
  <2>1. \A x \in Range(ahead) : x \in FileNames \X Nat
    <3> DEFINE S == FileNames \X Nat
    <3> HIDE DEF S
    <3>1. ahead \in Seq(S)
      BY <1>1 DEF S
    <3> QED
      BY <3>1, RangeInSet DEF S
  <2> QED
    BY <1>1, <2>1 DEF IsLine
<1>3. ASSUME NEW f \in FileNames, input[f] # NoFile
      PROVE  DOMAIN input[f] \subseteq Nat
  <2>1. input[f] \in Seq(Seq(Cmd))
    BY <1>1, <1>3, LinesAssumption
  <2> DEFINE q == input[f]
  <2> HIDE DEF q
  <2>2. q \in Seq(Seq(Cmd)) => DOMAIN q = 1 .. Len(q)
    OBVIOUS
  <2> QED
    BY <2>1, <2>2 DEF q
<1> QED
  BY <1>1, <1>2, <1>3 DEF AheadTyped

\* The shell never comes back to where it starts.
LEMMA StartsOnce ==
    ASSUME IInv, Next
    PROVE  /\ pc'["shell"] # "start"
           /\ pc'["shell"] \in {"prompt", "rc"} => OpenUshrc \/ LeaveUshrc \/ EndOfLine
<1> DEFINE Between == {"start", "prompt", "rc"}
<1>0. /\ pc = [p \in Procs |-> pc[p]]
      /\ pc["stage"] # "none" <=> pc["shell"] \in {"forked", "wait"}
      /\ pc["command"] # "none" <=> \E p \in Parents : pc[p] = "waitpid"
  BY DEF IInv, ControlInv
<1>a. ASSUME NEW at, Goto("shell", at), at \notin Between
      PROVE  pc'["shell"] \notin Between
  BY <1>0, <1>a, GotoIs, ProcsAre
<1>b. ASSUME pc["stage"] # "none" \/ pc["command"] # "none"
      PROVE  pc["shell"] \notin Between
  BY <1>0, <1>b, ProcsAre
<1>c. ASSUME NEW p \in {"stage", "command"}, NEW at, Goto(p, at), pc[p] # "none"
      PROVE  pc'["shell"] \notin Between
  BY <1>0, <1>b, <1>c, GotoIs, ProcsAre
<1>1. CASE OpenUshrc \/ LeaveUshrc \/ EndOfLine
  BY <1>0, <1>1, GotoIs, ProcsAre DEF OpenUshrc, LeaveUshrc, EndOfLine
<1>2. CASE ExecuteLine \/ RunInShell \/ CloseOldEnds \/ NextInShell
  BY <1>2, <1>a DEF ExecuteLine, RunInShell, CloseOldEnds, NextInShell
<1>4. CASE (\E l \in Lines : ReadLine(l)) \/ ReadBuffered \/ ReadFile \/ ReadEnd
  <2>1. Goto("shell", "parsed")
    BY <1>4 DEF ReadLine, ReadBuffered, ReadFile, ReadEnd, Take, Parsed
  <2> QED
    BY <1>a, <2>1
<1>5. CASE EndOfInput
  <2>1. Goto("shell", "exited")
    BY <1>5 DEF EndOfInput, Exit, Goto
  <2> QED
    BY <1>a, <2>1
<1>6. CASE ForkStage \/ WaitForStage
  BY <1>0, <1>6, ProcsAre DEF ForkStage, WaitForStage
<1>7. CASE SetUpStage
  BY <1>7, <1>c DEF SetUpStage
<1>8. CASE StageExits
  <2>1. Goto("stage", "exited") /\ pc["stage"] # "none"
    BY <1>8 DEF StageExits, Exit, Goto
  <2> QED
    BY <1>c, <2>1
<1>9. ASSUME NEW p \in Parents, NEW at \in {"execute", "restore", "return", "exited"},
             Goto(p, at), pc[p] # "none"
      PROVE  pc'["shell"] \notin Between
  BY <1>9, <1>a, <1>c, ProcsAre
<1>10. ASSUME NEW p \in Parents, ParseCmd(p) PROVE pc'["shell"] \notin Between
  <2>1. CASE RedirectCommand(p) \/ OutputOpenFails(p) \/ PrintOne(p) \/ RestoreAndFlush(p)
    BY <1>9, <2>1 DEF RedirectCommand, OutputOpenFails, PrintOne, RestoreAndFlush
  <2>2. CASE Logout(p)
    <3>1. Goto(p, "exited") /\ pc[p] # "none"
      BY <2>2 DEF Logout, Exit, Goto
    <3> QED
      BY <1>9, <3>1
  <2>3. CASE ForkCommand(p) \/ WaitForCommand(p)
    <3>1. p = "stage" => pc["shell"] \notin Between
      BY <1>0, <2>3 DEF ForkCommand, WaitForCommand
    <3> QED
      BY <1>0, <2>3, <3>1, ProcsAre DEF ForkCommand, WaitForCommand
  <2> QED
    BY <1>10, <2>1, <2>2, <2>3 DEF ParseCmd
<1>11. CASE CommandStep
  <2>1. CASE WriteUnit \/ CopyUnit \/ CopyFile
    <3>1. pc' = pc /\ pc["command"] # "none"
      BY <2>1 DEF WriteUnit, CopyUnit, CopyFile, Running
    <3> QED
      BY <1>b, <3>1
  <2>2. CASE Execv
    BY <1>c, <2>2 DEF Execv
  <2>3. CASE ExecvFails \/ CommandExits
    <3>1. Goto("command", "exited") /\ pc["command"] # "none"
      BY <2>3 DEF ExecvFails, CommandExits, Exit, Goto
    <3> QED
      BY <1>c, <3>1
  <2> QED
    BY <1>11, <2>1, <2>2, <2>3 DEF CommandStep
<1> QED
  BY <1>1, <1>2, <1>4, <1>5, <1>6, <1>7, <1>8, <1>10, <1>11, ProcsAre
     DEF Next, ShellStep, StageStep

LEMMA LinesMoved ==
    ASSUME UNCHANGED input,
           LinesAre(executed', ahead', offset', eaten', rewound', rc' # NoRc)
    PROVE  LinesAre(executed, ahead, offset, eaten, rewound, rc # NoRc)'
BY DEF LinesAre, IsLine, Counted, NonePassed, UshrcFirst, Forward, Once

LEMMA LinesMove ==
    ASSUME IInv, Next, UNCHANGED input,
           LinesAre(executed', ahead', offset', eaten', rewound', rc' # NoRc)
    PROVE  LinesInv'
BY LinesMoved, StartsOnce DEF LinesInv

LEMMA LinesStill ==
    ASSUME IInv, LinesInv, Next, UNCHANGED <<input, offset, ahead, rc, ghosts>>
    PROVE  LinesInv'
BY LinesMove DEF LinesInv, ghosts

\* exit(0) of one of the processes.
LEMMA LinesGivenBack ==
    ASSUME IInv, LinesInv, Next, NEW p \in Procs, SeekBack(p)
    PROVE  LinesInv'
<1> DEFINE d == fds[p][0]
<1>1. UNCHANGED <<input, ahead, rc, executed, eaten>>
  BY DEF SeekBack
<1>2. CASE GivesBack(d)
  <2>1. d[1] \in FileNames /\ ahead # <<>> /\ Len(ahead) <= offset[d[1]]
    <3>1. AheadTyped(ahead, offset)
      BY AheadHere
    <3>2. d[1] \in FileNames /\ ahead # <<>> /\ offset[d[1]] >= Len(ahead)
      BY <1>2 DEF GivesBack, IsFile, FileNames
    <3> QED
      BY <3>1, <3>2, LinesHere DEF LinesInv
  <2>2. /\ offset' = [offset EXCEPT ![d[1]] = @ - Len(ahead)]
        /\ rewound' = Append(rewound, <<d[1], Len(executed)>>)
    BY <1>2 DEF SeekBack
  <2> HIDE DEF d
  <2>3. LinesAre(executed, ahead, offset', eaten, rewound', rc # NoRc)
    BY <2>1, <2>2, AheadHere, BackKeeps DEF LinesInv
  <2> QED
    BY <1>1, <2>3, LinesMove
<1>3. CASE ~GivesBack(d)
  <2>1. UNCHANGED <<offset, rewound>>
    BY <1>3 DEF SeekBack
  <2> QED
    BY <1>1, <2>1, LinesStill DEF ghosts
<1> QED
  BY <1>2, <1>3

\* parse() takes a line of a file.
LEMMA LinesTaken ==
    ASSUME IInv, LinesInv, Next, ReadBuffered \/ ReadFile
    PROVE  LinesInv'
<1>1. AheadTyped(ahead, offset) /\ LinesAre(executed, ahead, offset, eaten, rewound, rc # NoRc)
  BY AheadHere DEF LinesInv
<1>2. CASE ReadBuffered
  <2>1. /\ ahead # <<>> /\ ahead' = Tail(ahead) /\ executed' = Append(executed, ahead[1])
        /\ UNCHANGED <<input, offset, eaten, rewound, rc>>
    BY <1>2 DEF ReadBuffered, Take, Parsed
  <2>2. LinesAre(Append(executed, ahead[1]), Tail(ahead), offset, eaten, rewound, rc # NoRc)
    BY <1>1, <2>1, TakeKeeps
  <2> QED
    BY <2>1, <2>2, LinesMove
<1>3. CASE ReadFile
  <2> DEFINE f == fds["shell"][0][1]
             n == Min({ReadAhead, Len(input[f]) - offset[f]})
             q == Filled(f)
             to == [offset EXCEPT ![f] = @ + n]
  <2>1. /\ pc["shell"] \in {"prompt", "rc"} /\ IsFile(fds["shell"][0]) /\ ahead = <<>>
        /\ offset[f] < Len(input[f])
        /\ ahead' = Tail(q) /\ executed' = Append(executed, q[1])
        /\ offset' = [offset EXCEPT ![f] = @ + Len(q)]
        /\ UNCHANGED <<input, eaten, rewound, rc>>
    BY <1>3 DEF ReadFile, Take, Parsed
  <2>2. IsBase(fds["shell"], world) /\ fds["shell"][0] \in Entries(world)
    <3>1. IsBase(fds["shell"], world)
      BY <2>1 DEF IInv, TablesInv, ShellIs
    <3> QED
      BY <3>1, TableEntries DEF IsBase
  <2>3. f \in FileNames /\ input[f] # NoFile
    BY <2>1, <2>2, FileIs
  <2>4. rc # NoRc <=> f = "rc"
    <3>1. Inherited(fds["shell"][0], world)
      BY <2>2 DEF IsBase
    <3>2. f # "infile"
      BY <2>1 DEF IsFile
    <3> QED
      BY <3>1, <3>2 DEF Inherited, world
  <2> HIDE DEF f
  <2>5. /\ input[f] \in Seq(Seq(Cmd)) /\ offset \in [FileNames -> Nat]
    <3>1. input[f] \in Files /\ offset \in [FileNames -> Nat]
      BY <2>3 DEF IInv, DataInv
    <3> QED
      BY <3>1, LinesAssumption
  <2>6. Len(input[f]) \in Nat /\ DOMAIN input[f] = 1 .. Len(input[f]) /\ offset[f] \in Nat
    <3> DEFINE s == input[f]
    <3> HIDE DEF s
    <3>1. s \in Seq(Seq(Cmd)) => Len(s) \in Nat /\ DOMAIN s = 1 .. Len(s)
      OBVIOUS
    <3> QED
      BY <2>3, <2>5, <3>1 DEF s
  <2>7. n \in Nat \ {0} /\ n <= Len(input[f]) - offset[f]
    <3> DEFINE b == Len(input[f]) - offset[f]
    <3>1. b \in Int /\ ReadAhead \in Int
      BY <2>6, BoundsAssumption
    <3> HIDE DEF b
    <3>2. Min({ReadAhead, b}) \in {ReadAhead, b} /\ Min({ReadAhead, b}) <= b
      BY <3>1, LeastOfTwo
    <3>3. n \in {ReadAhead, Len(input[f]) - offset[f]} /\ n <= Len(input[f]) - offset[f]
      BY <3>2 DEF b
    <3> QED
      BY <2>1, <2>6, <3>3, BoundsAssumption
  <2>8. q = [i \in 1 .. n |-> <<f, offset[f] + i>>]
    BY DEF Filled
  <2> HIDE DEF n, q
  <2>9. Len(q) = n /\ q # <<>>
    <3>1. DOMAIN q = 1 .. n
      BY <2>8
    <3>2. \A i \in 1 .. n : q[i] \in FileNames \X Nat
      BY <2>3, <2>6, <2>7, <2>8
    <3>3. q \in Seq(FileNames \X Nat)
      BY <2>7, <2>8, <3>2
    <3> QED
      BY <2>7, <3>1, <3>3
  <2>10. 1 .. offset[f] + n \subseteq DOMAIN input[f]
    BY <2>6, <2>7
  <2>11. AheadTyped(<<>>, offset) /\ LinesAre(executed, <<>>, offset, eaten, rewound, rc # NoRc)
    BY <1>1, <2>1
  <2>12. AheadTyped(q, to) /\ LinesAre(executed, q, to, eaten, rewound, rc # NoRc)
    <3> DEFINE open == rc # NoRc
    <3>1. n \in Nat /\ (open <=> f = "rc")
      BY <2>4, <2>7
    <3>2. AheadTyped(<<>>, offset) /\ LinesAre(executed, <<>>, offset, eaten, rewound, open)
      BY <2>11
    <3> HIDE DEF open
    <3>3. /\ AheadTyped(NextLines(f, offset, n), OffsetAfter(f, offset, n))
          /\ LinesAre(executed, NextLines(f, offset, n), OffsetAfter(f, offset, n),
                      eaten, rewound, open)
      BY <2>3, <2>10, <3>1, <3>2, FillKeeps
    <3> QED
      BY <2>8, <3>3 DEF open, NextLines, OffsetAfter
  <2>13. LinesAre(Append(executed, q[1]), Tail(q), to, eaten, rewound, rc # NoRc)
    BY <2>9, <2>12, TakeKeeps
  <2>14. offset' = to
    BY <2>1, <2>9
  <2> HIDE DEF to
  <2> QED
    BY <2>1, <2>13, <2>14, LinesMove
<1> QED
  BY <1>2, <1>3

\* Every step keeps the account of the lines of files.
LEMMA LinesKept ==
    ASSUME IInv, LinesInv, Next
    PROVE  LinesInv'
<1>1. CASE OpenUshrc
  <2>1. pc["shell"] = "start" /\ UNCHANGED <<input, offset, ahead, ghosts>>
    BY <1>1 DEF OpenUshrc
  <2>2. CASE rc' = NoRc
    <3>1. rc = NoRc
      BY <2>1 DEF IInv, ControlInv
    <3> QED
      BY <2>1, <2>2, <3>1, LinesStill
  <2>3. CASE rc' # NoRc
    <3>1. executed = <<>> /\ ahead = <<>> /\ rc = NoRc
      BY <2>1 DEF LinesInv, IInv, ControlInv
    <3>2. LinesAre(<<>>, <<>>, offset, eaten, rewound, FALSE)
      <4> DEFINE open == rc # NoRc
      <4>1. LinesAre(executed, ahead, offset, eaten, rewound, open) /\ open = FALSE
        BY <3>1 DEF LinesInv
      <4> HIDE DEF open
      <4> QED
        BY <3>1, <4>1
    <3>3. LinesAre(<<>>, <<>>, offset, eaten, rewound, TRUE)
      BY <3>2, UshrcOpens
    <3> DEFINE open == rc' # NoRc
    <3>4. open = TRUE
      BY <2>3
    <3> HIDE DEF open
    <3>5. LinesAre(executed', ahead', offset', eaten', rewound', open)
      BY <2>1, <3>1, <3>3, <3>4 DEF ghosts
    <3> QED
      BY <2>1, <3>5, LinesMove DEF open
  <2> QED
    BY <2>2, <2>3
<1>2. CASE LeaveUshrc
  <2>1. UNCHANGED <<input, offset, ahead, ghosts>> /\ rc' = NoRc
    BY <1>2 DEF LeaveUshrc
  <2>2. /\ executed' = executed /\ ahead' = ahead /\ offset' = offset
        /\ eaten' = eaten /\ rewound' = rewound
    BY <2>1 DEF ghosts
  <2>3. LinesAre(executed, ahead, offset, eaten, rewound, rc' # NoRc)
    BY <2>1, UshrcCloses DEF LinesInv
  <2>4. LinesAre(executed', ahead', offset', eaten', rewound', rc' # NoRc)
    BY <2>2, <2>3
  <2> QED
    BY <2>1, <2>4, LinesMove
<1>3. CASE (\E l \in Lines : ReadLine(l)) \/ ReadEnd
  <2>1. UNCHANGED <<input, offset, ahead, rc, ghosts>>
    BY <1>3 DEF ReadLine, ReadEnd, Parsed, ghosts
  <2> QED
    BY <2>1, LinesStill
<1>4. CASE ReadBuffered \/ ReadFile
  BY <1>4, LinesTaken
<1>5. ASSUME UNCHANGED source PROVE LinesInv'
  BY <1>5, LinesStill DEF source
<1>6. ASSUME NEW p \in Parents, ParseCmd(p) PROVE LinesInv'
  <2>1. CASE Logout(p)
    <3>1. SeekBack(p)
      BY <2>1 DEF Logout
    <3> QED
      BY <3>1, LinesGivenBack, ProcsAre
  <2>2. CASE ~Logout(p)
    <3>1. UNCHANGED source
      BY <1>6, <2>2
         DEF ParseCmd, RedirectCommand, OutputOpenFails, PrintOne, ForkCommand,
             WaitForCommand, RestoreAndFlush
    <3> QED
      BY <1>5, <3>1
  <2> QED
    BY <2>1, <2>2
<1>7. CASE StageExits \/ ExecvFails
  <2>1. SeekBack("stage") \/ SeekBack("command")
    BY <1>7 DEF StageExits, ExecvFails
  <2> QED
    BY <2>1, LinesGivenBack, ProcsAre
<1>8. CASE CopyFile
  <2> DEFINE d == fds["command"][0]
  <2>1. /\ UNCHANGED <<input, ahead, rc, executed, rewound>>
        /\ IF IsFile(d) THEN /\ offset' = [offset EXCEPT ![d[1]] = @ + 1]
                             /\ eaten' = eaten \cup {<<d[1], offset[d[1]] + 1>>}
           ELSE UNCHANGED <<offset, eaten>>
    BY <1>8 DEF CopyFile
  <2>2. IsFile(d) => d[1] \in FileNames
    BY DEF IsFile, FileNames
  <2> HIDE DEF d
  <2>3. CASE IsFile(d)
    <3>1. LinesAre(executed, ahead, offset', eaten', rewound, rc # NoRc)
      BY <2>1, <2>2, <2>3, AheadHere, EatKeeps DEF LinesInv
    <3> QED
      BY <2>1, <3>1, LinesMove
  <2>4. CASE ~IsFile(d)
    BY <2>1, <2>4, LinesStill DEF ghosts
  <2> QED
    BY <2>3, <2>4
<1>9. CASE \/ ExecuteLine \/ EndOfLine \/ EndOfInput \/ RunInShell \/ ForkStage
           \/ CloseOldEnds \/ WaitForStage \/ NextInShell \/ SetUpStage
  <2>1. UNCHANGED source
    BY <1>9 DEF ExecuteLine, EndOfLine, EndOfInput, RunInShell, ForkStage, CloseOldEnds,
                WaitForStage, NextInShell, SetUpStage
  <2> QED
    BY <1>5, <2>1
<1>10. CASE Execv \/ WriteUnit \/ CopyUnit \/ CommandExits
  <2>1. UNCHANGED source
    BY <1>10 DEF Execv, WriteUnit, CopyUnit, CommandExits
  <2> QED
    BY <1>5, <2>1
<1> QED
  BY <1>1, <1>2, <1>3, <1>4, <1>6, <1>7, <1>8, <1>9, <1>10
     DEF Next, ShellStep, StageStep, CommandStep, Parents

LEMMA LinesInit ==
    ASSUME Init
    PROVE  LinesInv
<1>1. /\ offset = [f \in FileNames |-> 0] /\ ahead = <<>> /\ rc = NoRc
      /\ executed = <<>> /\ eaten = {} /\ rewound = <<>>
  BY DEF Init, FileNames
<1>2. /\ \A x : Times(<<>>, x) = 0
      /\ \A f : Moves(<<>>, f) = {} /\ Cardinality(Moves(<<>>, f)) = 0
  <2>1. \A x : {i \in DOMAIN <<>> : <<>>[i] = x} = {}
    OBVIOUS
  <2>2. \A f : Moves(<<>>, f) = {}
    BY DEF Moves
  <2> QED
    BY <2>1, <2>2, FS_EmptySet DEF Times
<1>3. \A f \in FileNames : offset[f] = 0 /\ 1 .. offset[f] = {}
  BY <1>1
<1>4. Range(<<>>) = {}
  BY EmptyQueue
<1> DEFINE open == rc # NoRc
<1>5. NonePassed(<<>>, <<>>, offset, {})
  BY <1>3, <1>4 DEF NonePassed
<1>6. UshrcFirst(<<>>, <<>>, open)
  BY <1>1, <1>4 DEF UshrcFirst
<1>7. Forward(<<>>, <<>>, offset, <<>>)
  BY <1>4 DEF Forward
<1>8. Counted(<<>>, <<>>, offset, <<>>)
  BY <1>2, <1>4 DEF Counted
<1>9. Once(<<>>, <<>>, offset, <<>>, open)
  BY DEF Once
<1>10. <<>> \in Seq(FileNames \X Nat) /\ DOMAIN <<>> = {}
  OBVIOUS
<1>11. LinesAre(<<>>, <<>>, offset, {}, <<>>, open)
  BY <1>4, <1>5, <1>6, <1>7, <1>8, <1>9, <1>10 DEF LinesAre, Consecutive
<1> HIDE DEF open
<1>12. LinesAre(executed, ahead, offset, eaten, rewound, open)
  BY <1>1, <1>11
<1> QED
  BY <1>1, <1>12 DEF LinesInv, open

THEOREM LinesInvariance == Spec => []LinesInv
<1>1. Init => LinesInv
  BY LinesInit
<1>2. IInv /\ LinesInv /\ [Next]_vars => LinesInv'
  <2> SUFFICES ASSUME IInv, LinesInv, [Next]_vars
               PROVE  LinesInv'
    OBVIOUS
  <2>1. CASE Next
    BY <2>1, LinesKept
  <2>2. CASE UNCHANGED vars
    <3>1. UNCHANGED <<input, offset, ahead, rc, executed, eaten, rewound, pc>>
      BY <2>2 DEF vars, source, ghosts
    <3>2. LinesAre(executed, ahead, offset, eaten, rewound, rc # NoRc)
      BY DEF LinesInv
    <3>3. LinesAre(executed', ahead', offset', eaten', rewound', rc' # NoRc)
      BY <3>1, <3>2
    <3>4. LinesAre(executed, ahead, offset, eaten, rewound, rc # NoRc)'
      BY <3>1, <3>3, LinesMoved
    <3> QED
      BY <3>1, <3>4 DEF LinesInv
  <2> QED
    BY <2>1, <2>2
<1> QED
  BY <1>1, <1>2, Invariance, PTL DEF Spec

\* The lines of .ushrc and of a script are executed in order, none is passed over,
\* and each comes again at most once for each time exit(0) in a child gave back
\* what stdio had read of its file; after the only such time nothing executed
\* before it does.  (stdio's buffer, which parse() reads and every child copies,
\* and the offset they all share: check_ushrc, main and exit.)
THEOREM LinesRight == Spec => []LinesInOrder
<1>1. LinesInv => LinesInOrder
  <2> SUFFICES ASSUME LinesInv
               PROVE  LinesInOrder
    OBVIOUS
  <2>1. /\ executed \in Seq(FileNames \X Nat) /\ \A x \in Range(executed) : IsLine(x)
        /\ rewound \in Seq(FileNames \X Nat)
        /\ NonePassed(executed, ahead, offset, eaten)
        /\ UshrcFirst(executed, ahead, rc # NoRc)
        /\ Forward(executed, ahead, offset, rewound)
        /\ Counted(executed, ahead, offset, rewound)
        /\ Once(executed, ahead, offset, rewound, rc # NoRc)
    BY DEF LinesInv, LinesAre
  <2>2. \A x \in Range(executed) : x[1] \in FileNames /\ x = <<x[1], x[2]>>
    <3> DEFINE S == FileNames \X Nat
    <3>1. \A x \in S : x[1] \in FileNames /\ x = <<x[1], x[2]>>
      OBVIOUS
    <3>2. executed \in Seq(S)
      BY <2>1
    <3> HIDE DEF S
    <3> QED
      BY <3>1, <3>2, RangeInSet
  <2>3. \A i \in DOMAIN executed : executed[i] \in Range(executed)
    BY DEF Range
  <2>4. ASSUME NEW x \in Range(executed), NEW i \in 1 .. x[2]
        PROVE  <<x[1], i>> \in Range(executed) \cup eaten
    BY <2>1 DEF NonePassed
  <2>5. \A i, j \in DOMAIN executed : i < j =>
           /\ executed[j][1] = "rc" => executed[i][1] = "rc"
           /\ executed[i][1] = executed[j][1] /\ Moves(rewound, executed[i][1]) = {}
                  => executed[i][2] < executed[j][2]
    <3> TAKE i, j \in DOMAIN executed
    <3>1. i < j /\ executed[j][1] = "rc" => executed[i][1] = "rc"
      BY <2>1 DEF UshrcFirst
    <3>2. executed[i][1] \in FileNames
      BY <2>2, <2>3
    <3> QED
      BY <2>1, <3>1, <3>2 DEF Forward
  <2>6. ASSUME NEW x \in Range(executed)
        PROVE  Times(executed, x) <= Cardinality(Moves(rewound, x[1])) + 1
    <3>1. IsLine(x) /\ x = <<x[1], x[2]>>
      BY <2>1, <2>2
    <3> DEFINE t == Times(executed, x)
               read == IF x \in Range(ahead) THEN 1 ELSE 0
               m == Cardinality(Moves(rewound, x[1]))
               behind == IF x[2] <= offset[x[1]] THEN 1 ELSE 0
    <3>2. t + read <= m + behind
      BY <2>1, <3>1 DEF Counted, IsLine
    <3>3. t \in Nat /\ m \in Nat
      BY <2>1, CountsAreNat
    <3>4. read \in {0, 1} /\ behind \in {0, 1}
      OBVIOUS
    <3> HIDE DEF t, read, m, behind
    <3>5. t <= m + 1
      BY <3>2, <3>3, <3>4
    <3> QED
      BY <3>5 DEF t, m
  <2>7. \A m \in DOMAIN rewound : Cardinality(Moves(rewound, rewound[m][1])) = 1 =>
          \A j \in 1 .. rewound[m][2] :
             executed[j][1] = rewound[m][1] => Times(executed, executed[j]) = 1
    BY <2>1 DEF Once
  <2> QED
    BY <2>4, <2>5, <2>6, <2>7 DEF LinesInOrder
<1> QED
  BY <1>1, LinesInvariance, PTL

-----------------------------------------------------------------------------
(***************************************************************************)
(* The units of a line: every one arrives, once.                           *)
(***************************************************************************)
PromisedBy(f, l, k) == IF ReadsPipe(l[k]) THEN f[k - 1] ELSE OfItself(l[k])

LEMMA GreatestNumber ==
    ASSUME NEW S \in SUBSET Nat, S # {}, NEW k \in Nat, \A j \in S : j <= k
    PROVE  \E m \in S : \A j \in S : m >= j
<1> DEFINE C == {k - j : j \in S}
<1>1. C \in SUBSET Nat /\ C # {}
  <2>1. \A j \in S : j \in Nat /\ j <= k /\ k - j \in Nat
    OBVIOUS
  <2> QED
    BY <2>1
<1> HIDE DEF C
<1>2. PICK n \in C : \A i \in C : n <= i
  BY <1>1, LeastNumber
<1>3. PICK m \in S : n = k - m
  BY DEF C
<1>4. \A j \in S : k - m <= k - j
  BY <1>2, <1>3 DEF C
<1> QED
  BY <1>4

LEMMA PromisedIs ==
    ASSUME NEW l, WellFormed(l)
    PROVE  \A k \in DOMAIN l :
             /\ Promised(l)[k] = PromisedBy(Promised(l), l, k)
             /\ Promised(l)[k] \in Nat
             /\ ReadsPipe(l[k]) => k - 1 \in DOMAIN l
<1>1. /\ Len(l) \in Nat /\ DOMAIN l = 1 .. Len(l)
      /\ \A k \in DOMAIN l : OfItself(l[k]) \in Nat
      /\ \A k \in DOMAIN l : ReadsPipe(l[k]) => k > 1 /\ k - 1 \in DOMAIN l
  <2>1. l \in Seq(Cmd) /\ \A k \in DOMAIN l : Piped(l[k].in) => k > 1
    BY DEF WellFormed
  <2>2. DOMAIN l = 1 .. Len(l) /\ Len(l) \in Nat /\ \A k \in DOMAIN l : l[k] \in Cmd
    BY <2>1
  <2>3. \A k \in DOMAIN l : OfItself(l[k]) \in Nat
    BY <2>2 DEF Cmd, OfItself
  <2> QED
    BY <2>1, <2>2, <2>3 DEF ReadsPipe
<1> DEFINE S(k) == {j \in 1 .. k : ~ReadsPipe(l[j])}
<1>2. \A k \in DOMAIN l : Promised(l)[k] = OfItself(l[Max(S(k))])
  BY DEF Promised
<1>3. \A k \in DOMAIN l : Max(S(k)) \in S(k)
  <2> TAKE k \in DOMAIN l
  <2>1. S(k) \subseteq Nat /\ k \in Nat /\ 1 \in DOMAIN l /\ 1 \in S(k)
    BY <1>1
  <2>2. \A j \in S(k) : j <= k
    BY <2>1
  <2> HIDE DEF S
  <2>3. PICK m \in S(k) : \A j \in S(k) : m >= j
    BY <2>1, <2>2, GreatestNumber
  <2> QED
    BY <2>3 DEF Max
<1>4. ASSUME NEW k \in DOMAIN l, ReadsPipe(l[k])
      PROVE  S(k) = S(k - 1)
  BY <1>1, <1>4
<1>5. ASSUME NEW k \in DOMAIN l, ~ReadsPipe(l[k])
      PROVE  Max(S(k)) = k
  <2>1. k \in S(k) /\ \A j \in S(k) : j \in Nat /\ j <= k
    BY <1>1, <1>5
  <2> HIDE DEF S
  <2>2. k \in Nat /\ \A m \in S(k) : (\A j \in S(k) : m >= j) <=> m = k
    BY <2>1
  <2> QED
    BY <2>1, <2>2 DEF Max
<1>6. \A k \in DOMAIN l : S(k) \subseteq DOMAIN l
  BY <1>1
<1> HIDE DEF S
<1>7. \A k \in DOMAIN l : Promised(l)[k] \in Nat
  BY <1>1, <1>2, <1>3, <1>6
<1>8. \A k \in DOMAIN l : Promised(l)[k] = PromisedBy(Promised(l), l, k)
  <2> TAKE k \in DOMAIN l
  <2>1. CASE ReadsPipe(l[k])
    BY <1>1, <1>2, <1>4, <2>1 DEF PromisedBy
  <2>2. CASE ~ReadsPipe(l[k])
    BY <1>2, <1>5, <2>2 DEF PromisedBy
  <2> QED
    BY <2>1, <2>2
<1> QED
  BY <1>1, <1>7, <1>8

\* How many of the units that landed are x.
Landed(q, x) == Cardinality({i \in DOMAIN q : q[i].writer = x})

LEMMA LandedGrows ==
    ASSUME NEW q \in Seq(Landing), NEW y \in Landing, NEW x
    PROVE  /\ Landed(q, x) \in Nat
           /\ Landed(Append(q, y), x) = Landed(q, x) + (IF y.writer = x THEN 1 ELSE 0)
<1> DEFINE D == {i \in DOMAIN q : q[i].writer = x}
           n == Len(q)
<1>1. n \in Nat /\ DOMAIN q = 1 .. n /\ DOMAIN Append(q, y) = 1 .. n + 1
      /\ (\A i \in 1 .. n : Append(q, y)[i] = q[i]) /\ Append(q, y)[n + 1] = y
  <2> HIDE DEF Landing
  <2> QED
    OBVIOUS
<1>2. D \subseteq 1 .. n /\ n + 1 \notin D
  BY <1>1
<1>3. {i \in DOMAIN Append(q, y) : Append(q, y)[i].writer = x}
        = IF y.writer = x THEN D \cup {n + 1} ELSE D
  BY <1>1
<1>4. IsFiniteSet(1 .. n)
  BY <1>1, FS_Interval
<1> HIDE DEF D, n
<1>5. IsFiniteSet(D) /\ Cardinality(D) \in Nat
  BY <1>2, <1>4, FS_Subset, FS_CardinalityType
<1>6. Cardinality(D \cup {n + 1}) = Cardinality(D) + 1
  BY <1>2, <1>5, FS_AddElement
<1> DEFINE E == {i \in DOMAIN Append(q, y) : Append(q, y)[i].writer = x}
<1>7. E = IF y.writer = x THEN D \cup {n + 1} ELSE D
  BY <1>3
<1> HIDE DEF E
<1>8. Cardinality(E) = Cardinality(D) + (IF y.writer = x THEN 1 ELSE 0)
  BY <1>5, <1>6, <1>7
<1>9. Landed(q, x) = Cardinality(D) /\ Landed(Append(q, y), x) = Cardinality(E)
  BY DEF Landed, D, E
<1> QED
  BY <1>5, <1>8, <1>9

LEMMA LandedNone ==
    ASSUME NEW x
    PROVE  Landed(<<>>, x) = 0
<1>1. {i \in DOMAIN <<>> : <<>>[i].writer = x} = {}
  OBVIOUS
<1> QED
  BY <1>1, FS_EmptySet DEF Landed

LEMMA ArrivedIs ==
    ASSUME NEW k
    PROVE  Arrived(k) = Landed(landed, <<typed, k>>)
BY DEF Arrived, Landed


\* What each command put out, and what is in the pipes.
CountsOf(q, n) == [k \in Commands |-> Landed(q, <<n, k>>)]
LensOf(pp) == [k \in Commands |-> Len(pp[k])]

\* How far the command at hand is, from what the processes are doing.
PhasesAre(q) ==
    /\ q["shell"] \in {"start", "prompt", "rc", "parsed", "next", "parseCmd", "execute", "exited"}
           => Phase(q) = "before"
    /\ q["stage"] \in {"setup", "parseCmd", "execute"} => Phase(q) = "before"
    /\ \A p \in Parents : q[p] \in {"restore", "return"} => Phase(q) = "over"
    /\ q["stage"] = "exited" => Phase(q) = "over"
    /\ q["command"] = "execv" => Phase(q) = "before"
    /\ q["command"] = "running" => Phase(q) = "running"
    /\ q["command"] = "exited" => Phase(q) = "over"

LEMMA PhaseIs ==
    ASSUME NEW q,
           q["stage"] # "none" <=> q["shell"] \in {"forked", "wait"},
           q["command"] # "none" <=> \E p \in Parents : q[p] = "waitpid"
    PROVE  PhasesAre(q)
<1>1. \A p : p \in Parents <=> p = "shell" \/ p = "stage"
  BY ProcsAre
<1> QED
  BY <1>1 DEF Phase, PhasesAre

LEMMA PhaseNow ==
    ASSUME IInv
    PROVE  PhasesAre(pc)
BY PhaseIs DEF IInv, ControlInv

LEMMA PhaseNext ==
    ASSUME IInv, Next
    PROVE  PhasesAre(pc')
<1>1. /\ pc'["stage"] # "none" <=> pc'["shell"] \in {"forked", "wait"}
      /\ pc'["command"] # "none" <=> \E p \in Parents : pc'[p] = "waitpid"
  BY ControlKept DEF ControlInv
<1> DEFINE q == pc'
<1>2. /\ q["stage"] # "none" <=> q["shell"] \in {"forked", "wait"}
      /\ q["command"] # "none" <=> \E p \in Parents : q[p] = "waitpid"
  BY <1>1
<1> HIDE DEF q
<1>3. PhasesAre(q)
  BY <1>2, PhaseIs
<1> QED
  BY <1>3 DEF q

LEMMA LineIs ==
    ASSUME NEW l, WellFormed(l)
    PROVE  /\ Len(l) \in Nat /\ DOMAIN l = 1 .. Len(l) /\ DOMAIN l \subseteq Commands
           /\ \A k \in DOMAIN l :
                /\ Piped(l[k].out) => k + 1 \in DOMAIN l /\ k + 1 \in Commands
                /\ Piped(l[k].in) => k - 1 \in DOMAIN l /\ k - 1 \in Commands /\ Piped(l[k - 1].out)
                /\ l[k].prog = "filter" => l[k].units = 1
<1>1. l \in Seq(Cmd) /\ Len(l) <= MaxCommands
  BY DEF WellFormed
<1>2. Len(l) \in Nat /\ DOMAIN l = 1 .. Len(l) /\ DOMAIN l \subseteq Commands
  BY <1>1, BoundsAssumption DEF Commands
<1>3. ASSUME NEW k \in DOMAIN l
      PROVE  /\ Piped(l[k].in) => k > 1 /\ l[k - 1].out = l[k].in
             /\ Piped(l[k].out) => k < Len(l)
             /\ l[k].prog = "filter" => l[k].units = 1
  BY <1>3 DEF WellFormed
<1>4. ASSUME NEW k \in DOMAIN l
      PROVE  /\ k < Len(l) => k + 1 \in DOMAIN l
             /\ k > 1 => k - 1 \in DOMAIN l
  BY <1>2
<1> QED
  BY <1>2, <1>3, <1>4

LEMMA AccountsTurn ==
    ASSUME NEW l, NEW a, NEW z, NEW k0, NEW at, NEW lf, Accounts(l, a, z, k0, at, lf),
           NEW to, NEW n,
           k0 \in DOMAIN l =>
             /\ to = "over" => a[k0] = Promised(l)[k0]
             /\ to = "running" => ReadsPipe(l[k0]) \/ a[k0] + n = Promised(l)[k0]
             /\ to = "before" => a[k0] = 0
    PROVE  Accounts(l, a, z, k0, to, n)
BY DEF Accounts

LEMMA AccountsNext ==
    ASSUME NEW l, WellFormed(l), NEW a, NEW z, NEW k0 \in Int, NEW lf,
           Accounts(l, a, z, k0, "over", lf), NEW n
    PROVE  Accounts(l, a, z, k0 + 1, "before", n)
<1>1. DOMAIN l \subseteq Int
  BY LineIs
<1>2. ASSUME NEW k \in DOMAIN l
      PROVE  /\ k < k0 + 1 <=> k < k0 \/ k = k0
             /\ k > k0 + 1 \/ k = k0 + 1 => k > k0
  BY <1>1
<1> QED
  BY <1>2 DEF Accounts

\* The k0-th command puts out a unit, of its own or from the pipe before it.
UnitMore(l, a, z, b, y, k0) ==
    /\ a \in [Commands -> Nat] /\ z \in [Commands -> Nat]
    /\ b \in [Commands -> Nat] /\ y \in [Commands -> Nat]
    /\ \A k \in Commands :
         /\ b[k] = a[k] + (IF k = k0 THEN 1 ELSE 0)
         /\ k # k0 - 1 => y[k] = z[k] + (IF k = k0 /\ Piped(l[k0].out) THEN 1 ELSE 0)
         /\ k = k0 - 1 => y[k] = z[k] - (IF ReadsPipe(l[k0]) THEN 1 ELSE 0)

LEMMA AccountsGrow ==
    ASSUME NEW l, WellFormed(l), NEW a, NEW z, NEW b, NEW y, NEW k0 \in DOMAIN l,
           UnitMore(l, a, z, b, y, k0),
           NEW at, NEW lf, Accounts(l, a, z, k0, at, lf), NEW to \in {"running", "over"}, NEW n,
           to = "over" => b[k0] = Promised(l)[k0],
           to = "running" => ReadsPipe(l[k0]) \/ b[k0] + n = Promised(l)[k0]
    PROVE  Accounts(l, b, y, k0, to, n)
<1> USE DEF UnitMore
<1>1. DOMAIN l \subseteq Commands /\ Commands \subseteq Int
  BY LineIs DEF Commands
<1> SUFFICES ASSUME NEW k \in DOMAIN l
             PROVE  /\ k < k0 \/ (k = k0 /\ to = "over") => b[k] = Promised(l)[k]
                    /\ k = k0 /\ to = "running" => ReadsPipe(l[k]) \/ b[k] + n = Promised(l)[k]
                    /\ k > k0 \/ (k = k0 /\ to = "before") => b[k] = 0
                    /\ Piped(l[k].out) =>
                         b[k] = y[k] + (IF ReadsPipe(l[k + 1]) THEN b[k + 1] ELSE 0)
  BY DEF Accounts
<1>a. k \in Int /\ k0 \in Int
  BY <1>1
<1>0. k # k0 => b[k] = a[k]
  <2>1. k \in Commands /\ a[k] \in Nat /\ b[k] = a[k] + (IF k = k0 THEN 1 ELSE 0)
    BY <1>1
  <2> QED
    BY <2>1
<1>2. k < k0 => b[k] = Promised(l)[k]
  <2>1. k < k0 => k # k0
    BY <1>a
  <2>2. k < k0 => a[k] = Promised(l)[k]
    BY DEF Accounts
  <2> QED
    BY <1>0, <2>1, <2>2
<1>3. k > k0 => b[k] = 0
  <2>1. k > k0 => k # k0
    BY <1>a
  <2>2. k > k0 => a[k] = 0
    BY DEF Accounts
  <2> QED
    BY <1>0, <2>1, <2>2
<1>4. ASSUME Piped(l[k].out)
      PROVE  b[k] = y[k] + (IF ReadsPipe(l[k + 1]) THEN b[k + 1] ELSE 0)
  <2>1. k + 1 \in Commands /\ k \in Commands /\ k0 \in Commands
    BY <1>1, <1>4, LineIs
  <2>2. a[k] = z[k] + (IF ReadsPipe(l[k + 1]) THEN a[k + 1] ELSE 0)
    BY <1>4 DEF Accounts
  <2>3. /\ a[k] \in Nat /\ a[k + 1] \in Nat /\ z[k] \in Nat /\ k \in Int /\ k0 \in Int
    BY <1>1, <2>1
  <2>4. CASE k = k0
    <3>1. b[k] = a[k] + 1 /\ y[k] = z[k] + 1 /\ b[k + 1] = a[k + 1]
      BY <1>4, <2>1, <2>3, <2>4
    <3> QED
      BY <2>2, <2>3, <3>1
  <2>5. CASE k = k0 - 1
    <3>1. /\ b[k] = a[k] /\ b[k + 1] = a[k + 1] + 1 /\ k + 1 = k0
          /\ y[k] = z[k] - (IF ReadsPipe(l[k0]) THEN 1 ELSE 0)
      BY <2>1, <2>3, <2>5
    <3> QED
      BY <2>2, <2>3, <3>1
  <2>6. CASE k # k0 /\ k # k0 - 1
    <3>1. b[k] = a[k] /\ b[k + 1] = a[k + 1] /\ y[k] = z[k]
      BY <2>1, <2>3, <2>6
    <3> QED
      BY <2>2, <3>1
  <2> QED
    BY <2>4, <2>5, <2>6
<1> QED
  BY <1>1, <1>2, <1>3, <1>4

LEMMA LandedIsNat ==
    ASSUME NEW q \in Seq(Landing), NEW x
    PROVE  Landed(q, x) \in Nat
<1> DEFINE D == {i \in DOMAIN q : q[i].writer = x}
           n == Len(q)
<1>1. n \in Nat /\ DOMAIN q = 1 .. n
  <2> HIDE DEF Landing
  <2> QED
    OBVIOUS
<1>2. D \subseteq 1 .. n
  BY <1>1
<1>3. IsFiniteSet(1 .. n)
  BY <1>1, FS_Interval
<1> HIDE DEF D, n
<1>4. Cardinality(D) \in Nat
  BY <1>2, <1>3, FS_Subset, FS_CardinalityType
<1> QED
  BY <1>4 DEF Landed, D

LEMMA CountsAre ==
    ASSUME IInv
    PROVE  /\ CountsOf(landed, typed) \in [Commands -> Nat]
           /\ \A k \in Commands : CountsOf(landed, typed)[k] = Landed(landed, <<typed, k>>)
           /\ LensOf(pipe) \in [Commands -> Nat]
           /\ \A k \in Commands : LensOf(pipe)[k] = Len(pipe[k])
<1>1. landed \in Seq(Landing) /\ pipe \in [Commands -> Seq(Units)]
  BY OutputHere
<1>2. \A k \in Commands : Landed(landed, <<typed, k>>) \in Nat
  BY <1>1, LandedIsNat
<1>3. \A k \in Commands : Len(pipe[k]) \in Nat
  <2> DEFINE S == Units
  <2>1. pipe \in [Commands -> Seq(S)]
    BY <1>1
  <2> HIDE DEF S
  <2> QED
    BY <2>1
<1> QED
  BY <1>2, <1>3 DEF CountsOf, LensOf

\* A unit lands, and is in the pipe after the command if there is one.
LEMMA UnitCounts ==
    ASSUME IInv, c <= Len(line), NEW contents \in [Commands -> Seq(Units)],
           Goes(line[c], c) \in Entries(world),
           Deliver(contents, Goes(line[c], c), <<Unit>>)
    PROVE  /\ landed' \in Seq(Landing) /\ pipe' \in [Commands -> Seq(Units)]
           /\ \A k \in Commands :
                /\ Landed(landed', <<typed, k>>)
                     = Landed(landed, <<typed, k>>) + (IF k = c THEN 1 ELSE 0)
                /\ Len(pipe'[k]) = Len(contents[k]) + (IF k = c /\ Piped(line[c].out) THEN 1 ELSE 0)
<1> DEFINE d == Goes(line[c], c)
           y == [writer |-> Unit, to |-> d]
           ws == <<Unit>>
<1>1. /\ pipe' = Poured(contents, d, ws) /\ landed' = landed \o Landings(d, ws)
  BY DEF Deliver
<1>2. Unit \in Units /\ c \in Commands /\ landed \in Seq(Landing)
  BY AtHand, OutputHere
<1>3. y \in Landing /\ y.writer = <<typed, c>>
  BY <1>2 DEF Landing, Unit
<1>4. Landings(d, ws) = <<y>>
  BY DEF Landings
<1>5. landed' = Append(landed, y) /\ landed' \in Seq(Landing)
  <2> DEFINE S == Landing
             x == y
  <2>1. x \in S /\ landed \in Seq(S) /\ landed' = landed \o <<x>>
    BY <1>1, <1>2, <1>3, <1>4
  <2> HIDE DEF S, x
  <2>2. landed' = Append(landed, x) /\ landed' \in Seq(S)
    BY <2>1
  <2> QED
    BY <2>2 DEF S, x
<1>6. ASSUME NEW k \in Commands
      PROVE  Landed(landed', <<typed, k>>)
               = Landed(landed, <<typed, k>>) + (IF k = c THEN 1 ELSE 0)
  <2>1. y.writer = <<typed, k>> <=> k = c
    BY <1>3
  <2>2. Landed(Append(landed, y), <<typed, k>>)
          = Landed(landed, <<typed, k>>) + (IF y.writer = <<typed, k>> THEN 1 ELSE 0)
    BY <1>2, <1>3, LandedGrows
  <2> QED
    BY <1>5, <2>1, <2>2
<1>7. /\ Piped(line[c].out) => d = <<"write", c>>
      /\ ~Piped(line[c].out) => d[1] # "write"
  BY DEF Goes, ToFile, Piped
<1>8. /\ pipe' \in [Commands -> Seq(Units)]
      /\ \A k \in Commands :
           Len(pipe'[k]) = Len(contents[k]) + (IF k = c /\ Piped(line[c].out) THEN 1 ELSE 0)
  <2> DEFINE S == Units
             u == Unit
  <2>1. /\ u \in S /\ contents \in [Commands -> Seq(S)]
        /\ pipe' = IF Piped(line[c].out) THEN [contents EXCEPT ![c] = contents[c] \o <<u>>] ELSE contents
    <3>1. u \in S /\ contents \in [Commands -> Seq(S)]
      BY <1>2
    <3>2. CASE Piped(line[c].out)
      <4>1. d[1] = "write" /\ d[2] = c
        BY <1>7, <3>2
      <4> HIDE DEF d
      <4>2. pipe' = [contents EXCEPT ![c] = contents[c] \o ws]
        BY <1>1, <4>1 DEF Poured
      <4> QED
        BY <3>1, <3>2, <4>2
    <3>3. CASE ~Piped(line[c].out)
      <4>1. d[1] # "write"
        BY <1>7, <3>3
      <4> HIDE DEF d
      <4>2. pipe' = contents
        BY <1>1, <4>1 DEF Poured
      <4> QED
        BY <3>1, <3>3, <4>2
    <3> QED
      BY <3>2, <3>3
  <2> HIDE DEF S, u, d, y, ws
  <2>2. contents[c] \o <<u>> \in Seq(S) /\ Len(contents[c] \o <<u>>) = Len(contents[c]) + 1
    BY <1>2, <2>1
  <2>3. \A k \in Commands : Len(contents[k]) \in Nat
    BY <2>1
  <2>4. pipe' \in [Commands -> Seq(S)]
    BY <1>2, <2>1, <2>2
  <2>5. \A k \in Commands :
           Len(pipe'[k]) = Len(contents[k]) + (IF k = c /\ Piped(line[c].out) THEN 1 ELSE 0)
    BY <1>2, <2>1, <2>2, <2>3
  <2> QED
    BY <2>4, <2>5 DEF S
<1> QED
  BY <1>5, <1>6, <1>8

\* On a terminal nothing waits in a buffer to be flushed.
LEMMA NothingLands ==
    ASSUME IInv, NEW d \in Entries(world), Deliver(pipe, d, <<>>)
    PROVE  UNCHANGED <<pipe, landed>>
<1>1. landed \in Seq(Landing) /\ pipe \in [Commands -> Seq(Units)]
  BY OutputHere
<1>2. /\ pipe' = Poured(pipe, d, <<>>) /\ landed' = landed \o Landings(d, <<>>)
  BY DEF Deliver
<1>3. Landings(d, <<>>) = <<>>
  BY DEF Landings
<1>4. landed \o <<>> = landed
  <2> DEFINE S == Landing
  <2>1. landed \in Seq(S)
    BY <1>1
  <2> HIDE DEF S
  <2> QED
    BY <2>1
<1>5. \A k \in Commands : pipe[k] \o <<>> = pipe[k]
  <2> DEFINE S == Units
  <2>1. pipe \in [Commands -> Seq(S)]
    BY <1>1
  <2> HIDE DEF S
  <2> QED
    BY <2>1
<1>6. pipe' = pipe
  <2>1. CASE d[1] = "write"
    <3>1. pipe' = [pipe EXCEPT ![d[2]] = pipe[d[2]] \o <<>>]
      BY <1>2, <2>1 DEF Poured
    <3> QED
      BY <1>1, <1>5, <3>1
  <2>2. CASE d[1] # "write"
    BY <1>2, <2>2 DEF Poured
  <2> QED
    BY <2>1, <2>2
<1> QED
  BY <1>2, <1>3, <1>4, <1>6

-----------------------------------------------------------------------------
\* Between two lines the last command of a line is behind.
EndsAtEnd == OpenUshrc \/ LeaveUshrc \/ EndOfLine => c' = Len(line') + 1

\* What ArrivesInv says of the command at hand.
LEMMA Counting ==
    ASSUME ArrivesInv, CanCount
    PROVE  Accounts(line, CountsOf(landed, typed), LensOf(pipe), c, Phase(pc), left)
BY DEF ArrivesInv, CountsOf, LensOf, Arrived, Landed

LEMMA StillCounts ==
    ASSUME CanCount', UNCHANGED <<direct, input, rc, line, failed>>
    PROVE  CanCount
BY DEF CanCount, InputIsKnown, IsFile

LEMMA CountsHere ==
    ASSUME IInv, ArrivesInv, CanCount, c <= Len(line)
    PROVE  /\ Phase(pc) = "before" => Landed(landed, <<typed, c>>) = 0
           /\ Phase(pc) = "over" => Landed(landed, <<typed, c>>) = Promised(line)[c]
           /\ Phase(pc) = "running" =>
                ReadsPipe(line[c]) \/ Landed(landed, <<typed, c>>) + left = Promised(line)[c]
<1>1. Accounts(line, CountsOf(landed, typed), LensOf(pipe), c, Phase(pc), left)
  BY Counting
<1>2. c \in DOMAIN line /\ c \in Commands
  BY AtHand
<1>3. CountsOf(landed, typed)[c] = Landed(landed, <<typed, c>>)
  BY <1>2, CountsAre
<1> QED
  BY <1>1, <1>2, <1>3 DEF Accounts

LEMMA ArrivesMove ==
    ASSUME IInv, Next, EndsAtEnd,
           CanCount' =>
             Accounts(line', CountsOf(landed', typed'), LensOf(pipe'), c', Phase(pc'), left')
    PROVE  ArrivesInv'
<1>1. pc'["shell"] # "start" /\ (pc'["shell"] \in {"prompt", "rc"} => c' = Len(line') + 1)
  BY StartsOnce DEF EndsAtEnd
<1>2. CanCount' => Accounts(line, [k \in Commands |-> Arrived(k)],
                            [k \in Commands |-> Len(pipe[k])], c, Phase(pc), left)'
  BY DEF CountsOf, LensOf, Arrived, Landed, Accounts, Phase, Promised, OfItself, Max, ReadsPipe, Piped
<1> QED
  BY <1>1, <1>2 DEF ArrivesInv

\* A step that writes nothing.
LEMMA ArrivesTurn ==
    ASSUME IInv, ArrivesInv, Next,
           UNCHANGED <<direct, input, rc, line, failed, c, typed>>,
           direct => UNCHANGED <<pipe, landed>>,
           EndsAtEnd,
           CanCount /\ c <= Len(line) =>
             /\ Phase(pc') = "before" => Landed(landed, <<typed, c>>) = 0
             /\ Phase(pc') = "over" => Landed(landed, <<typed, c>>) = Promised(line)[c]
             /\ Phase(pc') = "running" =>
                  ReadsPipe(line[c]) \/ Landed(landed, <<typed, c>>) + left' = Promised(line)[c]
    PROVE  ArrivesInv'
<1> SUFFICES ASSUME CanCount'
             PROVE  Accounts(line', CountsOf(landed', typed'), LensOf(pipe'), c', Phase(pc'), left')
  BY ArrivesMove
<1>1. CanCount /\ UNCHANGED <<pipe, landed>>
  BY StillCounts DEF CanCount
<1> DEFINE a == CountsOf(landed, typed)
           to == Phase(pc')
           n == left'
<1>2. Accounts(line, a, LensOf(pipe), c, Phase(pc), left)
  BY <1>1, Counting
<1>3. c \in DOMAIN line => c <= Len(line) /\ a[c] = Landed(landed, <<typed, c>>)
  <2>1. WellFormed(line)
    BY DEF IInv, DataInv
  <2>2. c \in DOMAIN line => c \in 1 .. Len(line) /\ c \in Commands
    BY <2>1, LineIs
  <2> QED
    BY <2>2, CountsAre
<1>4. c \in DOMAIN line =>
        /\ to = "over" => a[c] = Promised(line)[c]
        /\ to = "running" => ReadsPipe(line[c]) \/ a[c] + n = Promised(line)[c]
        /\ to = "before" => a[c] = 0
  BY <1>1, <1>3
<1> HIDE DEF a, to, n
<1>5. Accounts(line, a, LensOf(pipe), c, to, n)
  BY <1>2, <1>4, AccountsTurn
<1> QED
  BY <1>1, <1>5 DEF a, to, n

LEMMA ArrivesStill ==
    ASSUME IInv, ArrivesInv, Next,
           UNCHANGED <<direct, input, rc, line, failed, c, typed, left>>,
           direct => UNCHANGED <<pipe, landed>>,
           EndsAtEnd,
           Phase(pc') = Phase(pc)
    PROVE  ArrivesInv'
BY ArrivesTurn, CountsHere

LEMMA FlushesNothing ==
    ASSUME IInv, direct, NEW p \in Procs, NEW d \in Entries(world),
           Deliver(pipe, d, buffer[p]) \/ Deliver(pipe, d, buffer[p] \o <<>>)
    PROVE  UNCHANGED <<pipe, landed>>
<1>1. buffer[p] = <<>>
  BY OutputHere DEF IsBuffer
<1>2. <<>> \o <<>> = <<>>
  OBVIOUS
<1> QED
  BY <1>1, <1>2, NothingLands

LEMMA BetweenLines ==
    ASSUME IInv, ArrivesInv, Next, OpenUshrc \/ LeaveUshrc \/ EndOfLine
    PROVE  ArrivesInv'
<1>0. /\ WellFormed(line) /\ c \in 1 .. Len(line) + 1 /\ Len(line) \in Nat
      /\ Len(<<>>) = 0 /\ DOMAIN <<>> = {}
      /\ pc["shell"] = "parsed" => c = 1
  BY LineIs DEF IInv, DataInv, ControlInv
<1>a. ASSUME line' = <<>>, c' = c, c = 1
      PROVE  ArrivesInv'
  <2>1. EndsAtEnd
    BY <1>0, <1>a DEF EndsAtEnd
  <2>2. \A a, z, at, lf : Accounts(<<>>, a, z, c', at, lf)
    BY <1>0 DEF Accounts
  <2> QED
    BY <1>a, <2>1, <2>2, ArrivesMove
<1>1. CASE OpenUshrc
  <2>1. /\ pc["shell"] = "start" /\ UNCHANGED <<line, c>>
    BY <1>1 DEF OpenUshrc, session
  <2>2. line = <<>>
    BY <2>1 DEF ArrivesInv
  <2> QED
    BY <1>0, <1>a, <2>1, <2>2
<1>2. CASE LeaveUshrc
  BY <1>0, <1>2, <1>a DEF LeaveUshrc
<1>3. CASE EndOfLine
  <2>1. /\ pc["shell"] = "next" /\ c > Len(line)
        /\ UNCHANGED <<direct, input, rc, line, failed, c, typed, left>>
        /\ Goto("shell", "prompt") \/ Goto("shell", "rc")
        /\ Deliver(pipe, fds["shell"][1], buffer["shell"]) \/ UNCHANGED <<pipe, landed>>
    BY <1>3 DEF EndOfLine, Flushed, session, source, io, stdio
  <2>2. direct => UNCHANGED <<pipe, landed>>
    <3>1. "shell" \in Procs /\ fds["shell"][1] \in Entries(world)
      BY <2>1, TableHere, ProcsAre
    <3> QED
      BY <2>1, <3>1, FlushesNothing
  <2>3. Phase(pc') = Phase(pc)
    <3>1. pc'["shell"] \in {"prompt", "rc"}
      BY <2>1, GotoIs, ProcsAre DEF IInv, ControlInv
    <3> QED
      BY <2>1, <3>1, PhaseNow, PhaseNext DEF PhasesAre
  <2>4. EndsAtEnd
    BY <1>0, <2>1 DEF EndsAtEnd
  <2> QED
    BY <2>1, <2>2, <2>3, <2>4, ArrivesStill
<1> QED
  BY <1>1, <1>2, <1>3

LEMMA NothingSoFar ==
    ASSUME IInv, Next, EndsAtEnd, NEW l, Parsed(l)
    PROVE  ArrivesInv'
<1>1. /\ line' = l /\ c' = 1 /\ landed' = <<>> /\ pipe' = [k \in Commands |-> <<>>]
      /\ Goto("shell", "parsed")
  BY DEF Parsed
<1>2. WellFormed(l)
  BY <1>1, DataKept DEF DataInv
<1>3. Phase(pc') = "before"
  <2>1. pc'["shell"] = "parsed"
    BY <1>1, GotoIs, ProcsAre DEF IInv, ControlInv
  <2> QED
    BY <2>1, PhaseNext DEF PhasesAre
<1>4. /\ \A k \in Commands : CountsOf(landed', typed')[k] = 0 /\ LensOf(pipe')[k] = 0
  <2>1. Len(<<>>) = 0
    OBVIOUS
  <2> QED
    BY <1>1, <2>1, LandedNone DEF CountsOf, LensOf
<1> DEFINE a == CountsOf(landed', typed')
           z == LensOf(pipe')
<1> HIDE DEF a, z
<1>5. \A n : Accounts(l, a, z, 1, "before", n)
  <2>1. /\ DOMAIN l \subseteq Commands /\ DOMAIN l = 1 .. Len(l) /\ Len(l) \in Nat
        /\ \A k \in DOMAIN l : Piped(l[k].out) => k + 1 \in Commands
    BY <1>2, LineIs
  <2>2. \A k \in Commands : a[k] = 0 /\ z[k] = 0
    BY <1>4 DEF a, z
  <2> QED
    BY <2>1, <2>2 DEF Accounts
<1>6. Accounts(line', a, z, c', Phase(pc'), left')
  BY <1>1, <1>3, <1>5
<1> QED
  BY <1>6, ArrivesMove DEF a, z

LEMMA NextCounts ==
    ASSUME IInv, ArrivesInv, Next, EndsAtEnd, WaitForStage \/ NextInShell
    PROVE  ArrivesInv'
<1>1. /\ UNCHANGED <<direct, input, rc, line, failed, typed, pipe, landed>> /\ c' = c + 1
  BY DEF WaitForStage, NextInShell, session, source, io, stdio
<1>2. Phase(pc) = "over" /\ Phase(pc') = "before"
  <2>1. pc["stage"] = "exited" \/ pc["shell"] = "return"
    BY DEF WaitForStage, NextInShell
  <2>2. pc'["shell"] = "next"
    <3>1. pc = [q \in Procs |-> pc[q]]
      BY DEF IInv, ControlInv
    <3> QED
      BY <3>1, ProcsAre DEF WaitForStage, NextInShell, Goto
  <2> QED
    BY <2>1, <2>2, PhaseNow, PhaseNext, ProcsAre DEF PhasesAre
<1>3. WellFormed(line) /\ c \in Int
  BY DEF IInv, DataInv
<1> SUFFICES ASSUME CanCount'
             PROVE  Accounts(line', CountsOf(landed', typed'), LensOf(pipe'), c', Phase(pc'), left')
  BY ArrivesMove
<1>4. CanCount
  BY <1>1, StillCounts
<1>5. Accounts(line, CountsOf(landed, typed), LensOf(pipe), c, "over", left)
  BY <1>2, <1>4, Counting
<1> DEFINE n == left'
           a == CountsOf(landed, typed)
           z == LensOf(pipe)
<1> HIDE DEF n, a, z
<1>6. Accounts(line, a, z, c + 1, "before", n)
  BY <1>3, <1>5, AccountsNext DEF a, z
<1> QED
  BY <1>1, <1>2, <1>6 DEF a, z, n

\* The steps of the shell and of the stage that write nothing on a terminal.
LEMMA ControlCounts ==
    ASSUME IInv, ArrivesInv, Next, EndsAtEnd,
           \/ ExecuteLine \/ EndOfInput \/ RunInShell \/ ForkStage \/ CloseOldEnds
           \/ SetUpStage \/ StageExits
    PROVE  ArrivesInv'
<1>0. pc = [q \in Procs |-> pc[q]]
  BY DEF IInv, ControlInv
<1>1. CASE ExecuteLine \/ RunInShell \/ CloseOldEnds \/ SetUpStage
  <2>1. UNCHANGED <<direct, input, rc, line, failed, c, typed, left, pipe, landed>>
    BY <1>1 DEF ExecuteLine, RunInShell, CloseOldEnds, SetUpStage, session, source, io, stdio
  <2>2. Phase(pc') = Phase(pc)
    <3>1. CASE ExecuteLine \/ RunInShell
      <4>1. /\ pc["shell"] \in {"parsed", "next"} /\ pc'["shell"] \in {"next", "parseCmd"}
        BY <1>0, <3>1, GotoIs, ProcsAre DEF ExecuteLine, RunInShell, AtCommand
      <4> QED
        BY <4>1, PhaseNow, PhaseNext DEF PhasesAre
    <3>2. CASE CloseOldEnds
      <4>1. /\ pc["shell"] = "forked" /\ pc'["shell"] = "wait"
            /\ pc'["stage"] = pc["stage"] /\ pc'["command"] = pc["command"]
        BY <1>0, <3>2, GotoIs, ProcsAre DEF CloseOldEnds
      <4> QED
        BY <4>1, ProcsAre DEF Phase
    <3>3. CASE SetUpStage
      <4>1. pc["stage"] = "setup" /\ pc'["stage"] = "parseCmd"
        BY <1>0, <3>3, GotoIs, ProcsAre DEF SetUpStage
      <4> QED
        BY <4>1, PhaseNow, PhaseNext DEF PhasesAre
    <3> QED
      BY <1>1, <3>1, <3>2, <3>3
  <2> QED
    BY <2>1, <2>2, ArrivesStill
<1>2. CASE ForkStage
  <2>1. UNCHANGED <<direct, input, rc, line, failed, c, typed, left, pipe, landed>>
    BY <1>2 DEF ForkStage, session, source
  <2>2. pc["shell"] = "next" /\ pc'["stage"] = "setup"
    BY <1>0, <1>2, ProcsAre DEF ForkStage, AtCommand
  <2>3. Phase(pc') = Phase(pc)
    BY <2>2, PhaseNow, PhaseNext DEF PhasesAre
  <2> QED
    BY <2>1, <2>3, ArrivesStill
<1>3. CASE EndOfInput \/ StageExits
  <2>1. PICK p \in Parents :
          /\ Exit(p, <<>>)
          /\ \/ p = "shell" /\ pc[p] = "next"
             \/ p = "stage" /\ pc[p] = "return"
    <3>1. CASE EndOfInput
      <4>1. "shell" \in Parents /\ Exit("shell", <<>>) /\ pc["shell"] = "next"
        BY <3>1, ProcsAre DEF EndOfInput, AtCommand
      <4> QED
        BY <4>1
    <3>2. CASE StageExits
      <4>1. "stage" \in Parents /\ Exit("stage", <<>>) /\ pc["stage"] = "return"
        BY <3>2, ProcsAre DEF StageExits
      <4> QED
        BY <4>1
    <3> QED
      BY <1>3, <3>1, <3>2
  <2>2. /\ UNCHANGED <<direct, input, rc, line, failed, c, typed, left>>
    BY <1>3 DEF EndOfInput, StageExits, SeekBack, session, source, Exit, stdio
  <2>3. /\ Exit(p, <<>>) /\ p \in Procs /\ pc[p] \notin {"none", "exited"}
    BY <2>1, ProcsAre
  <2>4. direct => UNCHANGED <<pipe, landed>>
    <3>1. fds[p][1] \in Entries(world)
      BY <2>3, TableHere
    <3> QED
      BY <2>3, <3>1, FlushesNothing DEF Exit
  <2>5. Phase(pc') = Phase(pc)
    <3>1. pc'[p] = "exited"
      BY <1>0, <2>3 DEF Exit
    <3> QED
      BY <2>1, <3>1, PhaseNow, PhaseNext, ProcsAre DEF PhasesAre
  <2> QED
    BY <2>2, <2>4, <2>5, ArrivesStill
<1> QED
  BY <1>1, <1>2, <1>3

\* parseCmd and executeCmd, but for what they print.
LEMMA ParseCounts ==
    ASSUME IInv, ArrivesInv, Next, EndsAtEnd, NEW p \in Parents, ParseCmd(p), ~PrintOne(p)
    PROVE  ArrivesInv'
<1>0. pc = [q \in Procs |-> pc[q]] /\ p \in Procs
  BY ProcsAre DEF IInv, ControlInv
<1>1. CASE RedirectCommand(p)
  <2>1. UNCHANGED <<direct, input, rc, line, failed, c, typed, left, pipe, landed>>
    BY <1>1 DEF RedirectCommand, session, source, io, stdio
  <2>2. pc[p] = "parseCmd" /\ pc'[p] = "execute"
    BY <1>0, <1>1, GotoIs DEF RedirectCommand
  <2>3. Phase(pc') = Phase(pc)
    BY <2>2, PhaseNow, PhaseNext, ProcsAre DEF PhasesAre
  <2> QED
    BY <2>1, <2>3, ArrivesStill
<1>2. CASE OutputOpenFails(p)
  <2>1. failed' = [failed EXCEPT ![p] = failed[p] + 1] /\ failed \in [Parents -> Nat]
    BY <1>2 DEF OutputOpenFails, IInv, DataInv
  <2>2. failed'["shell"] + failed'["stage"] # 0
    BY <2>1, ProcsAre
  <2> QED
    BY <2>2, ArrivesMove DEF CanCount
<1>3. CASE Logout(p)
  <2>1. /\ pc[p] = "execute" /\ line[c].prog = "logout" /\ Exit(p, <<>>)
        /\ UNCHANGED <<direct, input, rc, line, failed, c, typed, left>>
    BY <1>3 DEF Logout, SeekBack, session, Exit, stdio
  <2>2. c <= Len(line) /\ c \in DOMAIN line /\ WellFormed(line)
    BY <2>1, NoCommand, AtHand, ProcsAre DEF IInv, DataInv
  <2>3. direct => UNCHANGED <<pipe, landed>>
    <3>1. fds[p][1] \in Entries(world)
      BY <1>0, <2>1, TableHere
    <3> QED
      BY <1>0, <2>1, <3>1, FlushesNothing DEF Exit
  <2>4. Promised(line)[c] = 0
    BY <2>1, <2>2, PromisedIs DEF PromisedBy, ReadsPipe, OfItself
  <2>5. CanCount => Landed(landed, <<typed, c>>) = 0
    BY <2>1, <2>2, CountsHere, PhaseNow, ProcsAre DEF PhasesAre
  <2>6. Phase(pc') # "running"
    <3>1. pc'[p] = "exited"
      BY <1>0, <2>1 DEF Exit
    <3> QED
      BY <3>1, PhaseNext, ProcsAre DEF PhasesAre
  <2> QED
    BY <2>1, <2>3, <2>4, <2>5, <2>6, ArrivesTurn
<1>4. CASE ForkCommand(p)
  <2>1. UNCHANGED <<direct, input, rc, line, failed, c, typed, left, pipe, landed>>
    BY <1>4 DEF ForkCommand, session, source, stdio
  <2>2. pc[p] = "execute" /\ pc'["command"] = "execv"
    BY <1>0, <1>4, ProcsAre DEF ForkCommand
  <2>3. Phase(pc') = Phase(pc)
    BY <2>2, PhaseNow, PhaseNext, ProcsAre DEF PhasesAre
  <2> QED
    BY <2>1, <2>3, ArrivesStill
<1>5. CASE WaitForCommand(p)
  <2>1. UNCHANGED <<direct, input, rc, line, failed, c, typed, left, pipe, landed>>
    BY <1>5 DEF WaitForCommand, session, source, io, stdio
  <2>2. pc["command"] = "exited" /\ pc'[p] = "restore"
    BY <1>0, <1>5, ProcsAre DEF WaitForCommand
  <2>3. Phase(pc') = Phase(pc)
    BY <2>2, PhaseNow, PhaseNext DEF PhasesAre
  <2> QED
    BY <2>1, <2>3, ArrivesStill
<1>6. CASE RestoreAndFlush(p)
  <2>1. /\ pc[p] = "restore" /\ Goto(p, "return")
        /\ UNCHANGED <<direct, input, rc, line, failed, c, typed, left>>
        /\ \/ Deliver(pipe, Restored(fds[p], saved[p], line[c])[1], buffer[p])
           \/ UNCHANGED <<pipe, landed>>
    BY <1>6 DEF RestoreAndFlush, Flushed, session, source, io, stdio
  <2>2. direct => UNCHANGED <<pipe, landed>>
    <3>1. Restored(fds[p], saved[p], line[c])[1] \in Entries(world)
      BY <2>1, RestoredHere DEF Executing
    <3> QED
      BY <1>0, <2>1, <3>1, FlushesNothing
  <2>3. pc'[p] = "return"
    BY <1>0, <2>1, GotoIs
  <2>4. Phase(pc') = Phase(pc)
    BY <2>1, <2>3, PhaseNow, PhaseNext DEF PhasesAre
  <2> QED
    BY <2>1, <2>2, <2>4, ArrivesStill
<1> QED
  BY <1>1, <1>2, <1>3, <1>4, <1>5, <1>6 DEF ParseCmd

\* Standard input of a filter that reads no pipe: with the input known, no file
\* of the shell.
LEMMA FilterReads ==
    ASSUME IInv, pc["command"] \in {"execv", "running"}, line[c].prog = "filter"
    PROVE  LET d == fds["command"][0] IN
           /\ Piped(line[c].in) => d = <<"read", c - 1>>
           /\ ~Piped(line[c].in) => d[1] # "read" /\ (CanCount => ~IsFile(d))
<1> DEFINE d == fds["command"][0]
<1>1. c <= Len(line) /\ Redirected(fds["command"], line[c], c, world)
  BY CommandHere
<1>2. ReadsFrom(d, line[c], c, world)
  BY <1>1 DEF Redirected
<1> HIDE DEF d
<1>3. ASSUME ~Piped(line[c].in)
      PROVE  d[1] # "read" /\ (CanCount => ~IsFile(d))
  <2>1. Inherited(d, world) \/ d = <<"infile", c>>
    BY <1>2, <1>3 DEF ReadsFrom
  <2>2. \/ d = <<"stdin", 0>> /\ rc = NoRc
        \/ d = <<"rc", 0>> /\ rc # NoRc
        \/ d[1] = "infile"
    <3>1. world.rc = rc
      BY DEF world
    <3>2. ASSUME Inherited(d, world)
          PROVE  d = <<IF rc = NoRc THEN "stdin" ELSE "rc", 0>> \/ d[1] = "infile"
      BY <3>1, <3>2 DEF Inherited
    <3>3. CASE rc = NoRc
      BY <2>1, <3>2, <3>3
    <3>4. CASE rc # NoRc
      BY <2>1, <3>2, <3>4
    <3> QED
      BY <3>3, <3>4
  <2>3. d[1] \in {"stdin", "rc", "infile"}
    BY <2>2
  <2>4. CanCount => ~IsFile(<<"stdin", 0>>) /\ rc = NoRc
    <3>1. c \in DOMAIN line
      BY <1>1, AtHand
    <3> QED
      BY <1>3, <3>1 DEF CanCount, InputIsKnown
  <2>5. CanCount => ~IsFile(d)
    <3>1. ASSUME d[1] = "infile" PROVE ~IsFile(d)
      BY <3>1 DEF IsFile
    <3> QED
      BY <2>2, <2>4, <3>1
  <2> QED
    BY <2>3, <2>5
<1> QED
  BY <1>2, <1>3 DEF ReadsFrom, d

LEMMA ExecvCounts ==
    ASSUME IInv, ArrivesInv, Next, EndsAtEnd, Execv
    PROVE  ArrivesInv'
<1> DEFINE d == fds["command"][0]
<1>1. /\ pc["command"] = "execv" /\ line[c].prog # "broken" /\ Goto("command", "running")
      /\ (line[c].prog = "filter" /\ IsFile(d)) \/ left' = line[c].units
      /\ UNCHANGED <<direct, input, rc, line, failed, c, typed, pipe, landed>>
  BY DEF Execv, session, source, stdio
<1>2. /\ c <= Len(line) /\ c \in DOMAIN line /\ WellFormed(line) /\ line[c].units \in Nat
      /\ line[c].prog \in {"source", "filter"}
  BY <1>1, CommandHere, AtHand DEF External, IInv, DataInv
<1>3. Phase(pc) = "before" /\ Phase(pc') = "running"
  <2>1. pc'["command"] = "running"
    BY <1>1, GotoIs, ProcsAre DEF IInv, ControlInv
  <2> QED
    BY <1>1, <2>1, PhaseNow, PhaseNext DEF PhasesAre
<1>4. ASSUME CanCount, ~ReadsPipe(line[c]) PROVE left' = Promised(line)[c] /\ left' \in Nat
  <2>1. left' = line[c].units
    <3>1. line[c].prog = "filter" => ~IsFile(d)
      BY <1>1, <1>4, FilterReads DEF ReadsPipe
    <3> QED
      BY <1>1, <3>1
  <2>2. Promised(line)[c] = OfItself(line[c])
    BY <1>2, <1>4, PromisedIs DEF PromisedBy
  <2>3. OfItself(line[c]) = line[c].units
    BY <1>2, LineIs DEF OfItself
  <2> QED
    BY <1>2, <2>1, <2>2, <2>3
<1>5. CanCount => Landed(landed, <<typed, c>>) = 0
  BY <1>2, <1>3, CountsHere
<1>6. CanCount => ReadsPipe(line[c]) \/ Landed(landed, <<typed, c>>) + left' = Promised(line)[c]
  BY <1>4, <1>5
<1> HIDE DEF d
<1> QED
  BY <1>1, <1>3, <1>6, ArrivesTurn

\* One unit, taken from the pipe before if the command reads one.
LEMMA UnitArrives ==
    ASSUME IInv, ArrivesInv, CanCount, c <= Len(line), UNCHANGED <<line, c, typed>>,
           NEW contents \in [Commands -> Seq(Units)],
           \A k \in Commands :
             Len(contents[k]) = Len(pipe[k]) - (IF k = c - 1 /\ ReadsPipe(line[c]) THEN 1 ELSE 0),
           Goes(line[c], c) \in Entries(world),
           Deliver(contents, Goes(line[c], c), <<Unit>>),
           Phase(pc') \in {"running", "over"},
           Phase(pc') = "over" => Landed(landed, <<typed, c>>) + 1 = Promised(line)[c],
           Phase(pc') = "running" =>
             ReadsPipe(line[c]) \/ Landed(landed, <<typed, c>>) + 1 + left' = Promised(line)[c]
    PROVE  Accounts(line', CountsOf(landed', typed'), LensOf(pipe'), c', Phase(pc'), left')
<1> DEFINE a == CountsOf(landed, typed)
           z == LensOf(pipe)
           b == CountsOf(landed', typed)
           y == LensOf(pipe')
           to == Phase(pc')
           n == left'
<1>1. /\ landed' \in Seq(Landing) /\ pipe' \in [Commands -> Seq(Units)]
      /\ \A k \in Commands :
           /\ Landed(landed', <<typed, k>>)
                = Landed(landed, <<typed, k>>) + (IF k = c THEN 1 ELSE 0)
           /\ Len(pipe'[k]) = Len(contents[k]) + (IF k = c /\ Piped(line[c].out) THEN 1 ELSE 0)
  BY UnitCounts
<1>2. /\ a \in [Commands -> Nat] /\ z \in [Commands -> Nat]
      /\ \A k \in Commands : a[k] = Landed(landed, <<typed, k>>) /\ z[k] = Len(pipe[k])
  BY CountsAre
<1>3. /\ b \in [Commands -> Nat]
      /\ \A k \in Commands : b[k] = Landed(landed', <<typed, k>>)
  <2>1. \A k \in Commands : Landed(landed', <<typed, k>>) \in Nat
    BY <1>1, LandedIsNat
  <2> QED
    BY <2>1 DEF CountsOf
<1>4. /\ y \in [Commands -> Nat]
      /\ \A k \in Commands : y[k] = Len(pipe'[k])
  <2> DEFINE S == Units
             pp == pipe'
  <2>1. pp \in [Commands -> Seq(S)]
    BY <1>1
  <2> HIDE DEF S, pp
  <2>2. \A k \in Commands : Len(pp[k]) \in Nat
    BY <2>1
  <2> QED
    BY <2>2 DEF LensOf, pp
<1>5. c \in DOMAIN line /\ c \in Commands /\ WellFormed(line) /\ Commands \subseteq Int
  BY AtHand DEF IInv, DataInv, Commands
<1>6. Accounts(line, a, z, c, Phase(pc), left)
  BY Counting
<1>7. /\ to \in {"running", "over"}
      /\ to = "over" => a[c] + 1 = Promised(line)[c]
      /\ to = "running" => ReadsPipe(line[c]) \/ a[c] + 1 + n = Promised(line)[c]
  BY <1>2, <1>5
<1>8. \A k \in Commands :
        /\ b[k] = a[k] + (IF k = c THEN 1 ELSE 0)
        /\ k # c - 1 => y[k] = z[k] + (IF k = c /\ Piped(line[c].out) THEN 1 ELSE 0)
        /\ k = c - 1 => y[k] = z[k] - (IF ReadsPipe(line[c]) THEN 1 ELSE 0)
  <2> TAKE k \in Commands
  <2>1. k \in Int /\ c \in Int /\ a[k] \in Nat /\ b[k] \in Nat /\ z[k] \in Nat /\ y[k] \in Nat
    BY <1>2, <1>3, <1>4, <1>5
  <2>2. b[k] = a[k] + (IF k = c THEN 1 ELSE 0)
    BY <1>1, <1>2, <1>3
  <2>3. y[k] = (z[k] - (IF k = c - 1 /\ ReadsPipe(line[c]) THEN 1 ELSE 0))
                 + (IF k = c /\ Piped(line[c].out) THEN 1 ELSE 0)
    <3> DEFINE s == Len(pipe[k])
               t == Len(contents[k])
               u == Len(pipe'[k])
    <3>1. /\ t = s - (IF k = c - 1 /\ ReadsPipe(line[c]) THEN 1 ELSE 0)
          /\ u = t + (IF k = c /\ Piped(line[c].out) THEN 1 ELSE 0)
      BY <1>1
    <3>2. z[k] = s /\ y[k] = u
      BY <1>2, <1>4
    <3> HIDE DEF s, t, u, a, b, z, y
    <3> QED
      BY <3>1, <3>2
  <2> HIDE DEF a, b, z, y
  <2> QED
    BY <2>1, <2>2, <2>3
<1> HIDE DEF a, b, z, y, to, n
<1>9. b[c] = a[c] + 1
  BY <1>5, <1>8
<1>10. /\ to = "over" => b[c] = Promised(line)[c]
       /\ to = "running" => ReadsPipe(line[c]) \/ b[c] + n = Promised(line)[c]
  BY <1>7, <1>9
<1>11. UnitMore(line, a, z, b, y, c)
  BY <1>2, <1>3, <1>4, <1>8 DEF UnitMore
<1>12. Accounts(line, b, y, c, to, n)
  BY <1>5, <1>6, <1>7, <1>10, <1>11, AccountsGrow
<1> QED
  BY <1>12 DEF b, y, to, n

LEMMA OneUnit ==
    ASSUME IInv, c <= Len(line), line[c].prog \in {"echo", "missing", "broken"}
    PROVE  Promised(line)[c] = 1 /\ ~ReadsPipe(line[c])
<1>1. c \in DOMAIN line /\ WellFormed(line)
  BY AtHand DEF IInv, DataInv
<1>2. ~ReadsPipe(line[c]) /\ OfItself(line[c]) = 1
  BY DEF ReadsPipe, OfItself
<1> QED
  BY <1>1, <1>2, PromisedIs DEF PromisedBy

\* The unit a command prints that ush runs itself, or that execv refuses.
LEMMA OnlyUnit ==
    ASSUME IInv, ArrivesInv, Next, EndsAtEnd, c <= Len(line),
           line[c].prog \in {"echo", "missing", "broken"},
           UNCHANGED <<direct, input, rc, line, failed, c, typed>>,
           Goes(line[c], c) \in Entries(world),
           direct => Deliver(pipe, Goes(line[c], c), <<Unit>>),
           Phase(pc) = "before", Phase(pc') = "over"
    PROVE  ArrivesInv'
<1> SUFFICES ASSUME CanCount'
             PROVE  Accounts(line', CountsOf(landed', typed'), LensOf(pipe'), c', Phase(pc'), left')
  BY ArrivesMove
<1>1. CanCount
  BY StillCounts
<1>2. Deliver(pipe, Goes(line[c], c), <<Unit>>)
  BY <1>1 DEF CanCount
<1>3. Landed(landed, <<typed, c>>) = 0
  BY <1>1, CountsHere
<1>4. Promised(line)[c] = 1 /\ ~ReadsPipe(line[c])
  BY OneUnit
<1>5. /\ pipe \in [Commands -> Seq(Units)]
      /\ \A k \in Commands :
           Len(pipe[k]) = Len(pipe[k]) - (IF k = c - 1 /\ ReadsPipe(line[c]) THEN 1 ELSE 0)
  <2>1. pipe \in [Commands -> Seq(Units)]
    BY OutputHere
  <2>2. \A k \in Commands : Len(pipe[k]) \in Nat
    BY <2>1, CountsAre
  <2> QED
    BY <1>4, <2>1, <2>2
<1>6. /\ Phase(pc') \in {"running", "over"} /\ Phase(pc') # "running"
      /\ Landed(landed, <<typed, c>>) + 1 = Promised(line)[c]
  BY <1>3, <1>4
<1> QED
  BY <1>1, <1>2, <1>5, <1>6, UnitArrives

LEMMA PrintCounts ==
    ASSUME IInv, ArrivesInv, Next, EndsAtEnd, NEW p \in Parents, PrintOne(p)
    PROVE  ArrivesInv'
<1>1. /\ pc[p] = "execute" /\ Goto(p, "restore") /\ line[c].prog \in {"echo", "missing"}
      /\ UNCHANGED <<input, rc, line, failed, c, typed>> /\ Printed(p, fds[p])
  BY DEF PrintOne, session, source
<1>2. c <= Len(line)
  BY <1>1, NoCommand, ProcsAre
<1>3. fds[p][1] = Goes(line[c], c) /\ fds[p][1] \in Entries(world)
  <2>1. fds[p][1] = Goes(line[c], c)
    BY <1>1, ParentHere, ProcsAre DEF Redirected
  <2>2. fds[p][1] \in Entries(world)
    BY <1>1, TableHere, ProcsAre
  <2> QED
    BY <2>1, <2>2
<1>4. direct' => direct /\ Deliver(pipe, Goes(line[c], c), <<Unit>>)
  BY <1>1, <1>3 DEF Printed
<1>5. Phase(pc) = "before" /\ Phase(pc') = "over"
  <2>1. pc'[p] = "restore"
    BY <1>1, GotoIs, ProcsAre DEF IInv, ControlInv
  <2> QED
    BY <1>1, <2>1, PhaseNow, PhaseNext, ProcsAre DEF PhasesAre
<1>6. CASE direct'
  <2>1. direct' = direct
    BY <1>4, <1>6 DEF IInv, StdioInv
  <2> QED
    BY <1>1, <1>2, <1>3, <1>4, <1>5, <1>6, <2>1, OnlyUnit
<1>7. CASE ~direct'
  BY <1>7, ArrivesMove DEF CanCount
<1> QED
  BY <1>6, <1>7

LEMMA RefusalCounts ==
    ASSUME IInv, ArrivesInv, Next, EndsAtEnd, ExecvFails
    PROVE  ArrivesInv'
<1>1. /\ pc["command"] = "execv" /\ line[c].prog = "broken" /\ Exit("command", <<Unit>>)
      /\ UNCHANGED <<direct, input, rc, line, failed, c, typed>>
  BY DEF ExecvFails, SeekBack, session, Exit, stdio
<1>2. /\ c <= Len(line) /\ fds["command"][1] = Goes(line[c], c)
      /\ Goes(line[c], c) \in Entries(world)
  <2>1. /\ c <= Len(line) /\ Redirected(fds["command"], line[c], c, world)
        /\ fds["command"][1] \in Entries(world)
    BY <1>1, CommandHere
  <2> QED
    BY <2>1 DEF Redirected
<1>3. direct => Deliver(pipe, Goes(line[c], c), <<Unit>>)
  <2>1. direct => buffer["command"] = <<>>
    BY OutputHere, ProcsAre DEF IsBuffer
  <2>2. <<>> \o <<Unit>> = <<Unit>>
    OBVIOUS
  <2>3. Deliver(pipe, fds["command"][1], buffer["command"] \o <<Unit>>)
    BY <1>1 DEF Exit
  <2> QED
    BY <1>2, <2>1, <2>2, <2>3
<1>4. Phase(pc) = "before" /\ Phase(pc') = "over"
  <2>1. pc'["command"] = "exited"
    BY <1>1, ProcsAre DEF Exit, IInv, ControlInv
  <2> QED
    BY <1>1, <2>1, PhaseNow, PhaseNext, ProcsAre DEF PhasesAre
<1> QED
  BY <1>1, <1>2, <1>3, <1>4, OnlyUnit

LEMMA RunningHere ==
    ASSUME IInv, pc["command"] = "running"
    PROVE  /\ c <= Len(line) /\ c \in DOMAIN line /\ c \in Commands /\ WellFormed(line)
           /\ \A n \in {1, 2} : fds["command"][n] = Goes(line[c], c)
           /\ Goes(line[c], c) \in Entries(world)
           /\ Phase(pc) = "running" /\ left \in Nat
<1>1. /\ c <= Len(line) /\ Redirected(fds["command"], line[c], c, world)
      /\ fds["command"][2] = Goes(line[c], c)
      /\ \A n \in {0, 1, 2} : fds["command"][n] \in Entries(world)
  BY CommandHere
<1>2. fds["command"][1] = Goes(line[c], c)
  BY <1>1 DEF Redirected
<1>3. c \in DOMAIN line /\ c \in Commands
  BY <1>1, AtHand
<1> QED
  BY <1>1, <1>2, <1>3, PhaseNow DEF PhasesAre, IInv, DataInv

LEMMA WriteCounts ==
    ASSUME IInv, ArrivesInv, Next, EndsAtEnd, WriteUnit \/ CopyFile
    PROVE  ArrivesInv'
<1>1. /\ pc["command"] = "running" /\ left > 0 /\ left' = left - 1
      /\ line[c].prog = "source" \/ fds["command"][0][1] # "read"
      /\ UNCHANGED <<direct, input, rc, line, failed, c, typed, pc>>
      /\ \E n \in {1, 2} : Deliver(pipe, fds["command"][n], <<Unit>>)
  BY DEF WriteUnit, CopyFile, Running, WrittenTo, session, source, stdio
<1>2. /\ c <= Len(line) /\ c \in Commands /\ Goes(line[c], c) \in Entries(world)
      /\ Phase(pc) = "running" /\ left \in Nat
      /\ Deliver(pipe, Goes(line[c], c), <<Unit>>)
  BY <1>1, RunningHere
<1>3. ~ReadsPipe(line[c])
  BY <1>1, FilterReads DEF ReadsPipe
<1> SUFFICES ASSUME CanCount'
             PROVE  Accounts(line', CountsOf(landed', typed'), LensOf(pipe'), c', Phase(pc'), left')
  BY ArrivesMove
<1>4. CanCount
  BY <1>1, StillCounts
<1>5. Landed(landed, <<typed, c>>) + 1 + left' = Promised(line)[c]
  <2> DEFINE h == Landed(landed, <<typed, c>>)
  <2>1. h + left = Promised(line)[c]
    BY <1>2, <1>3, <1>4, CountsHere
  <2>2. h \in Nat
    BY OutputHere, LandedIsNat
  <2> HIDE DEF h
  <2>3. h + 1 + left' = h + left
    BY <1>1, <1>2, <2>2
  <2> QED
    BY <2>1, <2>3 DEF h
<1>6. /\ pipe \in [Commands -> Seq(Units)]
      /\ \A k \in Commands :
           Len(pipe[k]) = Len(pipe[k]) - (IF k = c - 1 /\ ReadsPipe(line[c]) THEN 1 ELSE 0)
  <2>1. pipe \in [Commands -> Seq(Units)]
    BY OutputHere
  <2>2. \A k \in Commands : Len(pipe[k]) \in Nat
    BY <2>1, CountsAre
  <2> QED
    BY <1>3, <2>1, <2>2
<1>7. Phase(pc') \in {"running", "over"} /\ Phase(pc') # "over"
  BY <1>1, <1>2
<1> QED
  BY <1>1, <1>2, <1>4, <1>5, <1>6, <1>7, UnitArrives

LEMMA CopyCounts ==
    ASSUME IInv, ArrivesInv, Next, EndsAtEnd, CopyUnit
    PROVE  ArrivesInv'
<1> DEFINE d == fds["command"][0]
           contents == [pipe EXCEPT ![d[2]] = Tail(@)]
<1>1. /\ pc["command"] = "running" /\ line[c].prog = "filter"
      /\ d[1] = "read" /\ pipe[d[2]] # <<>>
      /\ UNCHANGED <<direct, input, rc, line, failed, c, typed, pc>>
      /\ \E n \in {1, 2} : Deliver(contents, fds["command"][n], <<Unit>>)
  BY DEF CopyUnit, Running, WrittenTo, session, source, stdio
<1>2. /\ c <= Len(line) /\ c \in Commands /\ Goes(line[c], c) \in Entries(world)
      /\ Phase(pc) = "running"
      /\ Deliver(contents, Goes(line[c], c), <<Unit>>)
  BY <1>1, RunningHere
<1>3. ReadsPipe(line[c]) /\ d = <<"read", c - 1>> /\ c - 1 \in Commands
  <2>1. Piped(line[c].in) /\ d = <<"read", c - 1>>
    BY <1>1, FilterReads
  <2> QED
    BY <1>1, <1>2, <2>1, AtHand DEF ReadsPipe
<1>4. /\ contents \in [Commands -> Seq(Units)]
      /\ \A k \in Commands :
           Len(contents[k]) = Len(pipe[k]) - (IF k = c - 1 /\ ReadsPipe(line[c]) THEN 1 ELSE 0)
  <2> DEFINE S == Units
             q == pipe[c - 1]
  <2>1. pipe \in [Commands -> Seq(S)] /\ q \in Seq(S) /\ q # <<>>
    BY <1>1, <1>3, OutputHere
  <2>2. contents = [pipe EXCEPT ![c - 1] = Tail(q)]
    BY <1>3
  <2>3. \A k \in Commands : Len(pipe[k]) \in Nat
    BY CountsAre
  <2> HIDE DEF S, contents
  <2>4. Tail(q) \in Seq(S) /\ Len(Tail(q)) = Len(q) - 1
    <3> HIDE DEF q
    <3> QED
      BY <2>1
  <2>5. contents \in [Commands -> Seq(S)]
    BY <2>1, <2>2, <2>4
  <2>6. ASSUME NEW k \in Commands
        PROVE  Len(contents[k]) = Len(pipe[k]) - (IF k = c - 1 THEN 1 ELSE 0)
    <3>1. CASE k = c - 1
      BY <2>1, <2>2, <2>4, <3>1
    <3>2. CASE k # c - 1
      BY <2>1, <2>2, <2>3, <3>2
    <3> QED
      BY <3>1, <3>2
  <2> QED
    BY <1>3, <2>5, <2>6 DEF S
<1> SUFFICES ASSUME CanCount'
             PROVE  Accounts(line', CountsOf(landed', typed'), LensOf(pipe'), c', Phase(pc'), left')
  BY ArrivesMove
<1>5. CanCount
  BY <1>1, StillCounts
<1>6. Phase(pc') \in {"running", "over"} /\ Phase(pc') # "over"
  BY <1>1, <1>2
<1> HIDE DEF contents
<1> QED
  BY <1>1, <1>2, <1>3, <1>4, <1>5, <1>6, UnitArrives

LEMMA ExitCounts ==
    ASSUME IInv, ArrivesInv, Next, EndsAtEnd, CommandExits
    PROVE  ArrivesInv'
<1> DEFINE d == fds["command"][0]
<1>1. /\ pc["command"] = "running" /\ AtEnd /\ Exit("command", <<>>)
      /\ UNCHANGED <<direct, input, rc, line, failed, c, typed>>
  BY DEF CommandExits, session, source, Exit, stdio
<1>2. /\ c <= Len(line) /\ c \in DOMAIN line /\ c \in Commands /\ WellFormed(line)
      /\ Phase(pc) = "running" /\ left \in Nat
  BY <1>1, RunningHere
<1>3. direct => UNCHANGED <<pipe, landed>>
  <2>1. fds["command"][1] \in Entries(world)
    BY <1>1, TableHere, ProcsAre
  <2> QED
    BY <1>1, <2>1, FlushesNothing, ProcsAre DEF Exit
<1>4. Phase(pc') = "over"
  <2>1. pc'["command"] = "exited"
    BY <1>1, ProcsAre DEF Exit, IInv, ControlInv
  <2> QED
    BY <2>1, PhaseNext DEF PhasesAre
<1>5. ASSUME CanCount PROVE Landed(landed, <<typed, c>>) = Promised(line)[c]
  <2>1. Landed(landed, <<typed, c>>) \in Nat
    BY OutputHere, LandedIsNat
  <2>2. CASE ~ReadsPipe(line[c])
    <3>1. left = 0
      <4>1. ~(line[c].prog = "filter" /\ d[1] = "read")
        BY <1>1, <2>2, FilterReads DEF ReadsPipe
      <4> QED
        BY <1>1, <4>1 DEF AtEnd
    <3>2. Landed(landed, <<typed, c>>) + left = Promised(line)[c]
      BY <1>2, <1>5, <2>2, CountsHere
    <3> QED
      BY <2>1, <3>1, <3>2
  <2>3. CASE ReadsPipe(line[c])
    <3>1. /\ c - 1 \in DOMAIN line /\ c - 1 \in Commands /\ Piped(line[c - 1].out)
          /\ Promised(line)[c] = Promised(line)[c - 1]
      BY <1>2, <2>3, LineIs, PromisedIs DEF PromisedBy, ReadsPipe
    <3>2. pipe[c - 1] = <<>>
      <4>1. line[c].prog = "filter" /\ d = <<"read", c - 1>>
        BY <1>1, <2>3, FilterReads DEF ReadsPipe
      <4>2. d[1] = "read" /\ d[2] = c - 1
        BY <4>1
      <4> HIDE DEF d
      <4> QED
        BY <1>1, <4>1, <4>2 DEF AtEnd, d
    <3> DEFINE a == CountsOf(landed, typed)
               z == LensOf(pipe)
    <3>3. /\ a[c - 1] \in Nat /\ a[c] \in Nat /\ z[c - 1] = 0
          /\ a[c] = Landed(landed, <<typed, c>>)
      <4>1. Len(<<>>) = 0
        OBVIOUS
      <4> QED
        BY <1>2, <3>1, <3>2, <4>1, CountsAre
    <3>4. Accounts(line, a, z, c, Phase(pc), left)
      BY <1>5, Counting
    <3> HIDE DEF a, z
    <3>5. c - 1 < c /\ (c - 1) + 1 = c
      BY <1>2 DEF Commands
    <3>6. /\ a[c - 1] = Promised(line)[c - 1]
          /\ a[c - 1] = z[c - 1] + (IF ReadsPipe(line[(c - 1) + 1]) THEN a[(c - 1) + 1] ELSE 0)
      BY <3>1, <3>4, <3>5 DEF Accounts
    <3>7. a[c - 1] = z[c - 1] + a[c]
      BY <2>3, <3>5, <3>6
    <3> QED
      BY <3>1, <3>3, <3>6, <3>7
  <2> QED
    BY <2>2, <2>3
<1> HIDE DEF d
<1> QED
  BY <1>1, <1>3, <1>4, <1>5, ArrivesTurn

LEMMA ArrivesKept ==
    ASSUME IInv, ArrivesInv, Next
    PROVE  ArrivesInv'
<1>1. CASE OpenUshrc \/ LeaveUshrc \/ EndOfLine
  BY <1>1, BetweenLines
<1>2. CASE ~(OpenUshrc \/ LeaveUshrc \/ EndOfLine)
  <2>0. EndsAtEnd
    BY <1>2 DEF EndsAtEnd
  <2>1. CASE (\E l \in Lines : ReadLine(l)) \/ ReadBuffered \/ ReadFile \/ ReadEnd
    BY <2>0, <2>1, NothingSoFar DEF ReadLine, ReadBuffered, ReadFile, ReadEnd, Take
  <2>2. CASE ExecuteLine \/ EndOfInput \/ RunInShell \/ ForkStage \/ CloseOldEnds
             \/ SetUpStage \/ StageExits
    BY <2>0, <2>2, ControlCounts
  <2>3. CASE WaitForStage \/ NextInShell
    BY <2>0, <2>3, NextCounts
  <2>4. ASSUME NEW p \in Parents, ParseCmd(p) PROVE ArrivesInv'
    BY <2>0, <2>4, ParseCounts, PrintCounts
  <2>5. CASE CommandStep
    BY <2>0, <2>5, ExecvCounts, RefusalCounts, WriteCounts, CopyCounts, ExitCounts
       DEF CommandStep
  <2> QED
    BY <1>2, <2>1, <2>2, <2>3, <2>4, <2>5, ProcsAre DEF Next, ShellStep, StageStep
<1> QED
  BY <1>1, <1>2

LEMMA ArrivesInit ==
    ASSUME Init
    PROVE  ArrivesInv
<1>1. line = <<>> /\ pc["shell"] = "start"
  BY ProcsAre DEF Init
<1>2. \A k : k \notin DOMAIN line
  BY <1>1
<1> QED
  BY <1>1, <1>2 DEF ArrivesInv, Accounts

THEOREM ArrivesInvariance == Spec => []ArrivesInv
<1>1. Init => ArrivesInv
  BY ArrivesInit
<1>2. IInv /\ ArrivesInv /\ [Next]_vars => ArrivesInv'
  <2> SUFFICES ASSUME IInv, ArrivesInv, [Next]_vars
               PROVE  ArrivesInv'
    OBVIOUS
  <2>1. CASE Next
    BY <2>1, ArrivesKept
  <2>2. CASE UNCHANGED vars
    <3>1. UNCHANGED <<direct, input, rc, line, failed, c, typed, pc, left, pipe, landed>>
      BY <2>2 DEF vars, session, source, io, stdio
    <3>2. CanCount' =>
            Accounts(line', CountsOf(landed', typed'), LensOf(pipe'), c', Phase(pc'), left')
      BY <3>1, StillCounts, Counting
    <3>3. CanCount' => Accounts(line, [k \in Commands |-> Arrived(k)],
                                [k \in Commands |-> Len(pipe[k])], c, Phase(pc), left)'
      BY <3>2 DEF CountsOf, LensOf, Arrived, Landed, Accounts, Phase, Promised, OfItself, Max, ReadsPipe, Piped
    <3> QED
      BY <3>1, <3>3 DEF ArrivesInv
  <2> QED
    BY <2>1, <2>2
<1> QED
  BY <1>1, <1>2, Invariance, PTL DEF Spec

\* On a terminal, with no output file that could not be opened and nothing on the
\* line that reads what the shell reads from a file, every unit a line promises has
\* arrived when the line is done, once: a filter got all that the stage before it
\* wrote, and nothing was written by two copies of a process.  (The forks of
\* parsePipe and executeCmd, the pipes between them, exit and the waits.)
THEOREM EverythingArrives == Spec => []AllArrives
<1>1. IInv /\ ArrivesInv => AllArrives
  <2> SUFFICES ASSUME IInv, ArrivesInv, CanCount, pc["shell"] \in {"prompt", "rc"},
                      NEW k \in DOMAIN line
               PROVE  Arrived(k) = Promised(line)[k]
    BY DEF AllArrives, CanCount
  <2>1. c = Len(line) + 1 /\ WellFormed(line)
    BY DEF ArrivesInv, IInv, DataInv
  <2>2. k < c /\ k \in Commands
    BY <2>1, LineIs
  <2>3. CountsOf(landed, typed)[k] = Promised(line)[k]
    BY <2>2, Counting DEF Accounts
  <2> QED
    BY <2>2, <2>3, ArrivedIs, CountsAre
<1> QED
  BY <1>1, Invariance, ArrivesInvariance, PTL
=============================================================================
