-------------------------- MODULE LinkedList_proofs --------------------------
(***************************************************************************)
(* Proofs about the linked lists, for any number of cells, elements and    *)
(* walkers and any length: the list stays a sequence, and a walk that      *)
(* holds no lock answers what was true at some moment of it.               *)
(***************************************************************************)
EXTENDS LinkedList, CommonFacts, SequenceTheorems

-----------------------------------------------------------------------------
(***************************************************************************)
(* The cells that n steps along the pointers nx visit, from h on.          *)
(***************************************************************************)
Along(nx, c) == IF c = NULL THEN NULL ELSE nx[c]
IsPath(f, n, h, nx) == f = [i \in 1 .. n |-> IF i = 1 THEN h ELSE Along(nx, f[i - 1])]
Path(n, h, nx) == CHOOSE f : IsPath(f, n, h, nx)

LEMMA ChainIsPath == Chain = Path(Linked, head, next)
BY DEF Chain, Path, IsPath, Along, Follow

LEMMA ChainIsPathNext == Chain' = Path(Linked', head', next')
BY DEF Chain, Path, IsPath, Along, Follow

\* Two functions that follow the same pointers agree.
LEMMA PathAgrees ==
    ASSUME NEW n \in Nat, NEW h, NEW nx, NEW f, NEW g,
           IsPath(f, n, h, nx), IsPath(g, n, h, nx)
    PROVE  f = g
<1> DEFINE C == {i \in 1 .. n : f[i] # g[i]}
<1>1. /\ f = [i \in 1 .. n |-> IF i = 1 THEN h ELSE Along(nx, f[i - 1])]
      /\ g = [i \in 1 .. n |-> IF i = 1 THEN h ELSE Along(nx, g[i - 1])]
  BY DEF IsPath
<1>2. ASSUME C # {} PROVE FALSE
  <2>1. C \in SUBSET Nat
    OBVIOUS
  <2>2. PICK i \in C : \A j \in C : i <= j
    <3> HIDE DEF C
    <3> QED
      BY <1>2, <2>1, LeastNumber
  <2>3. i \in 1 .. n /\ f[i] # g[i]
    OBVIOUS
  <2>4. i # 1 => i - 1 \in 1 .. n /\ f[i - 1] = g[i - 1]
    <3>1. i # 1 => i - 1 \in 1 .. n /\ i - 1 < i
      BY <2>3
    <3>2. i # 1 => i - 1 \notin C
      <4> HIDE DEF C
      <4> QED
        BY <2>1, <2>2, <3>1
    <3> QED
      BY <3>1, <3>2
  <2>5. /\ f[i] = IF i = 1 THEN h ELSE Along(nx, f[i - 1])
        /\ g[i] = IF i = 1 THEN h ELSE Along(nx, g[i - 1])
    <3> HIDE DEF C
    <3> QED
      BY <1>1, <2>3
  <2> QED
    BY <2>3, <2>4, <2>5
<1>3. \A i \in 1 .. n : f[i] = g[i]
  BY <1>2
<1> HIDE DEF C
<1>4. f = [i \in 1 .. n |-> f[i]] /\ g = [i \in 1 .. n |-> g[i]]
  BY <1>1
<1> QED
  BY <1>3, <1>4

\* A function that follows the pointers is the path.
LEMMA PathIs ==
    ASSUME NEW n \in Nat, NEW h, NEW nx, NEW f, IsPath(f, n, h, nx)
    PROVE  Path(n, h, nx) = f
<1>1. IsPath(Path(n, h, nx), n, h, nx)
  BY DEF Path
<1> QED
  BY <1>1, PathAgrees

\* There is a path of every length.
LEMMA PathExists ==
    ASSUME NEW n \in Nat, NEW h, NEW nx
    PROVE  IsPath(Path(n, h, nx), n, h, nx)
<1> DEFINE C == {m \in Nat : ~ \E f : IsPath(f, m, h, nx)}
<1>1. ASSUME C # {} PROVE FALSE
  <2>1. PICK m \in C : \A k \in C : m <= k
    <3>1. C \in SUBSET Nat
      OBVIOUS
    <3> HIDE DEF C
    <3> QED
      BY <1>1, <3>1, LeastNumber
  <2>2. m \in Nat /\ ~ \E f : IsPath(f, m, h, nx)
    OBVIOUS
  <2>3. CASE m = 0
    <3>1. IsPath([i \in {} |-> 0], 0, h, nx)
      BY DEF IsPath
    <3> QED
      BY <2>2, <2>3, <3>1
  <2>4. CASE m # 0
    <3>1. m - 1 \in Nat /\ m - 1 \notin C
      <4>1. C \in SUBSET Nat /\ m - 1 \in Nat /\ m - 1 < m
        BY <2>2, <2>4
      <4> HIDE DEF C
      <4> QED
        BY <2>1, <4>1
    <3>2. PICK f : IsPath(f, m - 1, h, nx)
      BY <3>1
    <3> DEFINE Next1(i) == IF i = 1 THEN h ELSE Along(nx, f[i - 1])
               g == [i \in 1 .. m |-> Next1(i)]
    <3>3. f = [i \in 1 .. m - 1 |-> IF i = 1 THEN h ELSE Along(nx, f[i - 1])]
      BY <3>2 DEF IsPath
    <3>4. \A i \in 1 .. m - 1 : g[i] = f[i]
      <4> SUFFICES ASSUME NEW i \in 1 .. m - 1 PROVE g[i] = f[i]
        OBVIOUS
      <4>1. f[i] = IF i = 1 THEN h ELSE Along(nx, f[i - 1])
        BY <3>3
      <4>2. i \in 1 .. m
        BY <2>2
      <4> QED
        BY <4>1, <4>2
    <3>5. ASSUME NEW i \in 1 .. m
          PROVE  g[i] = IF i = 1 THEN h ELSE Along(nx, g[i - 1])
      <4>1. i # 1 => i - 1 \in 1 .. m - 1
        BY <2>2
      <4> QED
        BY <3>4, <4>1
    <3>6. IsPath(g, m, h, nx)
      <4>1. g = [i \in 1 .. m |-> g[i]]
        OBVIOUS
      <4> HIDE DEF g
      <4> QED
        BY <3>5, <4>1 DEF IsPath
    <3> QED
      BY <2>2, <3>6
  <2> QED
    BY <2>3, <2>4
<1>2. \E f : IsPath(f, n, h, nx)
  BY <1>1
<1> QED
  BY <1>2 DEF Path

\* The cells of a path, one by one.
LEMMA PathSteps ==
    ASSUME NEW n \in Nat, NEW h, NEW nx
    PROVE  /\ DOMAIN Path(n, h, nx) = 1 .. n
           /\ Path(n, h, nx) = [i \in 1 .. n |-> Path(n, h, nx)[i]]
           /\ n > 0 => Path(n, h, nx)[1] = h
           /\ \A i \in 1 .. n - 1 : Path(n, h, nx)[i + 1] = Along(nx, Path(n, h, nx)[i])
<1> DEFINE f == Path(n, h, nx)
<1>1. f = [i \in 1 .. n |-> IF i = 1 THEN h ELSE Along(nx, f[i - 1])]
  BY PathExists DEF IsPath
<1> HIDE DEF f
<1>2. \A i \in 1 .. n - 1 : i + 1 \in 1 .. n /\ i + 1 # 1 /\ (i + 1) - 1 = i
  OBVIOUS
<1>3. \A i \in 1 .. n - 1 : f[i + 1] = Along(nx, f[(i + 1) - 1])
  BY <1>1, <1>2
<1>4. \A i \in 1 .. n - 1 : f[i + 1] = Along(nx, f[i])
  BY <1>2, <1>3
<1>5. n > 0 => f[1] = h
  BY <1>1
<1>6. DOMAIN f = 1 .. n /\ f = [i \in 1 .. n |-> f[i]]
  BY <1>1
<1> QED
  BY <1>4, <1>5, <1>6 DEF f

\* A function with these cells is the path.
Follows(f, n, h, nx) ==
    /\ f = [i \in 1 .. n |-> f[i]]
    /\ n > 0 => f[1] = h
    /\ \A i \in 1 .. n - 1 : f[i + 1] = Along(nx, f[i])

LEMMA PathByCells ==
    ASSUME NEW n \in Nat, NEW h, NEW nx, NEW f, Follows(f, n, h, nx)
    PROVE  Path(n, h, nx) = f
<1>0. /\ f = [i \in 1 .. n |-> f[i]]
      /\ n > 0 => f[1] = h
      /\ \A i \in 1 .. n - 1 : f[i + 1] = Along(nx, f[i])
  BY DEF Follows
<1>1. ASSUME NEW i \in 1 .. n
      PROVE  f[i] = IF i = 1 THEN h ELSE Along(nx, f[i - 1])
  <2>1. i # 1 => i - 1 \in 1 .. n - 1 /\ (i - 1) + 1 = i
    OBVIOUS
  <2>2. i # 1 => f[(i - 1) + 1] = Along(nx, f[i - 1])
    BY <1>0, <2>1
  <2> QED
    BY <1>0, <2>1, <2>2
<1>2. IsPath(f, n, h, nx)
  BY <1>0, <1>1 DEF IsPath
<1> QED
  BY <1>2, PathIs

-----------------------------------------------------------------------------
(***************************************************************************)
(* The chain and the content of a list.                                    *)
(***************************************************************************)
ContentOf(n, ch, dt) == [i \in 1 .. n |-> IF ch[i] = NULL THEN NULL ELSE dt[ch[i]]]
\* ChainIsSound of n cells.
SoundCells(n, ch, dt) ==
    /\ n \in Nat
    /\ \A i \in 1 .. n : ch[i] \in Cells /\ dt[ch[i]] \in Items
    /\ \A i, j \in 1 .. n : dt[ch[i]] = dt[ch[j]] => i = j
\* They follow the pointers from h on.
Joined(n, ch, h, nx) ==
    /\ ch = [i \in 1 .. n |-> ch[i]]
    /\ n > 0 => ch[1] = h
    /\ \A i \in 1 .. n - 1 : ch[i + 1] = nx[ch[i]]

LEMMA SoundIs == ChainIsSound <=> SoundCells(Linked, Chain, data)
BY DEF ChainIsSound, SoundCells, Places

LEMMA SoundIsNext == ChainIsSound' <=> SoundCells(Linked', Chain', data')
BY DEF ChainIsSound, SoundCells, Places

LEMMA NullIsApart == NULL \notin Cells /\ NULL \notin Items
BY CellsAssumption

LEMMA ContainsOne ==
    ASSUME NEW n, NEW ch, NEW dt, SoundCells(n, ch, dt)
    PROVE  /\ ContentOf(n, ch, dt) \in Seq(Items) /\ Len(ContentOf(n, ch, dt)) = n
           /\ DOMAIN ContentOf(n, ch, dt) = 1 .. n
           /\ \A i \in 1 .. n : ContentOf(n, ch, dt)[i] = dt[ch[i]]
           /\ \A x : Contains(ContentOf(n, ch, dt), x) <=> \E q \in 1 .. n : dt[ch[q]] = x
<1> DEFINE c == ContentOf(n, ch, dt)
<1>1. n \in Nat /\ \A i \in 1 .. n : ch[i] # NULL /\ dt[ch[i]] \in Items
  BY NullIsApart DEF SoundCells
<1>2. c = [i \in 1 .. n |-> dt[ch[i]]]
  BY <1>1 DEF ContentOf
<1> HIDE DEF c
<1>3. c \in Seq(Items) /\ Len(c) = n /\ DOMAIN c = 1 .. n
  BY <1>1, <1>2
<1>4. \A x : Contains(c, x) <=> \E q \in 1 .. n : dt[ch[q]] = x
  BY <1>2, <1>3 DEF Contains
<1> QED
  BY <1>2, <1>3, <1>4 DEF c

\* What is on the list.
LEMMA ContentIs ==
    ASSUME ChainIsSound
    PROVE  /\ Content \in Seq(Items) /\ Len(Content) = Linked /\ DOMAIN Content = Places
           /\ \A i \in Places : Content[i] = data[Chain[i]]
           /\ \A x : Contains(Content, x) <=> \E q \in Places : At(x, q)
<1>1. Content = ContentOf(Linked, Chain, data)
  BY DEF Content, ContentOf
<1>2. SoundCells(Linked, Chain, data)
  BY SoundIs
<1> QED
  BY <1>1, <1>2, ContainsOne DEF Places, At

LEMMA ContentIsNext ==
    ASSUME ChainIsSound'
    PROVE  /\ Content' \in Seq(Items) /\ Len(Content') = Linked' /\ DOMAIN Content' = Places'
           /\ \A i \in Places' : Content'[i] = data'[Chain'[i]]
           /\ \A x : Contains(Content', x) <=> \E q \in Places' : At(x, q)'
<1>1. Content' = ContentOf(Linked', Chain', data')
  BY DEF Content, ContentOf
<1>2. SoundCells(Linked', Chain', data')
  BY SoundIsNext
<1> QED
  BY <1>1, <1>2, ContainsOne DEF Places, At

LEMMA ChainFacts ==
    ASSUME ChainIsSound
    PROVE  /\ Linked \in Nat /\ Places = 1 .. Linked
           /\ Chain = [i \in Places |-> Chain[i]] /\ DOMAIN Chain = Places
           /\ Linked > 0 => Chain[1] = head
           /\ \A i \in 1 .. Linked - 1 : Chain[i + 1] = next[Chain[i]]
           /\ \A i \in Places : Chain[i] \in Cells /\ Chain[i] # NULL /\ data[Chain[i]] \in Items
           /\ \A i, j \in Places : Chain[i] = Chain[j] => i = j
           /\ \A i, j \in Places : data[Chain[i]] = data[Chain[j]] => i = j
<1>1. SoundCells(Linked, Chain, data) /\ Places = 1 .. Linked
  BY SoundIs DEF Places
<1> DEFINE n == Linked
           ch == Chain
<1>2. n \in Nat /\ \A i \in 1 .. n : ch[i] \in Cells /\ ch[i] # NULL /\ data[ch[i]] \in Items
  BY <1>1, NullIsApart DEF SoundCells
<1>3. ch = Path(n, head, next)
  BY ChainIsPath
<1> HIDE DEF n, ch
<1>4. /\ DOMAIN ch = 1 .. n /\ ch = [i \in 1 .. n |-> ch[i]]
      /\ n > 0 => ch[1] = head
      /\ \A i \in 1 .. n - 1 : ch[i + 1] = Along(next, ch[i])
  BY <1>2, <1>3, PathSteps
<1>5. \A i \in 1 .. n - 1 : ch[i + 1] = next[ch[i]]
  <2>1. \A i \in 1 .. n - 1 : i \in 1 .. n
    BY <1>2
  <2> QED
    BY <1>2, <1>4, <2>1 DEF Along
<1>6. \A i, j \in 1 .. n : data[ch[i]] = data[ch[j]] => i = j
  BY <1>1 DEF n, ch, SoundCells
<1>7. \A i, j \in 1 .. n : ch[i] = ch[j] => i = j
  BY <1>6
<1> QED
  BY <1>1, <1>2, <1>4, <1>5, <1>6, <1>7 DEF n, ch

\* The chain after a step, if some cells are joined then.
LEMMA ChainAfter ==
    ASSUME NEW n \in Nat, Linked' = n, NEW ch, \A i \in 1 .. n : ch[i] \in Cells,
           Joined(n, ch, head', next')
    PROVE  Chain' = ch
<1>1. \A i \in 1 .. n - 1 : i \in 1 .. n /\ ch[i] # NULL
  BY NullIsApart
<1>2. \A i \in 1 .. n - 1 : ch[i + 1] = Along(next', ch[i])
  BY <1>1 DEF Joined, Along
<1>3. ch = [i \in 1 .. n |-> ch[i]] /\ (n > 0 => ch[1] = head')
  BY DEF Joined
<1>4. Follows(ch, n, head', next')
  BY <1>2, <1>3 DEF Follows
<1>5. Path(n, head', next') = ch
  BY <1>4, PathByCells
<1> QED
  BY <1>5, ChainIsPathNext

\* No cell that is on the list, no root, is unused.
LEMMA UnusedIsApart ==
    ASSUME ChainIsSound, NEW c, Unused(c)
    PROVE  /\ c \in Cells /\ c # NULL /\ c # head /\ c # tail /\ c # mutator.cell
           /\ \A w \in Walkers : walk[w].lp # c
           /\ \A i \in Places : Chain[i] # c
<1>1. PICK S \in SUBSET Cells :
        c \in S /\ S \cap Roots = {} /\ \A d \in Cells \ S : next[d] \notin S
  BY DEF Unused
<1>2. /\ c # head /\ c # tail /\ c # mutator.cell
      /\ \A w \in Walkers : walk[w].lp # c
      /\ head \notin S
  BY <1>1 DEF Roots
<1> DEFINE C == {i \in Places : Chain[i] \in S}
<1>3. ASSUME C # {} PROVE FALSE
  <2>1. Places = 1 .. Linked /\ Linked \in Nat
    BY ChainFacts
  <2>2. PICK i \in C : \A j \in C : i <= j
    <3>1. C \in SUBSET Nat
      BY <2>1
    <3> HIDE DEF C
    <3> QED
      BY <1>3, <3>1, LeastNumber
  <2>3. i \in 1 .. Linked /\ Chain[i] \in S
    BY <2>1
  <2>4. CASE i = 1
    <3>1. Chain[1] = head
      BY <2>1, <2>3, <2>4, ChainFacts
    <3> QED
      BY <1>2, <2>3, <2>4, <3>1
  <2>5. CASE i # 1
    <3>1. i - 1 \in 1 .. Linked - 1 /\ i - 1 \in Places /\ (i - 1) + 1 = i /\ i - 1 < i
      BY <2>1, <2>3, <2>5
    <3>2. i - 1 \notin C
      <4> HIDE DEF C
      <4>1. i \in Int
        BY <2>1, <2>3
      <4> QED
        BY <2>2, <3>1, <4>1
    <3>3. Chain[i - 1] \in Cells \ S
      BY <3>1, <3>2, ChainFacts
    <3>4. Chain[(i - 1) + 1] = next[Chain[i - 1]]
      BY <3>1, ChainFacts
    <3> QED
      BY <1>1, <2>3, <3>1, <3>3, <3>4
  <2> QED
    BY <2>4, <2>5
<1>4. \A i \in Places : Chain[i] # c
  BY <1>1, <1>3
<1> QED
  BY <1>1, <1>2, <1>4, NullIsApart

-----------------------------------------------------------------------------
(***************************************************************************)
(* What each call does to the list.                                        *)
(***************************************************************************)
ListInv == TypeOK /\ ChainIsSound /\ ChainEnds /\ Pending /\ NoStrays

\* Nothing of the list changes, except what is said of the fields.
SameChain == Linked' = Linked /\ Chain' = Chain /\ Places' = Places

LEMMA AppendEffect ==
    ASSUME ListInv, NEW c \in Cells, NEW x \in Items, BeginAppend(c, x)
    PROVE  /\ SameChain /\ Linked = number /\ Apart(c) /\ c # NULL
           /\ \A w \in Walkers : walk[w].lp # c
           /\ data'[c] = x /\ \A d \in Cells : d # c => data'[d] = data[d]
           /\ next'[c] = NULL
           /\ \A d \in Cells : d # c /\ (number = 0 \/ d # tail) => next'[d] = next[d]
           /\ number # 0 => tail = Chain[number] /\ next'[Chain[number]] = c /\ head' = head
           /\ number = 0 => head' = c
           /\ tail' = c
           /\ \A i \in Places : data[Chain[i]] # x
<1>1. /\ ChainIsSound /\ number \in Nat /\ mutator.at = "idle"
      /\ data \in [Cells -> Items \cup {NULL}] /\ next \in [Cells -> Pointers]
  BY DEF ListInv, TypeOK, BeginAppend, MayChange
<1>2. Linked = number
  BY <1>1 DEF Linked, Deleting
<1>3. /\ Unused(c) /\ data' = [data EXCEPT ![c] = x] /\ tail' = c
      /\ IF number = 0 THEN head' = c ELSE UNCHANGED head
      /\ next' = [d \in Cells |-> IF d = c THEN NULL
                                ELSE IF number # 0 /\ d = tail THEN c ELSE next[d]]
      /\ mutator' = [at |-> "count", cell |-> c] /\ number' = number
      /\ ~Contains(Content, x)
  BY DEF BeginAppend, NewCell, LinkLast
<1>4. /\ c # NULL /\ Apart(c) /\ \A w \in Walkers : walk[w].lp # c
  BY <1>1, <1>3, UnusedIsApart DEF Apart
<1>5. number # 0 => tail = Chain[number]
  BY <1>1, <1>2 DEF ListInv, ChainEnds
<1>6. Linked' = number
  BY <1>2, <1>3 DEF Linked, Deleting
<1>7. Chain' = Chain
  <2>1. /\ \A i \in 1 .. number : Chain[i] \in Cells /\ Chain[i] # c
        /\ Chain = [i \in 1 .. number |-> Chain[i]]
        /\ number > 0 => Chain[1] = head
        /\ \A i \in 1 .. number - 1 : Chain[i + 1] = next[Chain[i]]
        /\ \A i, j \in 1 .. number : Chain[i] = Chain[j] => i = j
    BY <1>1, <1>2, <1>4, ChainFacts DEF Apart
  <2>2. ASSUME NEW i \in 1 .. number - 1 PROVE Chain[i + 1] = next'[Chain[i]]
    <3>1. i \in 1 .. number /\ i # number /\ number \in 1 .. number
      BY <1>1
    <3>2. Chain[i] # tail /\ Chain[i] # c /\ Chain[i] \in Cells
      BY <1>5, <2>1, <3>1
    <3>3. next'[Chain[i]] = next[Chain[i]]
      BY <1>3, <3>2
    <3> QED
      BY <2>1, <3>3
  <2>3. number > 0 => Chain[1] = head'
    BY <1>1, <1>3, <2>1
  <2>4. Joined(number, Chain, head', next')
    BY <2>1, <2>2, <2>3 DEF Joined
  <2> QED
    BY <1>1, <1>6, <2>1, <2>4, ChainAfter
<1>8. \A i \in Places : data[Chain[i]] # x
  BY <1>1, <1>3, ContentIs DEF At
<1>9. number # 0 => number \in Places /\ Chain[number] # c /\ Chain[number] \in Cells
  BY <1>1, <1>2, <1>4, ChainFacts DEF Apart
<1> QED
  BY <1>1, <1>2, <1>3, <1>4, <1>5, <1>6, <1>7, <1>8, <1>9 DEF SameChain, Places

\* What a step makes a walk notice.
LEMMA ObserveEffect ==
    ASSUME TypeOK, walk' = walk, Observe
    PROVE  /\ seen' \in [Walkers -> [present : BOOLEAN, absent : BOOLEAN, deletion : BOOLEAN]]
           /\ \A w \in Walkers : walk[w].at # "idle" =>
                /\ seen'[w].present <=> seen[w].present \/ Holds(walk[w].target)'
                /\ seen'[w].absent <=> seen[w].absent \/ ~Contains(Content', walk[w].target)
                /\ seen'[w].deletion <=> seen[w].deletion \/ Deleting'
<1>1. ASSUME NEW w \in Walkers, walk[w].at # "idle"
      PROVE  /\ seen'[w].present <=> seen[w].present \/ Holds(walk[w].target)'
             /\ seen'[w].absent <=> seen[w].absent \/ ~Contains(Content', walk[w].target)
             /\ seen'[w].deletion <=> seen[w].deletion \/ Deleting'
             /\ seen'[w] \in [present : BOOLEAN, absent : BOOLEAN, deletion : BOOLEAN]
  <2> DEFINE a == Holds(walk[w].target)'
             b == ~Contains(Content', walk[w].target)
             d == Deleting'
  <2>1. seen'[w] = Witness(seen[w], a, b, d)
    BY <1>1 DEF Observe
  <2> HIDE DEF a, b, d
  <2>3. /\ (Witness(seen[w], a, b, d)).present = (seen[w].present \/ a)
        /\ (Witness(seen[w], a, b, d)).absent = (seen[w].absent \/ b)
        /\ (Witness(seen[w], a, b, d)).deletion = (seen[w].deletion \/ d)
    BY DEF Witness
  <2>4. Witness(seen[w], a, b, d) \in [present : BOOLEAN, absent : BOOLEAN, deletion : BOOLEAN]
    BY DEF Witness
  <2> QED
    BY <2>1, <2>3, <2>4 DEF a, b, d
<1>2. ASSUME NEW w \in Walkers, walk[w].at = "idle"
      PROVE  seen'[w] \in [present : BOOLEAN, absent : BOOLEAN, deletion : BOOLEAN]
  BY <1>2 DEF Observe, Unseen
<1>3. seen' = [w \in Walkers |-> seen'[w]]
  BY DEF Observe
<1> QED
  BY <1>1, <1>2, <1>3

LEMMA AppendKeepsList ==
    ASSUME ListInv, NEW c \in Cells, NEW x \in Items, BeginAppend(c, x)
    PROVE  ListInv'
<1>1. /\ SameChain /\ Linked = number /\ Apart(c) /\ c # NULL
      /\ data'[c] = x /\ \A d \in Cells : d # c => data'[d] = data[d]
      /\ next'[c] = NULL
      /\ \A d \in Cells : d # c /\ (number = 0 \/ d # tail) => next'[d] = next[d]
      /\ number # 0 => tail = Chain[number] /\ next'[Chain[number]] = c /\ head' = head
      /\ number = 0 => head' = c
      /\ tail' = c
      /\ \A i \in Places : data[Chain[i]] # x
  BY AppendEffect
<1>2. /\ TypeOK /\ ChainIsSound /\ Pending /\ NoStrays /\ mutator.at = "idle"
      /\ number \in Nat /\ number < MaxLength
      /\ mutator' = [at |-> "count", cell |-> c] /\ number' = number /\ program' = program
      /\ data' = [data EXCEPT ![c] = x] /\ walk' = walk /\ returned' = returned /\ Observe
  BY DEF ListInv, TypeOK, BeginAppend, MayChange, NewCell
<1>3. /\ Linked \in Nat /\ Places = 1 .. Linked
      /\ \A i \in Places : Chain[i] \in Cells /\ data[Chain[i]] \in Items
      /\ \A i, j \in Places : Chain[i] = Chain[j] => i = j
      /\ \A i, j \in Places : data[Chain[i]] = data[Chain[j]] => i = j
      /\ \A i \in 1 .. Linked - 1 : Chain[i + 1] = next[Chain[i]]
  BY <1>2, ChainFacts
<1>4. TypeOK'
  <2>1. /\ data' \in [Cells -> Items \cup {NULL}]
        /\ head' \in Pointers /\ tail' \in Pointers
    BY <1>1, <1>2 DEF TypeOK, Pointers
  <2>2. next' \in [Cells -> Pointers]
    BY <1>2 DEF TypeOK, Pointers, BeginAppend, LinkLast
  <2>3. mutator' \in [at : {"idle", "count", "cut", "discount"}, cell : Pointers]
    BY <1>2 DEF Pointers
  <2> QED
    BY <1>2, <2>1, <2>2, <2>3, ObserveEffect DEF TypeOK
<1>5. \A i \in Places : data'[Chain[i]] = data[Chain[i]] /\ Chain[i] # c
  BY <1>1, <1>3 DEF Apart
<1>6. ChainIsSound'
  BY <1>1, <1>3, <1>5 DEF SameChain, ChainIsSound
<1>7. ChainEnds'
  BY <1>2 DEF ChainEnds
<1>8. Pending'
  BY <1>1, <1>2, <1>5 DEF Pending, SameChain, Apart
<1>9. ASSUME program = "ramdisk", NEW d \in Cells PROVE PointsInto(d)'
  <2>1. PointsInto(d)
    BY <1>2, <1>9 DEF NoStrays
  <2>2. CASE d = c
    BY <1>1, <2>2 DEF PointsInto
  <2>3. CASE d # c /\ number > 0 /\ d = Chain[number]
    BY <1>2, <2>3, <1>1 DEF PointsInto, SameChain
  <2>4. CASE d # c /\ ~(number > 0 /\ d = Chain[number])
    <3>1. next'[d] = next[d]
      BY <1>1, <1>2, <2>4
    <3>2. next[d] = NULL \/ \E i \in 1 .. Linked - 1 : d = Chain[i] /\ next[d] = Chain[i + 1]
      BY <1>2, <2>1 DEF PointsInto
    <3> QED
      BY <1>1, <3>1, <3>2 DEF PointsInto, SameChain
  <2> QED
    BY <2>2, <2>3, <2>4
<1>10. NoStrays'
  BY <1>2, <1>9 DEF NoStrays
<1> QED
  BY <1>4, <1>6, <1>7, <1>8, <1>10 DEF ListInv

LEMMA CountEffect ==
    ASSUME ListInv, Count
    PROVE  /\ Linked = number /\ Linked' = number + 1 /\ Places' = 1 .. number + 1
           /\ Chain'[number + 1] = mutator.cell
           /\ \A i \in Places : Chain'[i] = Chain[i] /\ i \in Places'
           /\ \A i \in Places' : i \in Places \/ i = number + 1
<1>1. /\ ChainIsSound /\ Pending /\ number \in Nat /\ mutator.at = "count"
      /\ number' = number + 1 /\ mutator' = [at |-> "idle", cell |-> NULL]
      /\ next' = next /\ head' = head
  BY DEF ListInv, TypeOK, Count
<1>2. Linked = number /\ Linked' = number + 1
  BY <1>1 DEF Linked, Deleting
<1>3. /\ mutator.cell \in Cells
      /\ IF number = 0 THEN head = mutator.cell ELSE next[Chain[number]] = mutator.cell
  BY <1>1 DEF Pending, Apart
<1>4. /\ Places = 1 .. number
      /\ Chain = [i \in 1 .. number |-> Chain[i]]
      /\ number > 0 => Chain[1] = head
      /\ \A i \in 1 .. number - 1 : Chain[i + 1] = next[Chain[i]]
      /\ \A i \in 1 .. number : Chain[i] \in Cells
  BY <1>1, <1>2, ChainFacts
<1> DEFINE ch == [i \in 1 .. number + 1 |-> IF i = number + 1 THEN mutator.cell ELSE Chain[i]]
<1>5. ch[number + 1] = mutator.cell /\ \A i \in 1 .. number : ch[i] = Chain[i] /\ i \in 1 .. number + 1
  BY <1>1
<1>6. \A i \in 1 .. number + 1 : i \in 1 .. number \/ i = number + 1
  BY <1>1
<1>7. ch = [i \in 1 .. number + 1 |-> ch[i]]
  OBVIOUS
<1> HIDE DEF ch
<1>8. \A i \in 1 .. number + 1 : ch[i] \in Cells
  BY <1>3, <1>4, <1>5, <1>6
<1>9. ch[1] = head
  <2>1. CASE number = 0
    BY <1>3, <1>5, <2>1
  <2>2. CASE number # 0
    <3>1. 1 \in 1 .. number
      BY <1>1, <2>2
    <3> QED
      BY <1>1, <1>4, <1>5, <2>2, <3>1
  <2> QED
    BY <2>1, <2>2
<1>10. ASSUME NEW i \in 1 .. (number + 1) - 1 PROVE ch[i + 1] = next[ch[i]]
  <2>1. i \in 1 .. number
    BY <1>1
  <2>2. CASE i = number
    BY <1>3, <1>5, <2>1, <2>2
  <2>3. CASE i # number
    <3>1. i \in 1 .. number - 1 /\ i + 1 \in 1 .. number
      BY <1>1, <2>1, <2>3
    <3> QED
      BY <1>4, <1>5, <2>1, <3>1
  <2> QED
    BY <2>2, <2>3
<1>11. Joined(number + 1, ch, head', next')
  BY <1>1, <1>7, <1>9, <1>10 DEF Joined
<1>12. number + 1 \in Nat
  BY <1>1
<1>13. Chain' = ch
  BY <1>2, <1>8, <1>11, <1>12, ChainAfter
<1> QED
  BY <1>2, <1>4, <1>5, <1>6, <1>13 DEF Places

LEMMA CountKeepsList ==
    ASSUME ListInv, Count
    PROVE  ListInv'
<1>1. /\ Linked = number /\ Linked' = number + 1 /\ Places' = 1 .. number + 1
      /\ Chain'[number + 1] = mutator.cell
      /\ \A i \in Places : Chain'[i] = Chain[i] /\ i \in Places'
      /\ \A i \in Places' : i \in Places \/ i = number + 1
  BY CountEffect
<1>2. /\ TypeOK /\ ChainIsSound /\ Pending /\ NoStrays /\ mutator.at = "count"
      /\ number \in Nat /\ number' = number + 1 /\ program' = program
      /\ mutator' = [at |-> "idle", cell |-> NULL]
      /\ data' = data /\ next' = next /\ head' = head /\ tail' = tail
      /\ walk' = walk /\ returned' = returned /\ Observe
  BY DEF ListInv, TypeOK, Count
<1>3. /\ Linked \in Nat /\ Places = 1 .. Linked
      /\ \A i \in Places : Chain[i] \in Cells /\ data[Chain[i]] \in Items
      /\ \A i, j \in Places : data[Chain[i]] = data[Chain[j]] => i = j
  BY <1>2, ChainFacts
<1>4. /\ number < MaxLength /\ tail = mutator.cell /\ next[mutator.cell] = NULL
      /\ mutator.cell \in Cells
      /\ number > 0 => next[Chain[number]] = mutator.cell
      /\ data[mutator.cell] \in Items
      /\ \A i \in Places : data[Chain[i]] # data[mutator.cell]
  BY <1>2 DEF Pending, Apart
<1>5. TypeOK'
  <2>1. number' \in 0 .. MaxLength
    BY <1>2, <1>4, LengthAssumption
  <2>2. mutator' \in [at : {"idle", "count", "cut", "discount"}, cell : Pointers]
    BY <1>2 DEF Pointers
  <2> QED
    BY <1>2, <2>1, <2>2, ObserveEffect DEF TypeOK, Pointers
<1>6. ChainIsSound'
  <2>1. ASSUME NEW i \in Places'
        PROVE  Chain'[i] \in Cells /\ data[Chain'[i]] \in Items
    BY <1>1, <1>3, <1>4
  <2>2. ASSUME NEW i \in Places', NEW j \in Places', data[Chain'[i]] = data[Chain'[j]]
        PROVE  i = j
    BY <1>1, <1>3, <1>4, <2>2
  <2>3. Linked' \in Nat
    BY <1>1, <1>2
  <2> QED
    BY <1>2, <2>1, <2>2, <2>3 DEF ChainIsSound
<1>7. ChainEnds'
  <2>1. tail' = Chain'[Linked'] /\ next'[tail'] = NULL /\ Linked' # 0
    BY <1>1, <1>2, <1>4
  <2> QED
    BY <2>1 DEF ChainEnds
<1>8. Pending'
  BY <1>2 DEF Pending
<1>9. ASSUME program = "ramdisk", NEW d \in Cells PROVE PointsInto(d)'
  <2>1. \/ next[d] = NULL
        \/ \E i \in 1 .. Linked - 1 : d = Chain[i] /\ next[d] = Chain[i + 1]
        \/ number > 0 /\ d = Chain[number]
    BY <1>2, <1>9 DEF NoStrays, PointsInto
  <2>2. CASE next[d] = NULL
    BY <1>2, <2>2 DEF PointsInto
  <2>3. ASSUME NEW i \in 1 .. Linked - 1, d = Chain[i] /\ next[d] = Chain[i + 1]
        PROVE  PointsInto(d)'
    <3>1. i \in Places /\ i + 1 \in Places /\ i \in 1 .. Linked' - 1
      BY <1>1, <1>2, <1>3
    <3>2. d = Chain'[i] /\ next'[d] = Chain'[i + 1]
      BY <1>1, <1>2, <2>3, <3>1
    <3> QED
      BY <3>1, <3>2 DEF PointsInto
  <2>4. CASE number > 0 /\ d = Chain[number]
    <3>1. number \in Places /\ number \in 1 .. Linked' - 1
      BY <1>1, <1>2, <1>3, <2>4
    <3>2. d = Chain'[number] /\ next'[d] = Chain'[number + 1]
      BY <1>1, <1>2, <1>4, <2>4, <3>1
    <3> QED
      BY <3>1, <3>2 DEF PointsInto
  <2> QED
    BY <2>1, <2>2, <2>3, <2>4
<1>10. NoStrays'
  BY <1>2, <1>9 DEF NoStrays
<1> QED
  BY <1>5, <1>6, <1>7, <1>8, <1>10 DEF ListInv

\* A step that changes neither the counter nor what the chain is made of.
LEMMA PointersStay ==
    ASSUME ChainIsSound, Linked' = Linked, head' = head,
           \A i \in 1 .. Linked - 1 : next'[Chain[i]] = next[Chain[i]]
    PROVE  SameChain
<1>1. /\ Linked \in Nat /\ Chain = [i \in 1 .. Linked |-> Chain[i]]
      /\ Linked > 0 => Chain[1] = head
      /\ \A i \in 1 .. Linked - 1 : Chain[i + 1] = next[Chain[i]]
      /\ \A i \in 1 .. Linked : Chain[i] \in Cells
  BY ChainFacts
<1>2. \A i \in 1 .. Linked - 1 : Chain[i + 1] = next'[Chain[i]]
  BY <1>1
<1>3. Joined(Linked, Chain, head', next')
  BY <1>1, <1>2 DEF Joined
<1>4. Chain' = Chain
  BY <1>1, <1>3, ChainAfter
<1> QED
  BY <1>4 DEF SameChain, Places

LEMMA CutEffect ==
    ASSUME ListInv, Cut
    PROVE  /\ SameChain /\ next'[mutator.cell] = NULL /\ Apart(mutator.cell)
           /\ \A d \in Cells : d # mutator.cell => next'[d] = next[d]
           /\ next' \in [Cells -> Pointers]
<1>1. /\ ChainIsSound /\ Pending /\ number \in Nat /\ mutator.at = "cut"
      /\ number' = number /\ head' = head /\ mutator' = [mutator EXCEPT !.at = "discount"]
      /\ next' = [next EXCEPT ![mutator.cell] = NULL] /\ next \in [Cells -> Pointers]
      /\ mutator \in [at : {"idle", "count", "cut", "discount"}, cell : Pointers]
  BY DEF ListInv, TypeOK, Cut
<1>2. Linked = number - 1 /\ Linked' = number - 1
  BY <1>1 DEF Linked, Deleting
<1>3. Apart(mutator.cell)
  BY <1>1 DEF Pending
<1>4. /\ next'[mutator.cell] = NULL /\ \A d \in Cells : d # mutator.cell => next'[d] = next[d]
      /\ next' \in [Cells -> Pointers]
  BY <1>1, <1>3 DEF Apart, Pointers
<1>5. \A i \in 1 .. Linked - 1 : next'[Chain[i]] = next[Chain[i]]
  <2>1. \A i \in 1 .. Linked - 1 : i \in Places
    BY <1>1, ChainFacts
  <2> QED
    BY <1>1, <1>3, <1>4, <2>1, ChainFacts DEF Apart
<1>6. SameChain
  BY <1>1, <1>2, <1>5, PointersStay
<1> QED
  BY <1>3, <1>4, <1>6

LEMMA CutKeepsList ==
    ASSUME ListInv, Cut
    PROVE  ListInv'
<1>1. /\ SameChain /\ next'[mutator.cell] = NULL /\ Apart(mutator.cell)
      /\ \A d \in Cells : d # mutator.cell => next'[d] = next[d]
      /\ next' \in [Cells -> Pointers]
  BY CutEffect
<1>2. /\ TypeOK /\ ChainIsSound /\ ChainEnds /\ Pending /\ NoStrays /\ mutator.at = "cut"
      /\ number' = number /\ program' = program
      /\ mutator' = [mutator EXCEPT !.at = "discount"]
      /\ mutator \in [at : {"idle", "count", "cut", "discount"}, cell : Pointers]
      /\ data' = data /\ head' = head /\ tail' = tail
      /\ walk' = walk /\ returned' = returned /\ Observe
  BY DEF ListInv, TypeOK, Cut
<1>3. /\ mutator'.at = "discount" /\ mutator'.cell = mutator.cell
      /\ mutator' \in [at : {"idle", "count", "cut", "discount"}, cell : Pointers]
  BY <1>2
<1>4. TypeOK'
  BY <1>1, <1>2, <1>3, ObserveEffect DEF TypeOK, Pointers
<1>5. ChainIsSound'
  BY <1>1, <1>2 DEF SameChain, ChainIsSound
<1>6. ChainEnds'
  <2>1. CASE Linked = 0
    BY <1>1, <1>2, <2>1 DEF ChainEnds, SameChain
  <2>2. CASE Linked # 0
    <3>1. Linked \in Places
      BY <1>2, <2>2, ChainFacts
    <3>2. Chain[Linked] # mutator.cell /\ Chain[Linked] \in Cells /\ tail = Chain[Linked]
      BY <1>1, <1>2, <2>2, <3>1, ChainFacts DEF Apart, ChainEnds
    <3>3. next'[tail] = next[tail]
      BY <1>1, <3>2
    <3> QED
      BY <1>1, <1>2, <2>2, <3>2, <3>3 DEF ChainEnds, SameChain
  <2> QED
    BY <2>1, <2>2
<1>7. Pending'
  BY <1>1, <1>3 DEF Pending, SameChain, Apart
<1>8. ASSUME program = "ramdisk", NEW d \in Cells PROVE PointsInto(d)'
  <2>1. PointsInto(d)
    BY <1>2, <1>8 DEF NoStrays
  <2>2. CASE d = mutator.cell
    BY <1>1, <2>2 DEF PointsInto
  <2>3. CASE d # mutator.cell
    <3>1. next'[d] = next[d]
      BY <1>1, <2>3
    <3>2. next[d] = NULL \/ \E i \in 1 .. Linked - 1 : d = Chain[i] /\ next[d] = Chain[i + 1]
      BY <1>2, <2>1, <2>3 DEF PointsInto
    <3> QED
      BY <1>1, <3>1, <3>2 DEF PointsInto, SameChain
  <2> QED
    BY <2>2, <2>3
<1>9. NoStrays'
  BY <1>2, <1>8 DEF NoStrays
<1> QED
  BY <1>4, <1>5, <1>6, <1>7, <1>9 DEF ListInv

LEMMA DiscountEffect ==
    ASSUME ListInv, Discount
    PROVE  SameChain
<1>1. /\ ChainIsSound /\ number \in Nat /\ mutator.at = "discount"
      /\ number' = number - 1 /\ head' = head /\ mutator' = [at |-> "idle", cell |-> NULL]
      /\ next' = next
  BY DEF ListInv, TypeOK, Discount
<1>2. Linked = number - 1 /\ Linked' = number - 1
  BY <1>1 DEF Linked, Deleting
<1> QED
  BY <1>1, <1>2, PointersStay

LEMMA DiscountKeepsList ==
    ASSUME ListInv, Discount
    PROVE  ListInv'
<1>1. SameChain
  BY DiscountEffect
<1>2. /\ TypeOK /\ ChainIsSound /\ ChainEnds /\ Pending /\ NoStrays /\ mutator.at = "discount"
      /\ number \in 0 .. MaxLength /\ number' = number - 1 /\ program' = program
      /\ mutator' = [at |-> "idle", cell |-> NULL]
      /\ data' = data /\ next' = next /\ head' = head /\ tail' = tail
      /\ walk' = walk /\ returned' = returned /\ Observe
  BY DEF ListInv, TypeOK, Discount
<1>3. TypeOK'
  <2>1. Linked = number - 1 /\ Linked \in Nat
    BY <1>2, ChainFacts DEF Linked, Deleting
  <2>2. number' \in 0 .. MaxLength
    BY <1>2, <2>1, LengthAssumption
  <2>3. mutator' \in [at : {"idle", "count", "cut", "discount"}, cell : Pointers]
    BY <1>2 DEF Pointers
  <2> QED
    BY <1>2, <2>2, <2>3, ObserveEffect DEF TypeOK, Pointers
<1>4. ChainIsSound'
  BY <1>1, <1>2 DEF SameChain, ChainIsSound
<1>5. ChainEnds'
  BY <1>1, <1>2 DEF ChainEnds, SameChain
<1>6. Pending'
  BY <1>2 DEF Pending
<1>7. NoStrays'
  <2>1. ASSUME program = "ramdisk", NEW d \in Cells PROVE PointsInto(d)'
    <3>1. next[d] = NULL \/ \E i \in 1 .. Linked - 1 : d = Chain[i] /\ next[d] = Chain[i + 1]
      BY <1>2, <2>1 DEF NoStrays, PointsInto
    <3> QED
      BY <1>1, <1>2, <3>1 DEF PointsInto, SameChain
  <2> QED
    BY <1>2, <2>1 DEF NoStrays
<1> QED
  BY <1>3, <1>4, <1>5, <1>6, <1>7 DEF ListInv

\* What taking out the cell at place p does.  Later(p, i) is where the cell at i was.
Later(p, i) == IF i < p THEN i ELSE i + 1

LEMMA DeleteEffect ==
    ASSUME ListInv, NEW p \in 1 .. number, BeginDelete(p)
    PROVE  /\ Linked = number /\ Linked' = number - 1 /\ Places' = 1 .. number - 1
           /\ \A i \in Places' : Later(p, i) \in Places /\ Chain'[i] = Chain[Later(p, i)]
           /\ mutator' = [at |-> "cut", cell |-> Chain[p]] /\ mutator.at = "idle"
           /\ next'[Chain[p]] = next[Chain[p]]
           /\ \A d \in Cells : p = 1 \/ d # Chain[p - 1] => next'[d] = next[d]
           /\ p > 1 /\ p < number => next'[Chain[p - 1]] = Chain[p + 1]
           /\ p > 1 /\ p = number =>
                 next'[Chain[p - 1]] = PointerOfLast(Chain[p - 1]) /\ tail' = Chain[p - 1]
           /\ p < number => tail' = tail
           /\ number = 1 => head' = NULL /\ tail' = NULL
           /\ next' \in [Cells -> Pointers]
           /\ head' \in Pointers /\ tail' \in Pointers
<1>1. /\ ChainIsSound /\ ChainEnds /\ number \in Nat /\ mutator.at = "idle" /\ number' = number
      /\ mutator' = [at |-> "cut", cell |-> Chain[p]]
      /\ next \in [Cells -> Pointers] /\ head \in Pointers /\ tail \in Pointers /\ Unlink(p)
  BY DEF ListInv, TypeOK, BeginDelete, MayChange
<1>2. Linked = number /\ Linked' = number - 1
  BY <1>1 DEF Linked, Deleting
<1>3. /\ Places = 1 .. number
      /\ number > 0 => Chain[1] = head
      /\ \A i \in 1 .. number - 1 : Chain[i + 1] = next[Chain[i]]
      /\ \A i \in 1 .. number : Chain[i] \in Cells
      /\ \A i, j \in 1 .. number : Chain[i] = Chain[j] => i = j
  BY <1>1, <1>2, ChainFacts
<1>4. tail = Chain[number] /\ number \in 1 .. number
  BY <1>1, <1>2 DEF ChainEnds
<1>5. p = 1 => /\ next' = next
               /\ IF number = 1 THEN head' = NULL /\ tail' = NULL
                  ELSE head' = next[head] /\ tail' = tail
  BY <1>1 DEF Unlink, UnlinkHead
<1>6. p > 1 /\ p = number =>
        /\ tail' = Chain[p - 1] /\ head' = head
        /\ next' = [next EXCEPT ![Chain[p - 1]] = PointerOfLast(Chain[p - 1])]
  BY <1>1, <1>4 DEF Unlink
<1>7. p > 1 /\ p < number =>
        /\ next' = [next EXCEPT ![Chain[p - 1]] = next[Chain[p]]]
        /\ head' = head /\ tail' = tail
  BY <1>1, <1>3, <1>4 DEF Unlink
<1>8. p > 1 => p - 1 \in 1 .. number /\ p - 1 # p /\ Chain[p - 1] \in Cells /\ Chain[p - 1] # Chain[p]
  <2>1. p > 1 => p - 1 \in 1 .. number /\ p - 1 # p
    BY <1>1
  <2> QED
    BY <1>3, <2>1
<1>9. p < number => p \in 1 .. number - 1 /\ p + 1 \in 1 .. number /\ next[Chain[p]] = Chain[p + 1]
  <2>1. p < number => p \in 1 .. number - 1 /\ p + 1 \in 1 .. number
    BY <1>1
  <2> QED
    BY <1>3, <2>1
<1>10. next' \in [Cells -> Pointers]
  <2>1. \A d \in Cells : PointerOfLast(d) \in Pointers /\ next[d] \in Pointers
    BY <1>1 DEF PointerOfLast, Pointers
  <2>2. Chain[p] \in Cells
    BY <1>3
  <2> QED
    BY <1>1, <1>5, <1>6, <1>7, <1>8, <2>1, <2>2
<1>11. head' \in Pointers /\ tail' \in Pointers
  <2>1. Chain[p] \in Cells /\ (p = 1 => head = Chain[1])
    BY <1>1, <1>3
  <2> QED
    BY <1>1, <1>3, <1>5, <1>6, <1>7, <1>8, <2>1 DEF Pointers
<1>12. /\ \A d \in Cells : p = 1 \/ d # Chain[p - 1] => next'[d] = next[d]
       /\ p > 1 /\ p < number => next'[Chain[p - 1]] = Chain[p + 1]
       /\ p > 1 /\ p = number =>
             next'[Chain[p - 1]] = PointerOfLast(Chain[p - 1]) /\ tail' = Chain[p - 1]
  BY <1>1, <1>5, <1>6, <1>7, <1>8, <1>9
<1>13. next'[Chain[p]] = next[Chain[p]]
  BY <1>3, <1>8, <1>12
<1> DEFINE ch == [i \in 1 .. number - 1 |-> Chain[Later(p, i)]]
<1>14. \A i \in 1 .. number - 1 : Later(p, i) \in 1 .. number /\ ch[i] = Chain[Later(p, i)]
  BY <1>1 DEF Later
<1>15. ch = [i \in 1 .. number - 1 |-> ch[i]]
  OBVIOUS
<1> HIDE DEF ch
<1>16. \A i \in 1 .. number - 1 : ch[i] \in Cells
  BY <1>3, <1>14
<1>17. number - 1 > 0 => ch[1] = head'
  <2> SUFFICES ASSUME number - 1 > 0 PROVE ch[1] = head'
    OBVIOUS
  <2>1. ch[1] = Chain[Later(p, 1)]
    BY <1>1, <1>14
  <2>2. CASE p = 1
    <3>1. Later(p, 1) = 2 /\ 1 \in 1 .. number - 1 /\ 1 + 1 = 2
      BY <1>1, <2>2 DEF Later
    <3>2. head' = next[head] /\ head = Chain[1]
      BY <1>1, <1>3, <1>5, <2>2
    <3>3. Chain[1 + 1] = next[Chain[1]]
      BY <1>3, <3>1
    <3> QED
      BY <2>1, <3>1, <3>2, <3>3
  <2>3. CASE p > 1
    <3>1. Later(p, 1) = 1 /\ head' = head /\ head = Chain[1]
      BY <1>1, <1>3, <1>6, <1>7, <2>3 DEF Later
    <3> QED
      BY <2>1, <3>1
  <2> QED
    BY <2>2, <2>3
<1>18. ASSUME NEW i \in 1 .. (number - 1) - 1 PROVE ch[i + 1] = next'[ch[i]]
  <2>1. i \in 1 .. number - 1 /\ i + 1 \in 1 .. number - 1 /\ i \in 1 .. number /\ i + 1 \in 1 .. number
    BY <1>1
  <2>2. ch[i] = Chain[Later(p, i)] /\ ch[i + 1] = Chain[Later(p, i + 1)]
    BY <1>14, <2>1
  <2>3. CASE i + 1 < p
    <3>1. Later(p, i) = i /\ Later(p, i + 1) = i + 1 /\ i # p - 1 /\ p > 1
      BY <2>1, <2>3 DEF Later
    <3>2. Chain[i] # Chain[p - 1] /\ Chain[i] \in Cells
      BY <1>3, <1>8, <2>1, <3>1
    <3>3. next'[Chain[i]] = next[Chain[i]]
      BY <1>12, <3>2
    <3> QED
      BY <1>3, <2>1, <2>2, <3>1, <3>3
  <2>4. CASE i + 1 = p
    <3>1. Later(p, i) = p - 1 /\ Later(p, i + 1) = p + 1 /\ p > 1 /\ p < number
      BY <1>1, <2>1, <2>4 DEF Later
    <3> QED
      BY <1>12, <2>2, <3>1
  <2>5. CASE i + 1 > p
    <3>1. Later(p, i) = i + 1 /\ Later(p, i + 1) = (i + 1) + 1
      BY <2>1, <2>5 DEF Later
    <3>2. p = 1 \/ Chain[i + 1] # Chain[p - 1]
      BY <1>3, <1>8, <2>1, <2>5
    <3>3. next'[Chain[i + 1]] = next[Chain[i + 1]]
      BY <1>3, <1>12, <2>1, <3>2
    <3> QED
      BY <1>3, <2>1, <2>2, <3>1, <3>3
  <2> QED
    BY <1>1, <2>1, <2>3, <2>4, <2>5
<1>19. number - 1 \in Nat
  BY <1>1
<1>20. Joined(number - 1, ch, head', next')
  BY <1>15, <1>17, <1>18 DEF Joined
<1>21. Chain' = ch
  BY <1>2, <1>16, <1>19, <1>20, ChainAfter
<1>22. Places' = 1 .. number - 1
  BY <1>2 DEF Places
<1>23. \A i \in Places' : Later(p, i) \in Places /\ Chain'[i] = Chain[Later(p, i)]
  BY <1>3, <1>14, <1>21, <1>22
<1>24. (p < number => tail' = tail) /\ (number = 1 => head' = NULL /\ tail' = NULL)
  BY <1>1, <1>5, <1>6, <1>7
<1> QED
  BY <1>1, <1>2, <1>10, <1>11, <1>12, <1>13, <1>22, <1>23, <1>24

\* Where the cells are that stay.
LEMMA StaysAt ==
    ASSUME ListInv, NEW p \in 1 .. number, BeginDelete(p), NEW i \in 1 .. number
    PROVE  /\ i < p => i \in Places' /\ Chain'[i] = Chain[i]
           /\ i > p => i - 1 \in Places' /\ Chain'[i - 1] = Chain[i]
           /\ \A j \in Places' : Chain'[j] # Chain[p]
<1>1. /\ Linked = number /\ Places' = 1 .. number - 1
      /\ \A j \in Places' : Later(p, j) \in Places /\ Chain'[j] = Chain[Later(p, j)]
  BY DeleteEffect
<1>2. /\ number \in Nat /\ Places = 1 .. number
      /\ \A j, k \in Places : Chain[j] = Chain[k] => j = k
  BY <1>1, ChainFacts DEF ListInv, TypeOK
<1>3. i < p => i \in Places' /\ Later(p, i) = i
  BY <1>1, <1>2 DEF Later
<1>4. i > p => i - 1 \in Places' /\ Later(p, i - 1) = i
  BY <1>1, <1>2 DEF Later
<1>5. \A j \in Places' : Later(p, j) # p
  BY <1>1, <1>2 DEF Later
<1> QED
  BY <1>1, <1>2, <1>3, <1>4, <1>5

LEMMA DeleteKeepsStrays ==
    ASSUME ListInv, NEW p \in 1 .. number, BeginDelete(p), program = "ramdisk",
           NEW d \in Cells
    PROVE  PointsInto(d)'
<1>1. /\ Linked = number /\ Linked' = number - 1 /\ Places' = 1 .. number - 1
      /\ mutator' = [at |-> "cut", cell |-> Chain[p]] /\ mutator.at = "idle"
      /\ next'[Chain[p]] = next[Chain[p]]
      /\ p = 1 \/ d # Chain[p - 1] => next'[d] = next[d]
      /\ p > 1 /\ p < number => next'[Chain[p - 1]] = Chain[p + 1]
      /\ p > 1 /\ p = number => next'[Chain[p - 1]] = PointerOfLast(Chain[p - 1])
  BY DeleteEffect
<1>2. /\ number \in Nat
      /\ \A j, k \in 1 .. number : Chain[j] = Chain[k] => j = k
      /\ \A j \in 1 .. number - 1 : Chain[j + 1] = next[Chain[j]]
  BY <1>1, ChainFacts DEF ListInv, TypeOK
<1>3. next[d] = NULL \/ \E i \in 1 .. number - 1 : d = Chain[i] /\ next[d] = Chain[i + 1]
  BY <1>1 DEF ListInv, NoStrays, PointsInto
<1>4. CASE d = Chain[p]
  <2>1. CASE p = number
    <3>1. \A i \in 1 .. number - 1 : d # Chain[i]
      BY <1>2, <1>4, <2>1
    <3> QED
      BY <1>1, <1>3, <1>4, <3>1 DEF PointsInto
  <2>2. CASE p < number
    <3>1. p \in 1 .. number - 1 /\ p + 1 \in 1 .. number /\ p + 1 > p /\ (p + 1) - 1 = p
      BY <1>2, <2>2
    <3>2. p \in Places' /\ Chain'[p] = Chain[p + 1]
      BY <3>1, StaysAt
    <3>3. next'[d] = Chain'[p]
      BY <1>1, <1>2, <1>4, <3>1, <3>2
    <3> QED
      BY <1>1, <1>4, <3>2, <3>3 DEF PointsInto
  <2> QED
    BY <1>2, <2>1, <2>2
<1>5. CASE p > 1 /\ d = Chain[p - 1]
  <2>1. CASE p = number
    BY <1>1, <1>5, <2>1 DEF PointsInto, PointerOfLast
  <2>2. CASE p < number
    <3>1. /\ p - 1 \in 1 .. number /\ p - 1 < p /\ p + 1 \in 1 .. number /\ p + 1 > p
          /\ (p + 1) - 1 = p /\ p - 1 \in 1 .. Linked' - 1 /\ (p - 1) + 1 = p
      BY <1>1, <1>2, <1>5, <2>2
    <3>2. Chain'[p - 1] = Chain[p - 1] /\ Chain'[p] = Chain[p + 1]
      BY <3>1, StaysAt
    <3>3. d = Chain'[p - 1] /\ next'[d] = Chain'[(p - 1) + 1]
      BY <1>1, <1>5, <2>2, <3>1, <3>2
    <3> QED
      BY <3>1, <3>3 DEF PointsInto
  <2> QED
    BY <1>2, <2>1, <2>2
<1>6. CASE d # Chain[p] /\ ~(p > 1 /\ d = Chain[p - 1])
  <2>1. next'[d] = next[d]
    BY <1>1, <1>2, <1>6
  <2>2. CASE next[d] = NULL
    BY <2>1, <2>2 DEF PointsInto
  <2>3. ASSUME NEW i \in 1 .. number - 1, d = Chain[i], next[d] = Chain[i + 1]
        PROVE  PointsInto(d)'
    <3>1. i \in 1 .. number /\ i + 1 \in 1 .. number
      BY <1>2
    <3>2. i # p /\ i + 1 # p
      BY <1>2, <1>6, <2>3, <3>1
    <3>3. CASE i + 1 < p
      <4>1. i \in 1 .. Linked' - 1 /\ i < p
        BY <1>1, <1>2, <3>3
      <4>2. Chain'[i] = Chain[i] /\ Chain'[i + 1] = Chain[i + 1]
        BY <3>1, <3>3, <4>1, StaysAt
      <4> QED
        BY <2>1, <2>3, <4>1, <4>2 DEF PointsInto
    <3>4. CASE i > p
      <4>1. i - 1 \in 1 .. Linked' - 1 /\ i + 1 > p /\ (i + 1) - 1 = i /\ (i - 1) + 1 = i
        BY <1>1, <1>2, <3>4
      <4>2. Chain'[i - 1] = Chain[i] /\ Chain'[(i + 1) - 1] = Chain[i + 1]
        BY <3>1, <3>4, <4>1, StaysAt
      <4>3. d = Chain'[i - 1] /\ next'[d] = Chain'[(i - 1) + 1]
        BY <2>1, <2>3, <4>1, <4>2
      <4> QED
        BY <4>1, <4>3 DEF PointsInto
    <3> QED
      BY <1>2, <3>2, <3>3, <3>4
  <2> QED
    BY <1>3, <2>2, <2>3
<1> QED
  BY <1>4, <1>5, <1>6

LEMMA DeleteKeepsList ==
    ASSUME ListInv, NEW p \in 1 .. number, BeginDelete(p)
    PROVE  ListInv'
<1>1. /\ Linked = number /\ Linked' = number - 1 /\ Places' = 1 .. number - 1
      /\ \A i \in Places' : Later(p, i) \in Places /\ Chain'[i] = Chain[Later(p, i)]
      /\ mutator' = [at |-> "cut", cell |-> Chain[p]]
      /\ \A d \in Cells : p = 1 \/ d # Chain[p - 1] => next'[d] = next[d]
      /\ p > 1 /\ p = number =>
            next'[Chain[p - 1]] = PointerOfLast(Chain[p - 1]) /\ tail' = Chain[p - 1]
      /\ p < number => tail' = tail
      /\ number = 1 => head' = NULL /\ tail' = NULL
      /\ next' \in [Cells -> Pointers]
      /\ head' \in Pointers /\ tail' \in Pointers
  BY DeleteEffect
<1>2. /\ TypeOK /\ ChainIsSound /\ ChainEnds /\ NoStrays /\ mutator.at = "idle"
      /\ number \in Nat /\ number' = number /\ program' = program
      /\ data' = data /\ returned' = data[Chain[p]]
      /\ walk' = walk /\ Observe
  BY DEF ListInv, TypeOK, BeginDelete, MayChange
<1>3. /\ Places = 1 .. number
      /\ \A i \in Places : Chain[i] \in Cells /\ data[Chain[i]] \in Items
      /\ \A i, j \in Places : Chain[i] = Chain[j] => i = j
      /\ \A i, j \in Places : data[Chain[i]] = data[Chain[j]] => i = j
  BY <1>1, <1>2, ChainFacts
<1>4. TypeOK'
  <2>1. mutator' \in [at : {"idle", "count", "cut", "discount"}, cell : Pointers]
    BY <1>1, <1>3 DEF Pointers
  <2>2. returned' \in Items \cup {NULL}
    BY <1>2, <1>3
  <2> QED
    BY <1>1, <1>2, <2>1, <2>2, ObserveEffect DEF TypeOK, Pointers
<1>5. ChainIsSound'
  <2>1. ASSUME NEW i \in Places'
        PROVE  Chain'[i] \in Cells /\ data[Chain'[i]] \in Items
    BY <1>1, <1>3
  <2>2. ASSUME NEW i \in Places', NEW j \in Places', data[Chain'[i]] = data[Chain'[j]]
        PROVE  i = j
    <3>1. Later(p, i) = Later(p, j)
      BY <1>1, <1>3, <2>2
    <3> QED
      BY <1>1, <1>2, <3>1 DEF Later
  <2>3. Linked' \in Nat
    BY <1>1, <1>2
  <2> QED
    BY <1>2, <2>1, <2>2, <2>3 DEF ChainIsSound
<1>6. ChainEnds'
  <2>1. CASE number = 1
    BY <1>1, <2>1 DEF ChainEnds
  <2>2. CASE number > 1 /\ p = number
    <3>1. p - 1 \in 1 .. number /\ p - 1 < p /\ p > 1 /\ Linked' = p - 1 /\ Linked' # 0
      BY <1>1, <1>2, <2>2
    <3>2. Chain'[p - 1] = Chain[p - 1]
      BY <3>1, StaysAt
    <3>3. tail' = Chain'[Linked'] /\ next'[tail'] = PointerOfLast(Chain[p - 1])
      BY <1>1, <2>2, <3>1, <3>2
    <3> QED
      BY <1>2, <3>1, <3>3 DEF ChainEnds, PointerOfLast
  <2>3. CASE p < number
    <3>1. number \in 1 .. number /\ number > p /\ Linked' # 0 /\ Linked = number /\ number # 0
      BY <1>1, <1>2, <2>3
    <3>2. Chain'[number - 1] = Chain[number]
      BY <3>1, StaysAt
    <3>3. tail = Chain[number] /\ (program = "ramdisk" => next[tail] = NULL)
      BY <1>2, <3>1 DEF ChainEnds
    <3>4. p = 1 \/ Chain[number] # Chain[p - 1]
      <4>1. p > 1 => p - 1 \in 1 .. number /\ p - 1 # number
        BY <1>2, <2>3
      <4> QED
        BY <1>3, <3>1, <4>1
    <3>5. next'[tail] = next[tail]
      BY <1>1, <1>3, <3>1, <3>3, <3>4
    <3>6. tail' = tail
      BY <1>1, <2>3
    <3> QED
      BY <1>1, <1>2, <3>1, <3>2, <3>3, <3>5, <3>6 DEF ChainEnds
  <2> QED
    BY <1>2, <2>1, <2>2, <2>3
<1>7. Pending'
  <2>1. \A j \in Places' : Chain'[j] # Chain[p]
    BY StaysAt
  <2> QED
    BY <1>1, <1>3, <2>1 DEF Pending, Apart
<1>8. NoStrays'
  BY <1>2, DeleteKeepsStrays DEF NoStrays
<1> QED
  BY <1>4, <1>5, <1>6, <1>7, <1>8 DEF ListInv

-----------------------------------------------------------------------------
(***************************************************************************)
(* What each call does to the walks that are under way.                    *)
(***************************************************************************)
WalkTypes(s) ==
    /\ s.size \in 0 .. MaxLength /\ s.i \in 0 .. MaxLength /\ s.lp \in Pointers
    /\ s.target \in Items \cup {NULL}

\* Wherever the element is that walk w looks for, it is there after the step, not
\* later on the list, and w is still on its way to it, unless it is gone.
StillComing(w) ==
    \A q \in Places : At(walk[w].target, q) /\ Contains(Content', walk[w].target) =>
        \E r \in Places' : /\ r <= q
                           /\ At(walk[w].target, r)'
                           /\ OnItsWay(walk[w], q) => OnItsWay(walk[w], r)'
\* Unless a deletion meets w nothing that was on the list has moved.
Grows(w) ==
    \/ seen[w].deletion \/ Deleting'
    \/ number <= number' /\ \A i \in 1 .. number : Chain'[i] = Chain[i]
\* What a deletion takes away while w is there, w has seen present.
Beheld(w) ==
    Deleting' /\ walk[w].lp = mutator'.cell /\ data'[mutator'.cell] = walk[w].target
        => seen[w].present

LEMMA TypesOfWalk ==
    ASSUME TypeOK, NEW w \in Walkers
    PROVE  WalkTypes(walk[w])
BY DEF TypeOK, WalkTypes

LEMMA WalkKeeps ==
    ASSUME ListInv, walk' = walk, Observe, program' = program, program = "ramdisk",
           number' \in Nat, ChainIsSound', NEW w \in Walkers, walk[w].at # "idle",
           WalkIsSound(walk[w], seen[w]), StillComing(w), Grows(w), Beheld(w)
    PROVE  WalkIsSound(walk[w], seen[w])'
<1> DEFINE s == walk[w]
           e == seen[w]
           f == seen'[w]
           x == walk[w].target
<1>1. /\ f.present <=> e.present \/ Holds(x)'
      /\ f.absent <=> e.absent \/ ~Contains(Content', x)
      /\ f.deletion <=> e.deletion \/ Deleting'
  BY ObserveEffect DEF ListInv
<1>2. WalkTypes(s) /\ number \in Nat /\ Places = 1 .. Linked /\ Linked \in Nat
      /\ Places' = 1 .. Linked' /\ Linked' \in Nat
  BY TypesOfWalk, ChainFacts DEF ListInv, TypeOK, ChainIsSound, Places
<1>3. Noticed(s, e)'
  BY <1>1 DEF Noticed, Beheld
<1>4. ASSUME s.at = "head" PROVE f.absent \/ \E q \in Places' : At(x, q)' /\ q <= s.size
  <2>1. e.absent \/ \E q \in Places : At(x, q) /\ q <= s.size
    BY <1>4 DEF WalkIsSound
  <2>2. ASSUME ~f.absent PROVE \E q \in Places' : At(x, q)' /\ q <= s.size
    <3>1. PICK q \in Places : At(x, q) /\ q <= s.size
      BY <1>1, <2>1, <2>2
    <3>2. PICK r \in Places' : r <= q /\ At(x, r)'
      BY <1>1, <2>2, <3>1 DEF StillComing
    <3>3. r <= s.size
      BY <1>2, <3>1, <3>2 DEF WalkTypes
    <3> QED
      BY <3>2, <3>3
  <2> QED
    BY <2>2
<1>5. ASSUME s.at = "loop" PROVE f.absent \/ \E q \in Places' : At(x, q)' /\ OnItsWay(s, q)'
  <2>1. e.absent \/ \E q \in Places : At(x, q) /\ OnItsWay(s, q)
    BY <1>5 DEF WalkIsSound
  <2>2. ASSUME ~f.absent PROVE \E q \in Places' : At(x, q)' /\ OnItsWay(s, q)'
    BY <1>1, <2>1, <2>2 DEF StillComing
  <2> QED
    BY <2>2
<1>6. ASSUME s.at = "head" PROVE f.deletion \/ s.size <= number'
  <2>1. e.deletion \/ s.size <= number
    BY <1>6 DEF WalkIsSound
  <2> QED
    BY <1>1, <1>2, <2>1 DEF Grows, WalkTypes
<1>7. ASSUME s.at = "loop"
      PROVE  f.deletion \/ (s.size <= number' /\ (s.i < s.size => s.lp = Chain'[s.i + 1]))
  <2>1. e.deletion \/ (s.size <= number /\ (s.i < s.size => s.lp = Chain[s.i + 1]))
    BY <1>7 DEF WalkIsSound
  <2>2. ASSUME ~f.deletion
        PROVE  s.size <= number' /\ (s.i < s.size => s.lp = Chain'[s.i + 1])
    <3>1. /\ s.size <= number /\ (s.i < s.size => s.lp = Chain[s.i + 1])
          /\ number <= number' /\ \A i \in 1 .. number : Chain'[i] = Chain[i]
      BY <1>1, <2>1, <2>2 DEF Grows
    <3>2. s.i < s.size => s.i + 1 \in 1 .. number
      BY <1>2, <3>1 DEF WalkTypes
    <3>3. s.size <= number'
      BY <1>2, <3>1 DEF WalkTypes
    <3> QED
      BY <3>1, <3>2, <3>3
  <2> QED
    BY <2>2
<1>8. /\ s.lp # NULL => s.at \in {"loop", "crashed"}
      /\ s.at = "head" => s.i = 0
      /\ s.at = "loop" => s.i <= s.size
      /\ s.at = "size" => s.i = 0
      /\ s.found => s.at = "done"
      /\ s.at = "done" => IF s.found THEN e.present \/ s.freed ELSE e.absent
      /\ s.at = "crashed" \/ s.freed => e.deletion
  BY DEF WalkIsSound
<1>9. s.at = "done" => IF s.found THEN f.present \/ s.freed ELSE f.absent
  BY <1>1, <1>8
<1>10. s.at = "crashed" \/ s.freed => f.deletion
  BY <1>1, <1>8
<1>11. walk'[w] = s /\ program' = "ramdisk"
  OBVIOUS
<1> HIDE DEF s, e, f, x
<1> QED
  BY <1>3, <1>4, <1>5, <1>6, <1>7, <1>8, <1>9, <1>10, <1>11 DEF WalkIsSound, s, e, f, x

\* Each mutating step, for a walk that is under way beside it.
LEMMA AppendMeetsWalk ==
    ASSUME ListInv, NEW c \in Cells, NEW x \in Items, BeginAppend(c, x),
           NEW w \in Walkers, WalkIsSound(walk[w], seen[w])
    PROVE  StillComing(w) /\ Grows(w) /\ Beheld(w)
<1> DEFINE s == walk[w]
<1>1. /\ SameChain /\ Linked = number /\ s.lp # c
      /\ \A d \in Cells : d # c => data'[d] = data[d]
      /\ \A d \in Cells : d # c /\ (number = 0 \/ d # tail) => next'[d] = next[d]
      /\ number # 0 => tail = Chain[number]
      /\ Apart(c)
  BY AppendEffect
<1>2. /\ ChainIsSound /\ mutator.at = "idle" /\ number \in Nat
      /\ mutator' = [at |-> "count", cell |-> c] /\ number' = number /\ walk' = walk
  BY DEF ListInv, TypeOK, BeginAppend, MayChange
<1>3. Places = 1 .. number /\ \A i \in Places : Chain[i] \in Cells /\ Chain[i] # c
  BY <1>1, <1>2, ChainFacts DEF Apart
<1>4. ASSUME NEW q \in Places, OnItsWay(s, q)
      PROVE  OnItsWay(s, q)'
  <2>1. CASE s.lp = NULL /\ s.i < s.size
    BY <1>2, <2>1 DEF OnItsWay
  <2>2. CASE \E k \in 1 .. q : s.lp = Chain[k] /\ s.i + (q - k) < s.size
    BY <1>1, <1>2, <2>2 DEF OnItsWay, SameChain
  <2>3. CASE Apart(s.lp) /\ next[s.lp] = NULL /\ s.i + 1 < s.size
    <3>1. number # 0 => s.lp # tail
      BY <1>1, <1>2, <1>3, <2>3 DEF Apart
    <3>2. next'[s.lp] = NULL
      BY <1>1, <2>3, <3>1 DEF Apart
    <3>3. Apart(s.lp)'
      BY <1>1, <1>2, <2>3 DEF Apart, SameChain
    <3> QED
      BY <1>1, <1>2, <2>3, <3>2, <3>3 DEF OnItsWay
  <2> QED
    BY <1>2, <1>4, <2>1, <2>2, <2>3 DEF OnItsWay
<1>5. StillComing(w)
  <2>1. ASSUME NEW q \in Places, At(s.target, q)
        PROVE  q \in Places' /\ q <= q /\ At(s.target, q)'
    <3>1. q \in Places' /\ data'[Chain'[q]] = data[Chain[q]]
      BY <1>1, <1>3 DEF SameChain
    <3> QED
      BY <1>1, <1>2, <1>3, <2>1, <3>1 DEF At
  <2> QED
    BY <1>2, <1>4, <2>1 DEF StillComing
<1>6. Grows(w)
  BY <1>1, <1>2 DEF Grows, SameChain
<1>7. Beheld(w)
  BY <1>2 DEF Beheld, Deleting
<1> QED
  BY <1>5, <1>6, <1>7

LEMMA CountMeetsWalk ==
    ASSUME ListInv, Count, NEW w \in Walkers, WalkIsSound(walk[w], seen[w])
    PROVE  StillComing(w) /\ Grows(w) /\ Beheld(w)
<1> DEFINE s == walk[w]
<1>1. /\ Linked = number /\ Places' = 1 .. number + 1
      /\ Chain'[number + 1] = mutator.cell
      /\ \A i \in Places : Chain'[i] = Chain[i] /\ i \in Places'
      /\ \A i \in Places' : i \in Places \/ i = number + 1
  BY CountEffect
<1>2. /\ mutator.at = "count" /\ number \in Nat /\ number' = number + 1
      /\ mutator' = [at |-> "idle", cell |-> NULL]
      /\ data' = data /\ next' = next /\ walk' = walk /\ Places = 1 .. number
  BY <1>1 DEF ListInv, TypeOK, Count, Places
<1>3. ASSUME NEW q \in Places, OnItsWay(s, q)
      PROVE  OnItsWay(s, q)'
  <2>1. CASE s.lp = NULL /\ s.i < s.size
    BY <1>2, <2>1 DEF OnItsWay
  <2>2. CASE \E k \in 1 .. q : s.lp = Chain[k] /\ s.i + (q - k) < s.size
    <3>1. PICK k \in 1 .. q : s.lp = Chain[k] /\ s.i + (q - k) < s.size
      BY <2>2
    <3>2. k \in Places
      BY <1>2, <3>1
    <3>3. s.lp = Chain'[k]
      BY <1>1, <3>1, <3>2
    <3> QED
      BY <1>2, <3>1, <3>3 DEF OnItsWay
  <2>3. CASE /\ Apart(s.lp) /\ next[s.lp] = NULL /\ s.i + 1 < s.size
             /\ s.lp # mutator.cell
    <3>1. Apart(s.lp)'
      BY <1>1, <1>2, <2>3 DEF Apart
    <3> QED
      BY <1>2, <2>3, <3>1 DEF OnItsWay
  <2> QED
    BY <1>2, <1>3, <2>1, <2>2, <2>3 DEF OnItsWay
<1>4. StillComing(w)
  <2>1. ASSUME NEW q \in Places, At(s.target, q)
        PROVE  q \in Places' /\ q <= q /\ At(s.target, q)'
    BY <1>1, <1>2, <2>1 DEF At
  <2> QED
    BY <1>2, <1>3, <2>1 DEF StillComing
<1>5. Grows(w)
  BY <1>1, <1>2 DEF Grows
<1>6. Beheld(w)
  BY <1>2 DEF Beheld, Deleting
<1> QED
  BY <1>4, <1>5, <1>6

LEMMA CutMeetsWalk ==
    ASSUME ListInv, Cut, NEW w \in Walkers, WalkIsSound(walk[w], seen[w])
    PROVE  StillComing(w) /\ Grows(w) /\ Beheld(w)
<1> DEFINE s == walk[w]
<1>1. /\ SameChain /\ next'[mutator.cell] = NULL /\ Apart(mutator.cell)
      /\ \A d \in Cells : d # mutator.cell => next'[d] = next[d]
  BY CutEffect
<1>2. /\ mutator.at = "cut" /\ mutator'.at = "discount" /\ mutator'.cell = mutator.cell
      /\ data' = data /\ walk' = walk /\ number \in Nat
  BY DEF ListInv, TypeOK, Cut
<1>3. WalkTypes(s) /\ Places \in SUBSET Nat
  BY TypesOfWalk DEF ListInv, Places, ChainIsSound
<1>4. ASSUME NEW q \in Places, OnItsWay(s, q)
      PROVE  OnItsWay(s, q)'
  <2>1. CASE s.lp = NULL /\ s.i < s.size
    BY <1>2, <2>1 DEF OnItsWay
  <2>2. CASE \E k \in 1 .. q : s.lp = Chain[k] /\ s.i + (q - k) < s.size
    BY <1>1, <1>2, <2>2 DEF OnItsWay, SameChain
  <2>3. CASE Apart(s.lp) /\ s.i + 1 < s.size /\ (s.lp = mutator.cell \/ next[s.lp] = NULL)
    <3>1. next'[s.lp] = NULL
      BY <1>1, <2>3 DEF Apart
    <3>2. Apart(s.lp)'
      BY <1>1, <1>2, <2>3 DEF Apart, SameChain
    <3> QED
      BY <1>2, <2>3, <3>1, <3>2 DEF OnItsWay
  <2>4. ASSUME NEW k \in 1 .. q, s.i + 1 + (q - k) < s.size
        PROVE  s.i + 1 < s.size
    BY <1>3, <2>4 DEF WalkTypes
  <2> QED
    BY <1>1, <1>2, <1>4, <2>1, <2>2, <2>3, <2>4 DEF OnItsWay
<1>5. StillComing(w)
  <2>1. ASSUME NEW q \in Places, At(s.target, q)
        PROVE  q \in Places' /\ q <= q /\ At(s.target, q)'
    BY <1>1, <1>2, <1>3, <2>1 DEF At, SameChain
  <2> QED
    BY <1>2, <1>4, <2>1 DEF StillComing
<1>6. Grows(w)
  BY <1>2 DEF Grows, Deleting
<1>7. Beheld(w)
  BY <1>2 DEF Beheld, Deleting, WalkIsSound, Noticed
<1> QED
  BY <1>5, <1>6, <1>7

LEMMA DiscountMeetsWalk ==
    ASSUME ListInv, Discount, NEW w \in Walkers, WalkIsSound(walk[w], seen[w])
    PROVE  StillComing(w) /\ Grows(w) /\ Beheld(w)
<1> DEFINE s == walk[w]
<1>1. SameChain
  BY DiscountEffect
<1>2. /\ mutator.at = "discount" /\ mutator' = [at |-> "idle", cell |-> NULL]
      /\ data' = data /\ next' = next /\ walk' = walk
  BY DEF Discount
<1>3. ASSUME NEW q \in Places, OnItsWay(s, q)
      PROVE  OnItsWay(s, q)'
  BY <1>1, <1>2, <1>3 DEF OnItsWay, Apart, SameChain
<1>4. StillComing(w)
  <2>1. ASSUME NEW q \in Places, At(s.target, q)
        PROVE  q \in Places' /\ q <= q /\ At(s.target, q)'
    BY <1>1, <1>2, <2>1 DEF At, SameChain, Places
  <2> QED
    BY <1>2, <1>3, <2>1 DEF StillComing
<1>5. Grows(w)
  BY <1>2 DEF Grows, Deleting, WalkIsSound, Noticed
<1>6. Beheld(w)
  BY <1>2 DEF Beheld, Deleting
<1> QED
  BY <1>4, <1>5, <1>6

LEMMA DeleteMeetsWalk ==
    ASSUME ListInv, NEW p \in 1 .. number, BeginDelete(p),
           NEW w \in Walkers, WalkIsSound(walk[w], seen[w])
    PROVE  StillComing(w) /\ Grows(w) /\ Beheld(w)
<1> DEFINE s == walk[w]
<1>1. /\ Linked = number /\ Linked' = number - 1 /\ Places' = 1 .. number - 1
      /\ \A i \in Places' : Later(p, i) \in Places /\ Chain'[i] = Chain[Later(p, i)]
      /\ mutator' = [at |-> "cut", cell |-> Chain[p]] /\ mutator.at = "idle"
      /\ next'[Chain[p]] = next[Chain[p]]
      /\ \A d \in Cells : p = 1 \/ d # Chain[p - 1] => next'[d] = next[d]
  BY DeleteEffect
<1>2. /\ number \in Nat /\ data' = data /\ walk' = walk /\ ChainIsSound
      /\ WalkTypes(s)
  BY TypesOfWalk DEF ListInv, TypeOK, BeginDelete
<1>3. /\ Places = 1 .. number
      /\ \A i \in Places : Chain[i] \in Cells
      /\ \A i \in 1 .. number - 1 : Chain[i + 1] = next[Chain[i]]
      /\ \A i, j \in Places : data[Chain[i]] = data[Chain[j]] => i = j
  BY <1>1, <1>2, ChainFacts
<1>4. ASSUME NEW r \in Places', OnItsWay(s, Later(p, r))
      PROVE  OnItsWay(s, r)'
  <2> DEFINE q == Later(p, r)
  <2>1. /\ r \in 1 .. number - 1 /\ q \in 1 .. number
        /\ (r < p /\ q = r) \/ (r >= p /\ q = r + 1)
    BY <1>1, <1>2, <1>3 DEF Later
  <2> HIDE DEF q
  <2>2. CASE s.lp = NULL /\ s.i < s.size
    BY <1>2, <2>2 DEF OnItsWay
  <2>3. ASSUME NEW k \in 1 .. q, s.lp = Chain[k], s.i + (q - k) < s.size
        PROVE  OnItsWay(s, r)'
    <3>0. k \in 1 .. number
      BY <1>2, <2>1
    <3>1. CASE k < p
      <4>1. k \in 1 .. r /\ s.i + (r - k) < s.size
        BY <1>2, <2>1, <2>3, <3>1 DEF WalkTypes
      <4>2. Chain'[k] = Chain[k]
        BY <3>0, <3>1, StaysAt
      <4> QED
        BY <1>2, <2>3, <4>1, <4>2 DEF OnItsWay
    <3>2. CASE k > p
      <4>1. k - 1 \in 1 .. r /\ s.i + (r - (k - 1)) < s.size
        BY <1>2, <2>1, <2>3, <3>2 DEF WalkTypes
      <4>2. Chain'[k - 1] = Chain[k]
        BY <3>0, <3>2, StaysAt
      <4>3. s.lp = Chain'[k - 1]
        BY <2>3, <4>2
      <4> QED
        BY <1>2, <4>1, <4>3 DEF OnItsWay
    <3>3. CASE k = p
      <4>1. q = r + 1 /\ p \in 1 .. r
        BY <2>1, <3>3
      <4>2. /\ p \in 1 .. number - 1 /\ p + 1 \in 1 .. number /\ p + 1 > p /\ (p + 1) - 1 = p
        BY <1>2, <2>1, <4>1
      <4>3. Chain'[(p + 1) - 1] = Chain[p + 1]
        BY <4>2, StaysAt
      <4>4. next'[s.lp] = Chain'[p] /\ s.lp = mutator'.cell /\ mutator'.at = "cut"
        BY <1>1, <1>3, <2>3, <3>3, <4>2, <4>3
      <4>5. s.i + 1 + (r - p) < s.size
        BY <1>2, <2>1, <2>3, <3>3, <4>1 DEF WalkTypes
      <4> QED
        BY <1>2, <4>1, <4>4, <4>5 DEF OnItsWay
    <3> QED
      BY <3>0, <3>1, <3>2, <3>3
  <2>4. CASE Apart(s.lp) /\ next[s.lp] = NULL /\ s.i + 1 < s.size
    <3>1. Apart(s.lp)'
      BY <1>1, <1>2, <2>4 DEF Apart
    <3>2. p = 1 \/ s.lp # Chain[p - 1]
      <4>1. p # 1 => p - 1 \in Places
        BY <1>2, <1>3
      <4> QED
        BY <2>4, <4>1 DEF Apart
    <3>3. next'[s.lp] = NULL
      BY <1>1, <2>4, <3>2 DEF Apart
    <3> QED
      BY <1>1, <1>2, <2>4, <3>1, <3>3 DEF OnItsWay
  <2> QED
    BY <1>1, <1>4, <2>2, <2>3, <2>4 DEF OnItsWay, q
<1>5. StillComing(w)
  <2>1. ASSUME NEW q \in Places, At(s.target, q), Contains(Content', s.target)
        PROVE  \E r \in Places' : r <= q /\ At(s.target, r)' /\ Later(p, r) = q
    <3>1. PICK r \in Places' : At(s.target, r)'
      <4>1. ChainIsSound'
        BY DeleteKeepsList DEF ListInv
      <4> QED
        BY <1>2, <2>1, <4>1, ContentIsNext
    <3>2. data[Chain[Later(p, r)]] = s.target /\ Later(p, r) \in Places
      BY <1>1, <1>2, <3>1 DEF At
    <3>3. Later(p, r) = q
      BY <1>3, <2>1, <3>2 DEF At
    <3>4. r <= q
      BY <1>1, <1>2, <1>3, <3>3 DEF Later
    <3> QED
      BY <3>1, <3>3, <3>4
  <2> SUFFICES ASSUME NEW q \in Places, At(s.target, q), Contains(Content', s.target)
               PROVE  \E r \in Places' : /\ r <= q
                                         /\ At(s.target, r)'
                                         /\ OnItsWay(s, q) => OnItsWay(s, r)'
    BY DEF StillComing
  <2>2. PICK r \in Places' : r <= q /\ At(s.target, r)' /\ Later(p, r) = q
    BY <2>1
  <2>3. OnItsWay(s, q) => OnItsWay(s, r)'
    BY <1>4, <2>2
  <2> QED
    BY <2>2, <2>3
<1>6. Grows(w)
  BY <1>1 DEF Grows, Deleting
<1>7. Beheld(w)
  <2> SUFFICES ASSUME s.lp = Chain[p], data[Chain[p]] = s.target
               PROVE  seen[w].present
    BY <1>1, <1>2 DEF Beheld
  <2>1. Contains(Content, s.target)
    BY <1>2, <1>3, ContentIs DEF At
  <2> QED
    BY <2>1 DEF WalkIsSound, Noticed, Holds
<1> QED
  BY <1>5, <1>6, <1>7

-----------------------------------------------------------------------------
(***************************************************************************)
(* All walks together, and the steps of a walk.                            *)
(***************************************************************************)
WalksInv ==
    /\ \A w \in Walkers : walk[w].at # "idle" => WalkIsSound(walk[w], seen[w])
    /\ \A w \in Walkers : walk[w].at = "idle" => walk[w] = NoWalk

LEMMA InvIs == IInv <=> ListInv /\ WalksInv
BY DEF IInv, ListInv, WalksInv

LEMMA InvIsNext == IInv' <=> ListInv' /\ WalksInv'
BY DEF IInv, ListInv, WalksInv

\* The walks that are under way when the list is changed.
Meets(w) == program = "ramdisk" /\ StillComing(w) /\ Grows(w) /\ Beheld(w)

LEMMA ChangeKeepsWalks ==
    ASSUME ListInv, ListInv', WalksInv, walk' = walk, Observe, program' = program,
           \A w \in Walkers : walk[w].at # "idle" => Meets(w)
    PROVE  WalksInv'
<1>1. number' \in Nat /\ ChainIsSound'
  BY DEF ListInv, TypeOK
<1>2. ASSUME NEW w \in Walkers, walk[w].at # "idle"
      PROVE  WalkIsSound(walk[w], seen[w])'
  BY <1>1, <1>2, WalkKeeps DEF Meets, WalksInv
<1>3. \A w \in Walkers : walk[w].at = "idle" => walk[w] = NoWalk
  BY DEF WalksInv
<1> QED
  BY <1>2, <1>3 DEF WalksInv

\* A step that changes walk w only.
Stays == program' = program /\ UNCHANGED list /\ mutator' = mutator
Moves(w, s, e) ==
    /\ Stays /\ returned' = returned
    /\ walk' = [walk EXCEPT ![w] = s]
    /\ seen' = [seen EXCEPT ![w] = e]

LEMMA ListStays ==
    ASSUME Stays
    PROVE  /\ SameChain /\ Content' = Content
           /\ data' = data /\ next' = next /\ head' = head /\ tail' = tail /\ number' = number
<1>1. data' = data /\ next' = next /\ head' = head /\ tail' = tail /\ number' = number
  BY DEF Stays, list
<1>2. Linked' = Linked
  BY <1>1 DEF Stays, Linked, Deleting
<1>3. Chain' = Chain
  BY <1>1, <1>2, ChainIsPath, ChainIsPathNext
<1> QED
  BY <1>1, <1>2, <1>3 DEF SameChain, Places, Content

LEMMA WalkStays ==
    ASSUME Stays, NEW w \in Walkers, NEW s, NEW e, walk'[w] = s, seen'[w] = e,
           WalkIsSound(s, e)
    PROVE  WalkIsSound(walk[w], seen[w])'
<1>1. /\ SameChain /\ Content' = Content /\ program' = program /\ mutator' = mutator
      /\ data' = data /\ next' = next /\ head' = head /\ tail' = tail /\ number' = number
  BY ListStays DEF Stays
<1>2. \A x : Holds(x)' <=> Holds(x)
  BY <1>1 DEF Holds
<1>3. Deleting' <=> Deleting
  BY <1>1 DEF Deleting
<1>4. \A q : At(s.target, q)' <=> At(s.target, q)
  BY <1>1 DEF At, SameChain
<1>5. \A q : OnItsWay(s, q)' <=> OnItsWay(s, q)
  BY <1>1 DEF OnItsWay, Apart, SameChain
<1>6. Noticed(walk[w], seen[w])'
  BY <1>1, <1>2, <1>3 DEF WalkIsSound, Noticed
<1>7. s.at = "head" =>
        e.absent \/ \E q \in Places' : At(walk[w].target, q)' /\ q <= walk'[w].size
  BY <1>1, <1>4 DEF WalkIsSound, SameChain
<1>8. s.at = "loop" =>
        e.absent \/ \E q \in Places' : At(walk[w].target, q)' /\ OnItsWay(walk[w], q)'
  BY <1>1, <1>4, <1>5 DEF WalkIsSound, SameChain
<1>9. /\ s.at = "head" => (e.deletion \/ s.size <= number) /\ s.i = 0
      /\ s.at = "loop" =>
            e.deletion \/ (s.size <= number /\ (s.i < s.size => s.lp = Chain'[s.i + 1]))
  BY <1>1 DEF WalkIsSound, SameChain
<1>10. /\ s.lp # NULL => s.at \in {"loop", "crashed"}
       /\ program = "ramdisk" \/ (program = "list" /\ mutator.at = "idle")
       /\ s.at = "loop" => s.i <= s.size
       /\ s.at = "size" => s.i = 0
       /\ s.found => s.at = "done"
       /\ s.at = "done" => IF s.found THEN e.present \/ s.freed ELSE e.absent
       /\ s.at = "crashed" \/ s.freed => e.deletion
  BY DEF WalkIsSound
<1> QED
  BY <1>1, <1>6, <1>7, <1>8, <1>9, <1>10 DEF WalkIsSound

WalkType == [at : {"idle", "size", "head", "loop", "done", "crashed"},
             target : Items \cup {NULL}, size : 0 .. MaxLength,
             i : 0 .. MaxLength, lp : Pointers, found : BOOLEAN, freed : BOOLEAN]
SeenType == [present : BOOLEAN, absent : BOOLEAN, deletion : BOOLEAN]

LEMMA MoveKeeps ==
    ASSUME ListInv, WalksInv, NEW w \in Walkers, NEW s \in WalkType, NEW e \in SeenType,
           Moves(w, s, e), s.at # "idle" => WalkIsSound(s, e), s.at = "idle" => s = NoWalk
    PROVE  ListInv' /\ WalksInv'
<1>1. /\ SameChain /\ Content' = Content /\ program' = program /\ mutator' = mutator
      /\ data' = data /\ next' = next /\ head' = head /\ tail' = tail /\ number' = number
  BY ListStays DEF Moves, Stays
<1>2. /\ walk' = [walk EXCEPT ![w] = s] /\ seen' = [seen EXCEPT ![w] = e]
      /\ returned' = returned /\ Stays
      /\ walk \in [Walkers -> WalkType] /\ seen \in [Walkers -> SeenType]
  BY DEF Moves, ListInv, TypeOK, WalkType, SeenType
<1>3. /\ walk'[w] = s /\ seen'[w] = e
      /\ \A v \in Walkers : v # w => walk'[v] = walk[v] /\ seen'[v] = seen[v]
      /\ walk' \in [Walkers -> WalkType] /\ seen' \in [Walkers -> SeenType]
  BY <1>2
<1>4. TypeOK'
  BY <1>1, <1>2, <1>3 DEF ListInv, TypeOK, WalkType, SeenType, Pointers
<1>5. ChainIsSound' /\ ChainEnds'
  BY <1>1 DEF ListInv, SameChain, ChainIsSound, ChainEnds
<1>6. Pending'
  BY <1>1 DEF ListInv, SameChain, Pending, Apart
<1>7. NoStrays'
  BY <1>1 DEF ListInv, SameChain, NoStrays, PointsInto
<1>8. ASSUME NEW v \in Walkers, walk'[v].at # "idle"
      PROVE  WalkIsSound(walk[v], seen[v])'
  <2>1. CASE v = w
    BY <1>2, <1>3, <1>8, <2>1, WalkStays
  <2>2. CASE v # w
    BY <1>2, <1>3, <1>8, <2>2, WalkStays DEF WalksInv
  <2> QED
    BY <2>1, <2>2
<1>9. ASSUME NEW v \in Walkers, walk'[v].at = "idle"
      PROVE  walk'[v] = NoWalk
  BY <1>3, <1>9 DEF WalksInv
<1>10. WalksInv'
  <2>1. NoWalk' = NoWalk
    BY DEF NoWalk
  <2> QED
    BY <1>8, <1>9, <2>1 DEF WalksInv
<1> QED
  BY <1>4, <1>5, <1>6, <1>7, <1>10 DEF ListInv

\* What the steps of a walk need to know of the list.
LEMMA WalkFacts ==
    ASSUME ListInv
    PROVE  /\ number \in Nat /\ Linked \in Nat /\ Places = 1 .. Linked /\ Linked <= number
           /\ ~Deleting => Linked = number
           /\ mutator.at # "idle" => mutator.cell \in Cells /\ mutator.cell # NULL /\ Apart(mutator.cell)
           /\ mutator.at = "idle" => mutator.cell = NULL
           /\ Deleting => mutator.at # "idle" /\ mutator.at # "count"
           /\ \A x : Contains(Content, x) <=> \E q \in Places : At(x, q)
           /\ Deleting /\ Linked = 0 => head = NULL
<1>1. /\ number \in Nat /\ ChainIsSound /\ ChainEnds /\ Pending
  BY DEF ListInv, TypeOK
<1>2. Linked \in Nat /\ Places = 1 .. Linked
  BY <1>1, ChainFacts
<1>3. Linked <= number /\ (~Deleting => Linked = number)
  BY <1>1, <1>2 DEF Linked
<1>4. mutator.at # "idle" => mutator.cell \in Cells /\ mutator.cell # NULL /\ Apart(mutator.cell)
  BY <1>1, NullIsApart DEF Pending, Apart
<1>5. mutator.at = "idle" => mutator.cell = NULL
  BY <1>1 DEF Pending
<1>6. Deleting => mutator.at # "idle" /\ mutator.at # "count"
  BY DEF Deleting
<1>7. \A x : Contains(Content, x) <=> \E q \in Places : At(x, q)
  BY <1>1, ContentIs
<1>8. Deleting /\ Linked = 0 => head = NULL
  BY <1>1, <1>6 DEF ChainEnds
<1> QED
  BY <1>1, <1>2, <1>3, <1>4, <1>5, <1>6, <1>7, <1>8

LEMMA BeginWalkKeeps ==
    ASSUME ListInv, WalksInv, NEW w \in Walkers, NEW x \in Items, BeginWalk(w, x)
    PROVE  ListInv' /\ WalksInv'
<1> DEFINE s == [NoWalk EXCEPT !.target = x,
                              !.at = IF program = "list" THEN "size"
                                     ELSE IF number = 0 THEN "done" ELSE "size"]
           a == Holds(x)
           b == ~Contains(Content, x)
           d == Deleting
           e == Witness(Unseen, a, b, d)
<1>1. program = "ramdisk" \/ (program = "list" /\ mutator.at = "idle")
  BY DEF BeginWalk
<1>2. Moves(w, s, e)
  <2>1. seen' = [seen EXCEPT ![w] = e]
    BY DEF BeginWalk
  <2>2. /\ walk' = [walk EXCEPT ![w] = s] /\ program' = program /\ mutator' = mutator
        /\ returned' = returned /\ UNCHANGED list
    BY DEF BeginWalk, Walk
  <2> HIDE DEF s, e
  <2> QED
    BY <2>1, <2>2 DEF Moves, Stays
<1>3. /\ s.at = "size" \/ (s.at = "done" /\ program # "list" /\ number = 0)
      /\ s.target = x /\ s.size = 0 /\ s.i = 0 /\ s.lp = NULL /\ s.found = FALSE /\ s.freed = FALSE
  BY DEF NoWalk
<1>4. s \in WalkType
  <2> DEFINE at == IF program = "list" THEN "size" ELSE IF number = 0 THEN "done" ELSE "size"
  <2>1. at \in {"idle", "size", "head", "loop", "done", "crashed"}
    OBVIOUS
  <2>2. NoWalk \in WalkType
    BY LengthAssumption DEF NoWalk, WalkType, Pointers
  <2> HIDE DEF at
  <2>3. [NoWalk EXCEPT !.target = x] \in WalkType
    BY <2>2 DEF WalkType
  <2>4. \A n \in WalkType : [n EXCEPT !.at = at] \in WalkType
    BY <2>1 DEF WalkType
  <2>5. [[NoWalk EXCEPT !.target = x] EXCEPT !.at = at] \in WalkType
    BY <2>3, <2>4
  <2>6. s = [[NoWalk EXCEPT !.target = x] EXCEPT !.at = at]
    BY DEF at
  <2> QED
    BY <2>5, <2>6
<1>5. ~e.deletion => ~d
  <2> HIDE DEF a, b, d
  <2> QED
    BY DEF Witness
<1>6. e \in SeenType /\ (a => e.present) /\ (b => e.absent) /\ (d => e.deletion)
  <2> HIDE DEF a, b, d
  <2> QED
    BY DEF Witness, Unseen, SeenType
<1> HIDE DEF s, e
<1>7. Noticed(s, e)
  BY <1>3, <1>6, WalkFacts DEF Noticed
<1>8. number = 0 => e.absent
  <2>1. number = 0 => b
    BY WalkFacts
  <2> QED
    BY <1>6, <2>1
<1>9. WalkIsSound(s, e)
  BY <1>1, <1>3, <1>7, <1>8 DEF WalkIsSound
<1>10. s.at # "idle"
  BY <1>3
<1> QED
  BY <1>2, <1>4, <1>6, <1>9, <1>10, MoveKeeps

\* The walk that moves.
LEMMA WalkerFacts ==
    ASSUME ListInv, WalksInv, NEW w \in Walkers, walk[w].at # "idle"
    PROVE  /\ walk[w] \in WalkType /\ seen[w] \in SeenType
           /\ WalkIsSound(walk[w], seen[w])
           /\ seen' = seen => seen' = [seen EXCEPT ![w] = seen[w]]
           /\ walk[w].size \in Nat /\ walk[w].i \in Nat
BY DEF ListInv, WalksInv, TypeOK, WalkType, SeenType

LEMMA ReadSizeKeeps ==
    ASSUME ListInv, WalksInv, NEW w \in Walkers, ReadSize(w)
    PROVE  ListInv' /\ WalksInv'
<1> DEFINE u == walk[w]
           e == seen[w]
           s == [u EXCEPT !.size = number, !.at = "head"]
<1>1. u.at = "size" /\ UNCHANGED seen
  BY DEF ReadSize, Walk
<1>2. u \in WalkType /\ e \in SeenType /\ WalkIsSound(u, e) /\ seen' = [seen EXCEPT ![w] = e]
  BY <1>1, WalkerFacts DEF ListInv, TypeOK
<1>3. Moves(w, s, e)
  BY <1>2 DEF ReadSize, Walk, Moves, Stays
<1>4. s \in WalkType
  BY <1>2 DEF WalkType, ListInv, TypeOK
<1>5. /\ s.at = "head" /\ s.size = number /\ s.target = u.target /\ s.i = u.i
      /\ s.lp = u.lp /\ s.found = u.found /\ s.freed = u.freed
  BY <1>2 DEF WalkType
<1> HIDE DEF s, u, e
<1>6. /\ Noticed(u, e) /\ u.lp = NULL /\ u.i = 0 /\ u.found = FALSE
      /\ program = "ramdisk" \/ (program = "list" /\ mutator.at = "idle")
      /\ u.freed => e.deletion
  BY <1>1, <1>2 DEF WalkIsSound, WalkType, u
<1>7. Noticed(s, e)
  BY <1>5, <1>6 DEF Noticed
<1>8. e.absent \/ \E q \in Places : At(s.target, q) /\ q <= s.size
  <2>1. ASSUME ~e.absent PROVE \E q \in Places : At(s.target, q) /\ q <= s.size
    <3>1. PICK q \in Places : At(s.target, q)
      BY <1>7, <2>1, WalkFacts DEF Noticed
    <3>2. q <= number
      BY <3>1, WalkFacts
    <3> QED
      BY <1>5, <3>1, <3>2
  <2> QED
    BY <2>1
<1>9. s.size <= number
  BY <1>5, WalkFacts
<1>10. WalkIsSound(s, e) /\ s.at # "idle"
  BY <1>5, <1>6, <1>7, <1>8, <1>9 DEF WalkIsSound
<1> QED
  BY <1>2, <1>3, <1>4, <1>10, MoveKeeps

LEMMA ReadHeadKeeps ==
    ASSUME ListInv, WalksInv, NEW w \in Walkers, ReadHead(w)
    PROVE  ListInv' /\ WalksInv'
<1> DEFINE u == walk[w]
           e == seen[w]
           s == [u EXCEPT !.lp = head, !.at = "loop"]
<1>1. u.at = "head" /\ UNCHANGED seen
  BY DEF ReadHead, Walk
<1>2. /\ u \in WalkType /\ e \in SeenType /\ WalkIsSound(u, e) /\ seen' = [seen EXCEPT ![w] = e]
      /\ u.size \in Nat
  BY <1>1, WalkerFacts DEF ListInv, TypeOK
<1>3. Moves(w, s, e)
  BY <1>2 DEF ReadHead, Walk, Moves, Stays
<1>4. s \in WalkType
  BY <1>2 DEF WalkType, ListInv, TypeOK
<1>5. /\ s.at = "loop" /\ s.size = u.size /\ s.target = u.target /\ s.i = u.i
      /\ s.lp = head /\ s.found = u.found /\ s.freed = u.freed
  BY <1>2 DEF WalkType
<1> HIDE DEF s, u, e
<1>6. /\ Noticed(u, e) /\ u.i = 0 /\ u.found = FALSE
      /\ program = "ramdisk" \/ (program = "list" /\ mutator.at = "idle")
      /\ u.freed => e.deletion
      /\ e.absent \/ \E q \in Places : At(u.target, q) /\ q <= u.size
      /\ e.deletion \/ u.size <= number
  BY <1>1, <1>2 DEF WalkIsSound, WalkType, u
<1>7. /\ Linked > 0 => 1 \in Places /\ Chain[1] = head
      /\ Linked \in Nat /\ Places = 1 .. Linked
  BY ChainFacts DEF ListInv
<1>8. Deleting => head # mutator.cell
  BY <1>7, WalkFacts DEF Apart
<1>9. Noticed(s, e)
  BY <1>5, <1>6, <1>8 DEF Noticed
<1>10. e.absent \/ \E q \in Places : At(s.target, q) /\ OnItsWay(s, q)
  <2>1. ASSUME ~e.absent PROVE \E q \in Places : At(s.target, q) /\ OnItsWay(s, q)
    <3>1. PICK q \in Places : At(s.target, q) /\ q <= s.size
      BY <1>5, <1>6, <2>1
    <3>2. 1 \in 1 .. q /\ s.lp = Chain[1] /\ s.i + (q - 1) < s.size
      BY <1>2, <1>5, <1>6, <1>7, <3>1
    <3> QED
      BY <3>1, <3>2 DEF OnItsWay
  <2> QED
    BY <2>1
<1>11. e.deletion \/ (s.size <= number /\ (s.i < s.size => s.lp = Chain[s.i + 1]))
  <2>1. ASSUME ~e.deletion
        PROVE  s.size <= number /\ (s.i < s.size => s.lp = Chain[s.i + 1])
    <3>1. ~Deleting /\ s.size <= number /\ s.i = 0
      BY <1>5, <1>6, <2>1 DEF Noticed
    <3>2. 0 < s.size => Linked > 0
      BY <1>2, <1>5, <3>1, WalkFacts
    <3> QED
      BY <1>5, <1>7, <3>1, <3>2
  <2> QED
    BY <2>1
<1>12. s.i <= s.size
  BY <1>2, <1>5, <1>6
<1>13. WalkIsSound(s, e) /\ s.at # "idle"
  BY <1>5, <1>6, <1>9, <1>10, <1>11, <1>12 DEF WalkIsSound
<1> QED
  BY <1>2, <1>3, <1>4, <1>13, MoveKeeps

LEMMA EndWalkKeeps ==
    ASSUME ListInv, WalksInv, NEW w \in Walkers, EndWalk(w)
    PROVE  ListInv' /\ WalksInv'
<1>1. Moves(w, NoWalk, Unseen)
  BY DEF EndWalk, Walk, Moves, Stays
<1>2. NoWalk \in WalkType /\ Unseen \in SeenType /\ NoWalk.at = "idle"
  BY LengthAssumption DEF NoWalk, Unseen, WalkType, SeenType, Pointers
<1> QED
  BY <1>1, <1>2, MoveKeeps

\* Where a walk is in the middle of the list.
LEMMA LoopFacts ==
    ASSUME ListInv, WalksInv, NEW w \in Walkers, walk[w].at = "loop"
    PROVE  /\ Noticed(walk[w], seen[w]) /\ walk[w].found = FALSE /\ walk[w].i <= walk[w].size
           /\ program = "ramdisk" \/ (program = "list" /\ mutator.at = "idle")
           /\ walk[w].freed => seen[w].deletion
           /\ seen[w].absent \/ \E q \in Places : At(walk[w].target, q) /\ OnItsWay(walk[w], q)
           /\ ~seen[w].deletion /\ MoreToVisit(w) =>
                 /\ walk[w].i + 1 \in Places /\ walk[w].lp = Chain[walk[w].i + 1]
                 /\ walk[w].lp # NULL /\ ~Freed(walk[w].lp) /\ walk[w].size <= Linked
<1> DEFINE u == walk[w]
           e == seen[w]
<1>1. u \in WalkType /\ WalkIsSound(u, e) /\ u.size \in Nat /\ u.i \in Nat
  BY WalkerFacts
<1>2. /\ Noticed(u, e) /\ u.found = FALSE /\ u.i <= u.size
      /\ program = "ramdisk" \/ (program = "list" /\ mutator.at = "idle")
      /\ u.freed => e.deletion
      /\ e.absent \/ \E q \in Places : At(u.target, q) /\ OnItsWay(u, q)
      /\ e.deletion \/ (u.size <= number /\ (u.i < u.size => u.lp = Chain[u.i + 1]))
  BY <1>1 DEF WalkIsSound, WalkType
<1>3. ASSUME ~e.deletion, u.i < u.size
      PROVE  /\ u.i + 1 \in Places /\ u.lp = Chain[u.i + 1]
             /\ u.lp # NULL /\ ~Freed(u.lp) /\ u.size <= Linked
  <2>1. ~Deleting
    BY <1>2, <1>3 DEF Noticed
  <2>2. /\ u.size <= Linked /\ u.i + 1 \in 1 .. Linked /\ Places = 1 .. Linked
        /\ u.lp = Chain[u.i + 1]
    BY <1>1, <1>2, <1>3, <2>1, WalkFacts
  <2>3. u.lp # NULL /\ u.lp \in Range(Chain)
    BY <2>2, ChainFacts DEF ListInv, Range
  <2> QED
    BY <2>2, <2>3 DEF Freed
<1> QED
  BY <1>2, <1>3 DEF MoreToVisit

LEMMA VisitStops ==
    ASSUME ListInv, WalksInv, NEW w \in Walkers, UNCHANGED seen, ~MoreToVisit(w),
           Walk(w, "loop", [walk[w] EXCEPT !.at = "done", !.lp = NULL])
    PROVE  ListInv' /\ WalksInv'
<1> DEFINE u == walk[w]
           e == seen[w]
           s == [u EXCEPT !.at = "done", !.lp = NULL]
<1>1. u.at = "loop" /\ u.i >= u.size
  BY WalkerFacts DEF Walk, MoreToVisit
<1>2. /\ u \in WalkType /\ e \in SeenType /\ u.size \in Nat /\ u.i \in Nat
      /\ seen' = [seen EXCEPT ![w] = e]
  BY <1>1, WalkerFacts
<1>3. Moves(w, s, e)
  BY <1>2 DEF Walk, Moves, Stays
<1>4. s \in WalkType
  BY <1>2 DEF WalkType, Pointers
<1>5. /\ s.at = "done" /\ s.size = u.size /\ s.target = u.target /\ s.i = u.i
      /\ s.lp = NULL /\ s.found = u.found /\ s.freed = u.freed
  BY <1>2 DEF WalkType
<1> HIDE DEF s
<1>6. /\ Noticed(u, e) /\ u.found = FALSE
      /\ program = "ramdisk" \/ (program = "list" /\ mutator.at = "idle")
      /\ u.freed => e.deletion
      /\ e.absent \/ \E q \in Places : At(u.target, q) /\ OnItsWay(u, q)
  BY <1>1, LoopFacts
<1>7. Noticed(s, e)
  BY <1>5, <1>6, WalkFacts DEF Noticed
<1>8. e.absent
  <2>1. ASSUME NEW q \in Places, OnItsWay(u, q) PROVE u.i < u.size
    <3>1. q \in Nat
      BY WalkFacts
    <3>2. ASSUME NEW p \in 1 .. q, u.i + (q - p) < u.size PROVE u.i < u.size
      BY <1>2, <3>1, <3>2
    <3>3. ASSUME NEW p \in 1 .. q, u.i + 1 + (q - p) < u.size PROVE u.i < u.size
      BY <1>2, <3>1, <3>3
    <3>4. u.i + 1 < u.size => u.i < u.size
      BY <1>2
    <3> HIDE DEF u
    <3> QED
      BY <2>1, <3>2, <3>3, <3>4 DEF OnItsWay
  <2> QED
    BY <1>1, <1>2, <1>6, <2>1
<1>9. WalkIsSound(s, e) /\ s.at # "idle"
  BY <1>5, <1>6, <1>7, <1>8 DEF WalkIsSound
<1> QED
  BY <1>2, <1>3, <1>4, <1>9, MoveKeeps

LEMMA VisitCrashes ==
    ASSUME ListInv, WalksInv, NEW w \in Walkers, UNCHANGED seen, MoreToVisit(w),
           walk[w].lp = NULL \/ Freed(walk[w].lp), Crashes(w)
    PROVE  ListInv' /\ WalksInv'
<1> DEFINE u == walk[w]
           e == seen[w]
           s == [u EXCEPT !.at = "crashed"]
<1>1. u.at = "loop" /\ u.i < u.size
  BY DEF Crashes, Walk, MoreToVisit
<1>2. /\ u \in WalkType /\ e \in SeenType /\ u.size \in Nat /\ u.i \in Nat
      /\ seen' = [seen EXCEPT ![w] = e]
  BY <1>1, WalkerFacts
<1>3. Moves(w, s, e)
  BY <1>2 DEF Crashes, Walk, Moves, Stays
<1>4. s \in WalkType
  BY <1>2 DEF WalkType
<1>5. /\ s.at = "crashed" /\ s.size = u.size /\ s.target = u.target /\ s.i = u.i
      /\ s.lp = u.lp /\ s.found = u.found /\ s.freed = u.freed
  BY <1>2 DEF WalkType
<1> HIDE DEF s
<1>6. /\ Noticed(u, e) /\ u.found = FALSE /\ e.deletion
      /\ program = "ramdisk" \/ (program = "list" /\ mutator.at = "idle")
  <2>1. ~e.deletion => FALSE
    BY <1>1, LoopFacts
  <2> QED
    BY <1>1, <2>1, LoopFacts
<1>7. Noticed(s, e)
  BY <1>5, <1>6 DEF Noticed
<1>8. WalkIsSound(s, e) /\ s.at # "idle"
  BY <1>5, <1>6, <1>7 DEF WalkIsSound
<1> QED
  BY <1>2, <1>3, <1>4, <1>8, MoveKeeps

LEMMA VisitFinds ==
    ASSUME ListInv, WalksInv, NEW w \in Walkers, UNCHANGED seen, MoreToVisit(w),
           walk[w].lp # NULL, Freed(walk[w].lp) \/ data[walk[w].lp] = walk[w].target,
           Walk(w, "loop", [walk[w] EXCEPT !.freed = @ \/ Freed(walk[w].lp),
                                           !.at = "done", !.lp = NULL, !.found = TRUE])
    PROVE  ListInv' /\ WalksInv'
<1> DEFINE u == walk[w]
           e == seen[w]
           f == Freed(u.lp)
           s == [u EXCEPT !.freed = @ \/ f, !.at = "done", !.lp = NULL, !.found = TRUE]
<1>1. u.at = "loop" /\ u.i < u.size
  BY DEF Walk, MoreToVisit
<1>2. /\ u \in WalkType /\ e \in SeenType /\ u.size \in Nat /\ u.i \in Nat
      /\ seen' = [seen EXCEPT ![w] = e]
  BY <1>1, WalkerFacts
<1>3. Moves(w, s, e)
  BY <1>2 DEF Walk, Moves, Stays
<1> HIDE DEF f
<1>4. s \in WalkType
  BY <1>2 DEF WalkType, Pointers
<1>5. /\ s.at = "done" /\ s.size = u.size /\ s.target = u.target /\ s.i = u.i
      /\ s.lp = NULL /\ s.found /\ (s.freed <=> u.freed \/ f)
  BY <1>2 DEF WalkType
<1> HIDE DEF s
<1>6. /\ Noticed(u, e)
      /\ program = "ramdisk" \/ (program = "list" /\ mutator.at = "idle")
      /\ u.freed \/ f => e.deletion
  <2>1. f /\ ~e.deletion => FALSE
    BY <1>1, LoopFacts DEF f
  <2> QED
    BY <1>1, <2>1, LoopFacts
<1>7. Noticed(s, e)
  BY <1>5, <1>6, WalkFacts DEF Noticed
<1>8. e.present \/ f
  <2> SUFFICES ASSUME ~f PROVE e.present
    OBVIOUS
  <2>1. data[u.lp] = u.target /\ (u.lp \in Range(Chain) \/ u.lp = mutator.cell)
    BY DEF f, Freed
  <2>2. CASE u.lp \in Range(Chain)
    <3>1. PICK q \in Places : u.lp = Chain[q]
      BY <2>2, ChainFacts DEF Range, ListInv
    <3>2. Contains(Content, u.target)
      BY <2>1, <3>1, WalkFacts DEF At
    <3> QED
      BY <1>6, <3>2 DEF Noticed, Holds
  <2>3. CASE u.lp = mutator.cell
    <3>1. mutator.at # "idle"
      BY <2>3, WalkFacts
    <3>2. mutator.at = "count" \/ Deleting
      BY <3>1 DEF ListInv, TypeOK, Deleting
    <3> QED
      BY <1>6, <2>1, <2>3, <3>2 DEF Noticed, Holds
  <2> QED
    BY <2>1, <2>2, <2>3
<1>9. WalkIsSound(s, e) /\ s.at # "idle"
  BY <1>5, <1>6, <1>7, <1>8 DEF WalkIsSound
<1> QED
  BY <1>2, <1>3, <1>4, <1>9, MoveKeeps

\* In P4 no step of a walk leads to the cell that is being taken out.
LEMMA NeverBack ==
    ASSUME ListInv, Deleting, program = "ramdisk", NEW c \in Cells
    PROVE  next[c] # mutator.cell
<1>1. PointsInto(c) /\ mutator.at # "count" /\ mutator.cell # NULL /\ Apart(mutator.cell)
  BY WalkFacts DEF ListInv, NoStrays
<1>2. \A i \in 1 .. Linked - 1 : i + 1 \in Places
  BY WalkFacts
<1> QED
  BY <1>1, <1>2 DEF PointsInto, Apart

\* Past a cell that does not hold what the walk looks for.
LEMMA WayGoesOn ==
    ASSUME ListInv, NEW u \in WalkType, NEW s \in WalkType, NEW q \in Places,
           At(u.target, q), OnItsWay(u, q), u.lp # NULL,
           Freed(u.lp) \/ data[u.lp] # u.target,
           s.i = u.i + 1, s.size = u.size, s.lp = next[u.lp]
    PROVE  OnItsWay(s, q)
<1>1. /\ u.i \in Nat /\ u.size \in Nat /\ q \in Nat /\ Places = 1 .. Linked /\ q \in 1 .. Linked
      /\ Linked \in Nat
  BY WalkFacts DEF WalkType
<1>2. ASSUME NEW p \in 1 .. q, u.lp = Chain[p], u.i + (q - p) < u.size
      PROVE  OnItsWay(s, q)
  <2>1. p \in Places
    BY <1>1
  <2>2. ~Freed(u.lp)
    BY <1>2, <2>1, ChainFacts DEF Freed, Range, ListInv
  <2>3. p # q
    BY <1>2, <2>2 DEF At
  <2>4. p + 1 \in 1 .. q /\ s.i + (q - (p + 1)) < s.size /\ p \in 1 .. Linked - 1
    <3>1. p + 1 \in 1 .. q /\ p \in 1 .. Linked - 1
      BY <1>1, <2>3
    <3>2. (u.i + 1) + (q - (p + 1)) = u.i + (q - p)
      BY <1>1
    <3> QED
      BY <1>2, <3>1, <3>2
  <2>5. s.lp = Chain[p + 1]
    BY <1>2, <2>4, ChainFacts DEF ListInv
  <2> QED
    BY <2>4, <2>5 DEF OnItsWay
<1>3. ASSUME NEW p \in 1 .. q, next[u.lp] = Chain[p], u.i + 1 + (q - p) < u.size
      PROVE  OnItsWay(s, q)
  <2>1. s.lp = Chain[p] /\ s.i + (q - p) < s.size
    BY <1>1, <1>3
  <2> QED
    BY <2>1 DEF OnItsWay
<1>4. ASSUME next[u.lp] = NULL, u.i + 1 < u.size
      PROVE  OnItsWay(s, q)
  BY <1>4 DEF OnItsWay
<1> QED
  BY <1>2, <1>3, <1>4 DEF OnItsWay

LEMMA VisitGoesOn ==
    ASSUME ListInv, WalksInv, NEW w \in Walkers, UNCHANGED seen, MoreToVisit(w),
           walk[w].lp # NULL, Freed(walk[w].lp) \/ data[walk[w].lp] # walk[w].target,
           Walk(w, "loop", [walk[w] EXCEPT !.freed = @ \/ Freed(walk[w].lp),
                                           !.i = @ + 1, !.lp = next[walk[w].lp]])
    PROVE  ListInv' /\ WalksInv'
<1> DEFINE u == walk[w]
           e == seen[w]
           f == Freed(u.lp)
           s == [u EXCEPT !.freed = @ \/ f, !.i = @ + 1, !.lp = next[u.lp]]
<1>1. u.at = "loop" /\ u.i < u.size
  BY DEF Walk, MoreToVisit
<1>2. /\ u \in WalkType /\ e \in SeenType /\ u.size \in Nat /\ u.i \in Nat
      /\ seen' = [seen EXCEPT ![w] = e]
  BY <1>1, WalkerFacts
<1>3. Moves(w, s, e)
  BY <1>2 DEF Walk, Moves, Stays
<1>4. u.lp \in Cells /\ next[u.lp] \in Pointers
  BY <1>2 DEF WalkType, Pointers, ListInv, TypeOK
<1> HIDE DEF f
<1>5. u.i + 1 \in 0 .. MaxLength
  BY <1>1, <1>2, LengthAssumption DEF WalkType
<1>6. s \in WalkType
  BY <1>2, <1>4, <1>5 DEF WalkType
<1>7. /\ s.at = "loop" /\ s.size = u.size /\ s.target = u.target /\ s.i = u.i + 1
      /\ s.lp = next[u.lp] /\ s.found = u.found /\ (s.freed <=> u.freed \/ f)
  BY <1>1, <1>2 DEF WalkType
<1> HIDE DEF s
<1>8. /\ Noticed(u, e) /\ u.found = FALSE
      /\ program = "ramdisk" \/ (program = "list" /\ mutator.at = "idle")
      /\ u.freed \/ f => e.deletion
      /\ e.absent \/ \E q \in Places : At(u.target, q) /\ OnItsWay(u, q)
      /\ ~e.deletion => /\ u.i + 1 \in Places /\ u.lp = Chain[u.i + 1]
                        /\ u.size <= Linked
  <2>1. f /\ ~e.deletion => FALSE
    BY <1>1, LoopFacts DEF f
  <2> QED
    BY <1>1, <2>1, LoopFacts
<1>9. Noticed(s, e)
  <2>1. Deleting => s.lp # mutator.cell
    BY <1>4, <1>7, <1>8, NeverBack, WalkFacts
  <2> QED
    BY <1>7, <1>8, <2>1 DEF Noticed
<1>10. e.absent \/ \E q \in Places : At(s.target, q) /\ OnItsWay(s, q)
  <2> HIDE DEF u
  <2> QED
    BY <1>2, <1>6, <1>7, <1>8, WayGoesOn DEF u
<1>11. e.deletion \/ (s.size <= number /\ (s.i < s.size => s.lp = Chain[s.i + 1]))
  <2>1. ASSUME ~e.deletion
        PROVE  s.size <= number /\ (s.i < s.size => s.lp = Chain[s.i + 1])
    <3>1. u.lp = Chain[u.i + 1] /\ u.size <= Linked /\ Linked \in Nat /\ Linked <= number
          /\ number \in Nat
      BY <1>8, <2>1, WalkFacts
    <3>2. s.size <= number
      BY <1>2, <1>7, <3>1
    <3>3. s.i < s.size => u.i + 1 \in 1 .. Linked - 1
      BY <1>2, <1>7, <3>1
    <3>4. s.i < s.size => Chain[(u.i + 1) + 1] = next[u.lp]
      BY <3>1, <3>3, ChainFacts DEF ListInv
    <3> QED
      BY <1>7, <3>2, <3>4
  <2> QED
    BY <2>1
<1>12. s.i <= s.size
  BY <1>1, <1>2, <1>7
<1>13. WalkIsSound(s, e) /\ s.at # "idle"
  BY <1>7, <1>8, <1>9, <1>10, <1>11, <1>12 DEF WalkIsSound
<1> QED
  BY <1>2, <1>3, <1>6, <1>13, MoveKeeps

-----------------------------------------------------------------------------
(***************************************************************************)
(* The invariant.                                                          *)
(***************************************************************************)
LEMMA InitInv == Init => IInv
<1> SUFFICES ASSUME Init PROVE IInv
  OBVIOUS
<1>1. /\ program \in {"list", "queue", "ramdisk"}
      /\ data = [c \in Cells |-> NULL] /\ next = [c \in Cells |-> NULL]
      /\ head = NULL /\ tail = NULL /\ number = 0 /\ returned = NULL
      /\ mutator = [at |-> "idle", cell |-> NULL]
      /\ walk = [w \in Walkers |-> NoWalk] /\ seen = [w \in Walkers |-> Unseen]
  BY DEF Init
<1>2. Linked = 0 /\ Places = {}
  BY <1>1 DEF Linked, Deleting, Places
<1>3. TypeOK
  <2>1. NoWalk \in WalkType /\ Unseen \in SeenType /\ 0 \in 0 .. MaxLength
    BY LengthAssumption DEF NoWalk, WalkType, Pointers, Unseen, SeenType
  <2>2. mutator \in [at : {"idle", "count", "cut", "discount"}, cell : Pointers]
    BY <1>1 DEF Pointers
  <2> QED
    BY <1>1, <2>1, <2>2 DEF TypeOK, Pointers, WalkType, SeenType
<1>4. ChainIsSound
  BY <1>2 DEF ChainIsSound
<1>5. ChainEnds /\ Pending
  BY <1>1, <1>2 DEF ChainEnds, Pending
<1>6. NoStrays
  BY <1>1 DEF NoStrays, PointsInto
<1>7. \A w \in Walkers : walk[w].at = "idle" /\ walk[w] = NoWalk
  BY <1>1 DEF NoWalk
<1> QED
  BY <1>3, <1>4, <1>5, <1>6, <1>7 DEF IInv

LEMMA AppendKeeps ==
    ASSUME IInv, NEW c \in Cells, NEW x \in Items, BeginAppend(c, x)
    PROVE  IInv'
<1>1. ListInv /\ WalksInv /\ walk' = walk /\ Observe /\ program' = program
  BY InvIs DEF BeginAppend
<1>2. ListInv'
  BY <1>1, AppendKeepsList
<1>3. ASSUME NEW w \in Walkers, walk[w].at # "idle"
      PROVE  Meets(w)
  <2>1. program = "ramdisk"
    BY <1>3 DEF BeginAppend, MayChange, NoWalks
  <2> QED
    BY <1>1, <1>3, <2>1, AppendMeetsWalk DEF Meets, WalksInv
<1> QED
  BY <1>1, <1>2, <1>3, ChangeKeepsWalks, InvIsNext

LEMMA CountKeeps ==
    ASSUME IInv, Count
    PROVE  IInv'
<1>1. ListInv /\ WalksInv /\ walk' = walk /\ Observe /\ program' = program
  BY InvIs DEF Count
<1>2. ListInv'
  BY <1>1, CountKeepsList
<1>3. ASSUME NEW w \in Walkers, walk[w].at # "idle"
      PROVE  Meets(w)
  <2>1. WalkIsSound(walk[w], seen[w])
    BY <1>1, <1>3 DEF WalksInv
  <2>2. program = "ramdisk"
    BY <2>1 DEF Count, WalkIsSound
  <2> QED
    BY <1>1, <2>1, <2>2, CountMeetsWalk DEF Meets
<1> QED
  BY <1>1, <1>2, <1>3, ChangeKeepsWalks, InvIsNext

LEMMA CutKeeps ==
    ASSUME IInv, Cut
    PROVE  IInv'
<1>1. ListInv /\ WalksInv /\ walk' = walk /\ Observe /\ program' = program
  BY InvIs DEF Cut
<1>2. ListInv'
  BY <1>1, CutKeepsList
<1>3. ASSUME NEW w \in Walkers, walk[w].at # "idle"
      PROVE  Meets(w)
  <2>1. WalkIsSound(walk[w], seen[w])
    BY <1>1, <1>3 DEF WalksInv
  <2>2. program = "ramdisk"
    BY <2>1 DEF Cut, WalkIsSound
  <2> QED
    BY <1>1, <2>1, <2>2, CutMeetsWalk DEF Meets
<1> QED
  BY <1>1, <1>2, <1>3, ChangeKeepsWalks, InvIsNext

LEMMA DiscountKeeps ==
    ASSUME IInv, Discount
    PROVE  IInv'
<1>1. ListInv /\ WalksInv /\ walk' = walk /\ Observe /\ program' = program
  BY InvIs DEF Discount
<1>2. ListInv'
  BY <1>1, DiscountKeepsList
<1>3. ASSUME NEW w \in Walkers, walk[w].at # "idle"
      PROVE  Meets(w)
  <2>1. WalkIsSound(walk[w], seen[w])
    BY <1>1, <1>3 DEF WalksInv
  <2>2. program = "ramdisk"
    BY <2>1 DEF Discount, WalkIsSound
  <2> QED
    BY <1>1, <2>1, <2>2, DiscountMeetsWalk DEF Meets
<1> QED
  BY <1>1, <1>2, <1>3, ChangeKeepsWalks, InvIsNext

LEMMA DeleteKeeps ==
    ASSUME IInv, NEW p \in 1 .. number, BeginDelete(p)
    PROVE  IInv'
<1>1. ListInv /\ WalksInv /\ walk' = walk /\ Observe /\ program' = program
  BY InvIs DEF BeginDelete
<1>2. ListInv'
  BY <1>1, DeleteKeepsList
<1>3. ASSUME NEW w \in Walkers, walk[w].at # "idle"
      PROVE  Meets(w)
  <2>1. program = "ramdisk"
    BY <1>3 DEF BeginDelete, MayChange, NoWalks
  <2> QED
    BY <1>1, <1>3, <2>1, DeleteMeetsWalk DEF Meets, WalksInv
<1> QED
  BY <1>1, <1>2, <1>3, ChangeKeepsWalks, InvIsNext

\* What del_l_elem looks for is found on the list.
LEMMA FirstIs ==
    ASSUME ListInv, mutator.at = "idle", NEW x, Contains(Content, x)
    PROVE  FirstOf(x) \in 1 .. number /\ Content[FirstOf(x)] = x
<1>1. /\ ChainIsSound /\ Linked = number /\ Places = 1 .. number /\ number \in Nat
  BY WalkFacts DEF ListInv, Deleting
<1>2. /\ \A i \in Places : Content[i] = data[Chain[i]]
      /\ \A i, j \in Places : data[Chain[i]] = data[Chain[j]] => i = j
  BY <1>1, ContentIs, ChainFacts
<1>3. PICK p \in 1 .. number : Content[p] = x
  BY <1>1, <1>2, WalkFacts DEF At
<1>4. \A q \in 1 .. p - 1 : Content[q] # x
  <2>1. \A q \in 1 .. p - 1 : q \in 1 .. number /\ q # p
    BY <1>1
  <2> QED
    BY <1>1, <1>2, <1>3, <2>1
<1> QED
  BY <1>3, <1>4 DEF FirstOf

\* A call that deletes, deletes from a place on the list.
Deletes == DeList \/ DeQueue \/ \E x \in Items : DelElem(x) \/ DelFile(x)

LEMMA DeletesAt ==
    ASSUME ListInv, Deletes
    PROVE  \E p \in 1 .. number : BeginDelete(p) /\ (program = "queue" => p = 1)
<1>1. number \in Nat /\ Linked = number
  <2>1. mutator.at = "idle"
    BY DEF Deletes, DeList, DeQueue, DelElem, DelFile, BeginDelete, MayChange
  <2> QED
    BY <2>1, WalkFacts DEF Deleting
<1>2. CASE DeList \/ DeQueue
  BY <1>1, <1>2 DEF DeList, DeQueue
<1>3. ASSUME NEW x \in Items, DelElem(x) \/ DelFile(x)
      PROVE  BeginDelete(FirstOf(x)) /\ FirstOf(x) \in 1 .. number /\ program # "queue"
  BY <1>3, FirstIs DEF DelElem, DelFile, BeginDelete, MayChange
<1> QED
  BY <1>2, <1>3 DEF Deletes

\* A visit, by what it finds.
LEMMA VisitKeeps ==
    ASSUME ListInv, WalksInv, NEW w \in Walkers, Visit(w)
    PROVE  ListInv' /\ WalksInv'
<1>1. UNCHANGED seen
  BY DEF Visit
<1>2. CASE /\ ~MoreToVisit(w)
           /\ Walk(w, "loop", [walk[w] EXCEPT !.at = "done", !.lp = NULL])
  BY <1>1, <1>2, VisitStops
<1>3. CASE /\ MoreToVisit(w) /\ (walk[w].lp = NULL \/ Freed(walk[w].lp))
           /\ Crashes(w)
  BY <1>1, <1>3, VisitCrashes
<1>4. ASSUME MoreToVisit(w), walk[w].lp # NULL,
             NEW same \in IF Freed(walk[w].lp) THEN BOOLEAN
                          ELSE {data[walk[w].lp] = walk[w].target},
             Walk(w, "loop",
                  IF same
                  THEN [walk[w] EXCEPT !.freed = @ \/ Freed(walk[w].lp),
                                       !.at = "done", !.lp = NULL, !.found = TRUE]
                  ELSE [walk[w] EXCEPT !.freed = @ \/ Freed(walk[w].lp),
                                       !.i = @ + 1, !.lp = next[walk[w].lp]])
      PROVE  ListInv' /\ WalksInv'
  <2>1. CASE same
    <3>1. Freed(walk[w].lp) \/ data[walk[w].lp] = walk[w].target
      BY <1>4, <2>1
    <3> QED
      BY <1>1, <1>4, <2>1, <3>1, VisitFinds
  <2>2. CASE ~same
    <3>1. Freed(walk[w].lp) \/ data[walk[w].lp] # walk[w].target
      BY <1>4, <2>2
    <3> QED
      BY <1>1, <1>4, <2>2, <3>1, VisitGoesOn
  <2> QED
    BY <2>1, <2>2
<1> QED
  BY <1>2, <1>3, <1>4 DEF Visit

\* The walk steps.
WalkStep(w) ==
    \/ \E x \in Items : BeginWalk(w, x)
    \/ ReadSize(w) \/ ReadHead(w) \/ Visit(w) \/ EndWalk(w)

LEMMA WalkStepKeeps ==
    ASSUME IInv, NEW w \in Walkers, WalkStep(w)
    PROVE  IInv'
<1>1. ListInv /\ WalksInv
  BY InvIs
<1>2. ListInv' /\ WalksInv'
  BY <1>1, BeginWalkKeeps, ReadSizeKeeps, ReadHeadKeeps, VisitKeeps, EndWalkKeeps DEF WalkStep
<1> QED
  BY <1>2, InvIsNext

\* The steps of the system, sorted.
LEMMA NextIs ==
    Next <=> \/ \E x \in Items : \E c \in Cells : EnList(c, x) \/ EnQueue(c, x) \/ EnRamdiskList(c, x)
             \/ Deletes \/ Count \/ Cut \/ Discount
             \/ \E w \in Walkers : WalkStep(w)
BY DEF Next, Deletes, WalkStep

LEMMA StutterKeeps == IInv /\ UNCHANGED vars => IInv'
<1> SUFFICES ASSUME IInv, UNCHANGED vars PROVE IInv'
  OBVIOUS
<1>1. /\ Stays /\ walk' = walk /\ seen' = seen /\ returned' = returned
  BY DEF vars, Stays
<1>2. /\ SameChain /\ program' = program /\ mutator' = mutator
      /\ data' = data /\ next' = next /\ head' = head /\ tail' = tail /\ number' = number
  BY <1>1, ListStays DEF Stays
<1>3. TypeOK' /\ ChainIsSound' /\ ChainEnds'
  BY <1>1, <1>2 DEF IInv, TypeOK, Pointers, SameChain, ChainIsSound, ChainEnds
<1>4. Pending' /\ NoStrays'
  BY <1>2 DEF IInv, SameChain, Pending, Apart, NoStrays, PointsInto
<1>5. \A w \in Walkers : walk[w].at # "idle" => WalkIsSound(walk[w], seen[w])'
  BY <1>1, WalkStays DEF IInv
<1> QED
  BY <1>1, <1>3, <1>4, <1>5 DEF IInv

LEMMA NextInv == IInv /\ [Next]_vars => IInv'
<1> SUFFICES ASSUME IInv, [Next]_vars PROVE IInv'
  OBVIOUS
<1>1. ASSUME NEW x \in Items, NEW c \in Cells,
             EnList(c, x) \/ EnQueue(c, x) \/ EnRamdiskList(c, x)
      PROVE  IInv'
  BY <1>1, AppendKeeps DEF EnList, EnQueue, EnRamdiskList
<1>2. CASE Deletes
  BY <1>2, DeletesAt, DeleteKeeps, InvIs
<1>3. CASE Count \/ Cut \/ Discount
  BY <1>3, CountKeeps, CutKeeps, DiscountKeeps
<1>4. ASSUME NEW w \in Walkers, WalkStep(w)
      PROVE  IInv'
  BY <1>4, WalkStepKeeps
<1>5. CASE UNCHANGED vars
  BY <1>5, StutterKeeps
<1> QED
  BY <1>1, <1>2, <1>3, <1>4, <1>5, NextIs

\* The list is a chain of cells without repetition, its ends where they should
\* be, and every walk is where the calls that changed the list under it leave it.
THEOREM Invariance == Spec => []IInv
BY InitInv, NextInv, PTL DEF Spec

\* When no call is changing the list, l_tail is where its pointers end, and in P4
\* nothing follows it: r_readdir's loop ends (list.c, queue.c, ramdisk_list.c).
THEOREM ListSound == Spec => []ListIsSound
<1>1. IInv => ListIsSound
  <2> SUFFICES ASSUME IInv PROVE ListIsSound
    OBVIOUS
  <2>1. mutator.at = "idle" /\ number > 0 => Linked = number /\ Linked # 0
    BY DEF IInv, TypeOK, Linked, Deleting
  <2> QED
    BY <2>1 DEF IInv, ListIsSound, EndsAtTail, ChainEnds
<1> QED
  BY <1>1, Invariance, PTL

\* is_file_exist without a lock answers what was true at some moment of the call,
\* unless it reads a name that is freed, and only a deletion can make it do that
\* or crash.
THEOREM WalksRight == Spec => []WalksAnswer
<1>1. IInv => WalksAnswer
  <2> SUFFICES ASSUME IInv, NEW w \in Walkers
               PROVE  /\ walk[w].at = "done" =>
                            IF walk[w].found THEN seen[w].present \/ walk[w].freed
                            ELSE seen[w].absent
                      /\ walk[w].at = "crashed" \/ walk[w].freed => seen[w].deletion
    BY DEF WalksAnswer
  <2>1. CASE walk[w].at = "idle"
    BY <2>1 DEF IInv, NoWalk
  <2>2. CASE walk[w].at # "idle"
    BY <2>2 DEF IInv, WalkIsSound
  <2> QED
    BY <2>1, <2>2
<1> QED
  BY <1>1, Invariance, PTL

-----------------------------------------------------------------------------
(***************************************************************************)
(* The list implements the sequence.                                       *)
(***************************************************************************)
\* A sequence without one of its places.
LEMMA WithoutPlace ==
    ASSUME NEW S, NEW s \in Seq(S), NEW t \in Seq(S), NEW p \in 1 .. Len(s),
           Len(t) = Len(s) - 1, \A i \in 1 .. Len(s) - 1 : t[i] = s[Later(p, i)]
    PROVE  /\ t = RemoveAt(s, p)
           /\ p = 1 => t = Tail(s) /\ Head(s) = s[1] /\ s # <<>>
<1> DEFINE a == SubSeq(s, 1, p - 1)
           b == SubSeq(s, p + 1, Len(s))
<1>1. Len(s) \in Nat /\ \A i \in 1 .. Len(s) : s[i] \in S
  OBVIOUS
<1>2. /\ a \in Seq(S) /\ Len(a) = p - 1
      /\ \A i \in 1 .. p - 1 : a[i] = s[i]
  <2>1. \A i \in 1 .. p - 1 : i \in 1 .. Len(s) /\ 1 + i - 1 = i
    BY <1>1
  <2>2. (p - 1) - 1 + 1 = p - 1 /\ p - 1 \in Int
    BY <1>1
  <2>3. /\ a \in Seq(S) /\ Len(a) = IF 1 <= p - 1 THEN (p - 1) - 1 + 1 ELSE 0
        /\ \A i \in 1 .. (p - 1) - 1 + 1 : a[i] = s[1 + i - 1]
    BY <1>1, <2>1, <2>2, SubSeqProperties
  <2> HIDE DEF a
  <2> QED
    BY <1>1, <2>1, <2>2, <2>3
<1>3. /\ b \in Seq(S) /\ Len(b) = Len(s) - p
      /\ \A i \in 1 .. Len(s) - p : b[i] = s[p + i]
  <2>1. /\ \A i \in p + 1 .. Len(s) : i \in 1 .. Len(s)
        /\ Len(s) - (p + 1) + 1 = Len(s) - p /\ p + 1 \in Int
        /\ \A i \in 1 .. Len(s) - p : (p + 1) + i - 1 = p + i
    BY <1>1
  <2>2. /\ b \in Seq(S) /\ Len(b) = IF p + 1 <= Len(s) THEN Len(s) - (p + 1) + 1 ELSE 0
        /\ \A i \in 1 .. Len(s) - (p + 1) + 1 : b[i] = s[(p + 1) + i - 1]
    BY <1>1, <2>1, SubSeqProperties
  <2> HIDE DEF b
  <2> QED
    BY <1>1, <2>1, <2>2
<1>4. RemoveAt(s, p) = a \o b
  BY DEF RemoveAt
<1> HIDE DEF a, b
<1>5. /\ a \o b \in Seq(S) /\ Len(a \o b) = Len(s) - 1
      /\ \A i \in 1 .. Len(s) - 1 :
            (a \o b)[i] = IF i <= p - 1 THEN a[i] ELSE b[i - (p - 1)]
  <2>1. Len(a) + Len(b) = Len(s) - 1
    BY <1>1, <1>2, <1>3
  <2>2. /\ a \o b \in Seq(S) /\ Len(a \o b) = Len(a) + Len(b)
        /\ \A i \in 1 .. Len(a) + Len(b) :
              (a \o b)[i] = IF i <= Len(a) THEN a[i] ELSE b[i - Len(a)]
    BY <1>2, <1>3, ConcatProperties
  <2> QED
    BY <1>2, <2>1, <2>2
<1>6. ASSUME NEW i \in 1 .. Len(s) - 1 PROVE (a \o b)[i] = t[i]
  <2>1. CASE i <= p - 1
    <3>1. i \in 1 .. p - 1 /\ Later(p, i) = i
      BY <1>1, <2>1 DEF Later
    <3> QED
      BY <1>2, <1>5, <2>1, <3>1
  <2>2. CASE ~(i <= p - 1)
    <3>1. /\ i - (p - 1) \in 1 .. Len(s) - p /\ p + (i - (p - 1)) = i + 1
          /\ Later(p, i) = i + 1
      BY <1>1, <2>2 DEF Later
    <3>2. b[i - (p - 1)] = s[i + 1]
      BY <1>3, <3>1
    <3> QED
      BY <1>5, <2>2, <3>1, <3>2
  <2> QED
    BY <2>1, <2>2
<1>7. t = a \o b
  BY <1>5, <1>6, SeqEqual
<1>8. ASSUME p = 1 PROVE t = Tail(s) /\ Head(s) = s[1] /\ s # <<>>
  <2>1. s # <<>>
    BY <1>1
  <2>2. /\ Tail(s) \in Seq(S) /\ Len(Tail(s)) = Len(s) - 1
        /\ \A i \in 1 .. Len(s) - 1 : Tail(s)[i] = s[i + 1]
    BY <2>1, HeadTailProperties
  <2>3. \A i \in 1 .. Len(s) - 1 : Later(1, i) = i + 1
    BY DEF Later
  <2>4. t = Tail(s)
    BY <1>8, <2>2, <2>3, SeqEqual
  <2> QED
    BY <2>1, <2>4
<1> QED
  BY <1>4, <1>7, <1>8

\* Before its element is counted, and behind the pointers of a deletion, the
\* sequence does not change.
LEMMA ContentStays ==
    ASSUME ChainIsSound, ChainIsSound', SameChain,
           \A i \in Places : data'[Chain[i]] = data[Chain[i]]
    PROVE  Content' = Content
<1>1. /\ Content \in Seq(Items) /\ Content' \in Seq(Items)
      /\ Len(Content) = Linked /\ Len(Content') = Linked
      /\ \A i \in 1 .. Linked : Content'[i] = Content[i]
  BY ContentIs, ContentIsNext DEF SameChain, Places
<1> DEFINE c == Content
           d == Content'
<1> HIDE DEF c, d
<1>2. c = d
  BY <1>1, SeqEqual DEF c, d
<1> QED
  BY <1>2 DEF c, d

AbstractVars == <<program = "queue", Content, returned>>

LEMMA AppendStutters ==
    ASSUME IInv, NEW c \in Cells, NEW x \in Items, BeginAppend(c, x)
    PROVE  UNCHANGED AbstractVars
<1>1. ListInv /\ ListInv' /\ program' = program /\ returned' = returned
  BY AppendKeeps, InvIs, InvIsNext DEF BeginAppend
<1>2. /\ SameChain /\ Apart(c) /\ \A d \in Cells : d # c => data'[d] = data[d]
  BY <1>1, AppendEffect
<1>3. \A i \in Places : data'[Chain[i]] = data[Chain[i]]
  BY <1>1, <1>2, ChainFacts DEF ListInv, Apart
<1>4. Content' = Content
  BY <1>1, <1>2, <1>3, ContentStays DEF ListInv
<1> QED
  BY <1>1, <1>4 DEF AbstractVars

LEMMA DeleteEnds ==
    ASSUME IInv, Cut \/ Discount
    PROVE  UNCHANGED AbstractVars
<1>1. ListInv /\ ListInv' /\ program' = program /\ returned' = returned /\ data' = data
  BY CutKeeps, DiscountKeeps, InvIs, InvIsNext DEF Cut, Discount
<1>2. SameChain
  BY <1>1, CutEffect, DiscountEffect
<1>3. Content' = Content
  BY <1>1, <1>2, ContentStays DEF ListInv
<1> QED
  BY <1>1, <1>3 DEF AbstractVars

LEMMA CountPutsLast ==
    ASSUME IInv, Count
    PROVE  /\ data[mutator.cell] \in Items
           /\ Content' = Append(Content, data[mutator.cell])
           /\ returned' = returned /\ program' = program
<1> DEFINE x == data[mutator.cell]
<1>1. /\ ListInv /\ ListInv' /\ program' = program /\ returned' = returned /\ data' = data
      /\ mutator.at = "count"
  BY CountKeeps, InvIs, InvIsNext DEF Count
<1>2. x \in Items
  BY <1>1 DEF ListInv, Pending
<1>3. /\ Linked = number /\ Linked' = number + 1 /\ Places' = 1 .. number + 1
      /\ Chain'[number + 1] = mutator.cell
      /\ \A i \in Places : Chain'[i] = Chain[i] /\ i \in Places'
      /\ Places = 1 .. number /\ number \in Nat
  BY <1>1, CountEffect DEF Places, ListInv, TypeOK
<1>4. /\ Content \in Seq(Items) /\ Len(Content) = number
      /\ \A i \in 1 .. number : Content[i] = data[Chain[i]]
  BY <1>1, <1>3, ContentIs DEF ListInv
<1>5. /\ Content' \in Seq(Items) /\ Len(Content') = number + 1
      /\ \A i \in 1 .. number + 1 : Content'[i] = data[Chain'[i]]
  BY <1>1, <1>3, ContentIsNext DEF ListInv
<1>6. Content'[number + 1] = x /\ \A i \in 1 .. number : Content'[i] = Content[i]
  BY <1>3, <1>4, <1>5
<1> DEFINE c == Content
           d == Content'
<1> HIDE DEF c, d, x
<1>7. d = Append(c, x)
  <2>1. /\ Append(c, x) \in Seq(Items) /\ Len(Append(c, x)) = number + 1
        /\ Append(c, x)[number + 1] = x
        /\ \A i \in 1 .. number : Append(c, x)[i] = c[i]
    BY <1>2, <1>4, AppendProperties DEF c
  <2>2. \A i \in 1 .. number + 1 : i \in 1 .. number \/ i = number + 1
    BY <1>3
  <2>3. \A i \in 1 .. number + 1 : d[i] = Append(c, x)[i]
    BY <1>6, <2>1, <2>2 DEF c, d
  <2> QED
    BY <1>5, <2>1, <2>3, SeqEqual DEF d
<1> QED
  BY <1>1, <1>2, <1>7 DEF c, d, x

LEMMA DeleteTakesOut ==
    ASSUME IInv, NEW p \in 1 .. number, BeginDelete(p)
    PROVE  /\ p \in DOMAIN Content /\ Content[p] \in Items
           /\ Content' = RemoveAt(Content, p) /\ returned' = Content[p] /\ program' = program
           /\ p = 1 => /\ Content # <<>> /\ Content' = Tail(Content)
                       /\ returned' = Head(Content)
<1>1. /\ ListInv /\ ListInv' /\ program' = program /\ returned' = data[Chain[p]]
      /\ data' = data
  BY DeleteKeeps, InvIs, InvIsNext DEF BeginDelete
<1>2. /\ Linked = number /\ Linked' = number - 1 /\ Places' = 1 .. number - 1
      /\ \A i \in Places' : Later(p, i) \in Places /\ Chain'[i] = Chain[Later(p, i)]
      /\ Places = 1 .. number /\ number \in Nat
  BY <1>1, DeleteEffect DEF Places, ListInv, TypeOK
<1>3. /\ Content \in Seq(Items) /\ Len(Content) = number /\ DOMAIN Content = 1 .. number
      /\ \A i \in 1 .. number : Content[i] = data[Chain[i]]
  BY <1>1, <1>2, ContentIs DEF ListInv
<1>4. /\ Content' \in Seq(Items) /\ Len(Content') = number - 1
      /\ \A i \in 1 .. number - 1 : Content'[i] = data[Chain'[i]]
  BY <1>1, <1>2, ContentIsNext DEF ListInv
<1>5. \A i \in 1 .. number - 1 : Content'[i] = Content[Later(p, i)]
  BY <1>2, <1>3, <1>4
<1>6. Content[p] \in Items
  BY <1>3
<1> DEFINE c == Content
           d == Content'
<1> HIDE DEF c, d
<1>7. /\ d = RemoveAt(c, p)
      /\ p = 1 => d = Tail(c) /\ Head(c) = c[1] /\ c # <<>>
  BY <1>3, <1>4, <1>5, WithoutPlace DEF c, d
<1> QED
  BY <1>1, <1>3, <1>6, <1>7 DEF c, d

LEMMA WalkStutters ==
    ASSUME IInv, (\E w \in Walkers : WalkStep(w)) \/ UNCHANGED vars
    PROVE  UNCHANGED AbstractVars
<1>1. Stays /\ returned' = returned
  BY DEF WalkStep, BeginWalk, ReadSize, ReadHead, Visit, Crashes, EndWalk, Walk, Stays, vars
<1> QED
  BY <1>1, ListStays DEF AbstractVars, Stays

LEMMA InitIsEmpty == Init => Abstract!Init
<1> SUFFICES ASSUME Init PROVE Abstract!Init
  OBVIOUS
<1>1. IInv
  BY InitInv
<1>2. Linked = 0 /\ returned = NULL
  BY DEF Init, Linked, Deleting
<1>3. Content \in Seq(Items) /\ Len(Content) = 0
  BY <1>1, <1>2, ContentIs DEF IInv
<1>4. Content = <<>>
  <2> DEFINE c == Content
  <2> HIDE DEF c
  <2>1. c = <<>>
    BY <1>3, EmptySeq DEF c
  <2> QED
    BY <2>1 DEF c
<1> QED
  BY <1>2, <1>4 DEF Abstract!Init

LEMMA StepIsSequenceStep == IInv /\ [Next]_vars => [Abstract!Next]_AbstractVars
<1> SUFFICES ASSUME IInv, [Next]_vars PROVE [Abstract!Next]_AbstractVars
  OBVIOUS
<1>1. ASSUME NEW x \in Items, NEW c \in Cells,
             EnList(c, x) \/ EnQueue(c, x) \/ EnRamdiskList(c, x)
      PROVE  UNCHANGED AbstractVars
  BY <1>1, AppendStutters DEF EnList, EnQueue, EnRamdiskList
<1>2. CASE Deletes
  <2>1. PICK p \in 1 .. number : BeginDelete(p) /\ (program = "queue" => p = 1)
    BY <1>2, DeletesAt, InvIs
  <2>2. CASE p = 1
    BY <2>1, <2>2, DeleteTakesOut DEF Abstract!Next, Abstract!TakeFirst
  <2>3. CASE p # 1
    <3>1. program # "queue" /\ program' = program
      BY <2>1, <2>3, DeleteTakesOut
    <3>2. /\ p \in DOMAIN Content /\ Content' = RemoveAt(Content, p)
          /\ returned' = Content[p] /\ Content[p] \in Items
      BY <2>1, DeleteTakesOut
    <3> DEFINE x == Content[p]
    <3>3. \E i \in DOMAIN Content : Content[i] = x /\ Content' = Abstract!RemoveAt(Content, i)
      BY <3>2 DEF RemoveAt, Abstract!RemoveAt
    <3>4. Abstract!TakeOut(x)
      BY <3>1, <3>2, <3>3 DEF Abstract!TakeOut
    <3> QED
      BY <3>2, <3>4 DEF Abstract!Next
  <2> QED
    BY <2>2, <2>3
<1>3. CASE Count
  BY <1>3, CountPutsLast DEF Abstract!Next, Abstract!PutLast
<1>4. CASE Cut \/ Discount
  BY <1>4, DeleteEnds
<1>5. CASE (\E w \in Walkers : WalkStep(w)) \/ UNCHANGED vars
  BY <1>5, WalkStutters
<1> QED
  BY <1>1, <1>2, <1>3, <1>4, <1>5, NextIs

\* Whatever the calls and however the walks interleave with them, the list is a
\* sequence: enqueuing puts an element last, and a deletion takes out and returns
\* the element asked for, or of a queue the first one.
THEOREM ImplementsSequence == Spec => KeepsSequence
BY InitIsEmpty, StepIsSequenceStep, Invariance, PTL
   DEF Spec, KeepsSequence, Abstract!Spec, AbstractVars
=============================================================================
