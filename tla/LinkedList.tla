----------------------------- MODULE LinkedList -----------------------------
(***************************************************************************)
(* The three linked lists of the repository: P1's list.c and queue.c and   *)
(* P4's ramdisk_list.c.  They are one algorithm over cells, with small     *)
(* differences: a queue deletes only at the front, and when the last cell  *)
(* goes, ramdisk_list.c clears the pointer to it and list.c leaves it.     *)
(*                                                                         *)
(* In P1 a call runs to its end.  In P4 a handler that changes a list has  *)
(* the kernel's lock (external) on that directory, but every handler       *)
(* walks down its path with is_file_exist and holds no lock on the way: a  *)
(* walk goes on while another thread changes the list, and a step here is  *)
(* what such a walk can see of it.                                         *)
(*                                                                         *)
(* Cells are never freed.  One that nothing points to any more stands for  *)
(* a new one.                                                              *)
(***************************************************************************)
EXTENDS Integers, FiniteSets, SequencesExt

CONSTANTS
    Cells,     \* addresses of list_elem
    Items,     \* what the cells hold: threads, or files with their names
    NULL,
    Walkers,   \* threads that look something up
    MaxLength  \* bound on the length of the list

ASSUME CellsAssumption == NULL \notin Cells \cup Items
ASSUME LengthAssumption == MaxLength \in Nat \ {0}

VARIABLES
    program,         \* "list", "queue" or "ramdisk"
    data, next,      \* the fields of each cell
    head, tail,      \* l_head and l_tail
    number,          \* elem_number
    mutator,         \* the call that changes the list: where it is, its cell
    walk,            \* each walker: where it is, and its locals
    returned,        \* what the last deletion returned
    seen             \* ghost: what was true at some moment of each walk

list == <<data, next, head, tail, number>>
vars == <<program, list, mutator, walk, returned, seen>>

NoWalk == [at |-> "idle", target |-> NULL, size |-> 0, i |-> 0, lp |-> NULL,
           found |-> FALSE, freed |-> FALSE]
Unseen == [present |-> FALSE, absent |-> FALSE, deletion |-> FALSE]

Init ==
    /\ program \in {"list", "queue", "ramdisk"}
    /\ data = [c \in Cells |-> NULL] /\ next = [c \in Cells |-> NULL]
    /\ head = NULL /\ tail = NULL /\ number = 0
    /\ mutator = [at |-> "idle", cell |-> NULL]
    /\ walk = [w \in Walkers |-> NoWalk]
    /\ returned = NULL
    /\ seen = [w \in Walkers |-> Unseen]

-----------------------------------------------------------------------------
Follow(c) == IF c = NULL THEN NULL ELSE next[c]
\* How many cells the pointers join: elem_number is behind during a deletion.
Deleting == mutator.at \in {"cut", "discount"}
Linked == IF Deleting THEN number - 1 ELSE number
\* The cells from the head on, and what they hold.
Chain == LET f[i \in 1 .. Linked] == IF i = 1 THEN head ELSE Follow(f[i - 1]) IN f
Content == [i \in 1 .. Linked |-> IF Chain[i] = NULL THEN NULL ELSE data[Chain[i]]]

\* A cell that nothing leads to: it is in a set that nothing points into.
Roots == {head, tail, mutator.cell} \cup {walk[w].lp : w \in Walkers}
Unused(c) ==
    \E S \in SUBSET Cells : c \in S /\ S \cap Roots = {} /\ \A d \in Cells \ S : next[d] \notin S

\* create_l_elem; NULL data is refused, and so is a NULL cell by en_list.
NewCell(c, x) ==
    /\ Unused(c)
    /\ data' = [data EXCEPT ![c] = x]

-----------------------------------------------------------------------------
(***************************************************************************)
(* What a walk that is under way may truthfully answer (ghost).            *)
(***************************************************************************)
\* A new element counts as present from its link on, as absent up to its count.
Holds(x) == Contains(Content, x) \/ (mutator.at = "count" /\ data[mutator.cell] = x)
Witness(s, holds, lacks, deletion) ==
    [present |-> s.present \/ holds, absent |-> s.absent \/ lacks,
     deletion |-> s.deletion \/ deletion]
Observe ==
    seen' = [w \in Walkers |->
               IF walk[w].at = "idle" THEN Unseen
               ELSE LET x == walk[w].target IN
                      Witness(seen[w], Holds(x)', ~Contains(Content', x), Deleting')]

-----------------------------------------------------------------------------
(***************************************************************************)
(* The calls that change the list.                                         *)
(***************************************************************************)
Running == \A w \in Walkers : walk[w].at # "crashed"
NoWalks == \A w \in Walkers : walk[w].at = "idle"
MayChange == Running /\ mutator.at = "idle" /\ (program = "ramdisk" \/ NoWalks)

\* The pointers of en_list and en_queue; elem_number follows in Count.
\* mutant: the tail is not moved
LinkBehindTail(c) ==
    /\ IF number = 0 THEN head' = c /\ tail' = c ELSE UNCHANGED <<head, tail>>
    /\ next' = [d \in Cells |-> IF d = c THEN NULL
                                ELSE IF number # 0 /\ d = tail THEN c ELSE next[d]]
LinkLast(c) ==
    /\ tail' = c
    /\ IF number = 0 THEN head' = c ELSE UNCHANGED head
    /\ next' = [d \in Cells |-> IF d = c THEN NULL
                                ELSE IF number # 0 /\ d = tail THEN c ELSE next[d]]

BeginAppend(c, x) ==
    /\ MayChange
    /\ number < MaxLength /\ ~Contains(Content, x)
    /\ NewCell(c, x) /\ LinkLast(c)
    /\ mutator' = [at |-> "count", cell |-> c]
    /\ UNCHANGED <<program, number, walk, returned>>
    /\ Observe

EnList(c, x) == program = "list" /\ BeginAppend(c, x)
EnQueue(c, x) == program = "queue" /\ BeginAppend(c, x)
EnRamdiskList(c, x) == program = "ramdisk" /\ BeginAppend(c, x)

\* elem_number++
Count ==
    /\ Running /\ mutator.at = "count"
    /\ number' = number + 1
    /\ mutator' = [at |-> "idle", cell |-> NULL]
    /\ UNCHANGED <<program, data, next, head, tail, walk, returned>>
    /\ Observe

\* The head is taken off.
UnlinkHead ==
    /\ IF number = 1 THEN head' = NULL /\ tail' = NULL
       ELSE head' = next[head] /\ UNCHANGED tail
    /\ UNCHANGED next

\* What the pointers of the new last cell become when the tail goes.
\* mutant: list.c's deletion in ramdisk_list.c too
PointerKept(c) == next[c]
PointerOfLast(c) == IF program = "ramdisk" THEN NULL ELSE next[c]

\* The cell at position p of the list is taken out: the chain of conditions of
\* del_l_elem.
Unlink(p) ==
    \/ p = 1 /\ UnlinkHead
    \/ /\ p > 1 /\ Chain[p] = tail
       /\ tail' = Chain[p - 1]
       /\ next' = [next EXCEPT ![Chain[p - 1]] = PointerOfLast(Chain[p - 1])]
       /\ UNCHANGED head
    \/ /\ p > 1 /\ Chain[p] # tail
       /\ next' = [next EXCEPT ![Chain[p - 1]] = next[Chain[p]]]
       /\ UNCHANGED <<head, tail>>

BeginDelete(p) ==
    /\ MayChange
    /\ Unlink(p)
    /\ mutator' = [at |-> "cut", cell |-> Chain[p]]
    /\ returned' = data[Chain[p]]
    /\ UNCHANGED <<program, data, number, walk>>
    /\ Observe

\* The first cell that holds x.  If none does nothing changes and NULL is
\* returned.
FirstOf(x) == CHOOSE p \in 1 .. number :
                 Content[p] = x /\ \A q \in 1 .. p - 1 : Content[q] # x

DeList == program = "list" /\ number > 0 /\ BeginDelete(1)
DeQueue == program = "queue" /\ number > 0 /\ BeginDelete(1)
DelElem(x) == program = "list" /\ Contains(Content, x) /\ BeginDelete(FirstOf(x))
DelFile(x) == program = "ramdisk" /\ Contains(Content, x) /\ BeginDelete(FirstOf(x))

\* to_del->next = NULL
Cut ==
    /\ Running /\ mutator.at = "cut"
    /\ next' = [next EXCEPT ![mutator.cell] = NULL]
    /\ mutator' = [mutator EXCEPT !.at = "discount"]
    /\ UNCHANGED <<program, data, head, tail, number, walk, returned>>
    /\ Observe

\* elem_number--
Discount ==
    /\ Running /\ mutator.at = "discount"
    /\ number' = number - 1
    /\ mutator' = [at |-> "idle", cell |-> NULL]
    /\ UNCHANGED <<program, data, next, head, tail, walk, returned>>
    /\ Observe

-----------------------------------------------------------------------------
(***************************************************************************)
(* is_l_elem_exist and is_file_exist.                                      *)
(***************************************************************************)
Walk(w, from, to) ==
    /\ Running /\ walk[w].at = from
    /\ walk' = [walk EXCEPT ![w] = to]
    /\ UNCHANGED <<program, list, mutator, returned>>

\* is_file_exist first asks whether the list is empty; a P1 list is not
\* looked at by two calls at a time.
BeginWalk(w, x) ==
    /\ program = "ramdisk" \/ (program = "list" /\ NoWalks /\ mutator.at = "idle")
    /\ Walk(w, "idle", [NoWalk EXCEPT !.target = x,
                        !.at = IF program = "list" THEN "size"
                               ELSE IF number = 0 THEN "done" ELSE "size"])
    /\ seen' = [seen EXCEPT ![w] = Witness(Unseen, Holds(x), ~Contains(Content, x), Deleting)]

\* size = elem_number
ReadSize(w) ==
    /\ Walk(w, "size", [walk[w] EXCEPT !.size = number, !.at = "head"])
    /\ UNCHANGED seen

\* lp = l_head, in another instruction
ReadHead(w) ==
    /\ Walk(w, "head", [walk[w] EXCEPT !.lp = head, !.at = "loop"])
    /\ UNCHANGED seen

\* One turn of the loop: a dereference of lp, then lp = lp->next.
\* mutant: one cell too many
OneMore(w) == walk[w].i <= walk[w].size
MoreToVisit(w) == walk[w].i < walk[w].size
\* r_unlink and r_rmdir free a file once it is off its list, but not the cell:
\* what strcmp then makes of its name is anything.
Freed(c) == c \notin Range(Chain) \cup {mutator.cell}
Crashes(w) == Walk(w, "loop", [walk[w] EXCEPT !.at = "crashed"])
Visit(w) ==
    LET s == walk[w] IN
    /\ \/ /\ ~MoreToVisit(w)
          /\ Walk(w, "loop", [s EXCEPT !.at = "done", !.lp = NULL])
       \/ /\ MoreToVisit(w) /\ s.lp = NULL
          /\ Crashes(w)
       \/ /\ MoreToVisit(w) /\ s.lp # NULL
          /\ \E same \in IF Freed(s.lp) THEN BOOLEAN ELSE {data[s.lp] = s.target} :
               LET t == [s EXCEPT !.freed = @ \/ Freed(s.lp)] IN
               Walk(w, "loop", IF same THEN [t EXCEPT !.at = "done", !.lp = NULL, !.found = TRUE]
                               ELSE [t EXCEPT !.i = @ + 1, !.lp = next[s.lp]])
       \/ /\ MoreToVisit(w) /\ s.lp # NULL /\ Freed(s.lp)
          /\ Crashes(w)
    /\ UNCHANGED seen

EndWalk(w) ==
    /\ Walk(w, "done", NoWalk)
    /\ seen' = [seen EXCEPT ![w] = Unseen]

Next ==
    \/ \E x \in Items :
          \/ \E c \in Cells : EnList(c, x) \/ EnQueue(c, x) \/ EnRamdiskList(c, x)
          \/ DelElem(x) \/ DelFile(x)
    \/ DeList \/ DeQueue \/ Count \/ Cut \/ Discount
    \/ \E w \in Walkers :
          \/ \E x \in Items : BeginWalk(w, x)
          \/ ReadSize(w) \/ ReadHead(w) \/ Visit(w) \/ EndWalk(w)

Spec == Init /\ [][Next]_vars

-----------------------------------------------------------------------------
Pointers == Cells \cup {NULL}
TypeOK ==
    /\ program \in {"list", "queue", "ramdisk"}
    /\ data \in [Cells -> Items \cup {NULL}] /\ next \in [Cells -> Pointers]
    /\ head \in Pointers /\ tail \in Pointers
    /\ number \in 0 .. MaxLength
    /\ mutator \in [at : {"idle", "count", "cut", "discount"}, cell : Pointers]
    /\ walk \in [Walkers -> [at : {"idle", "size", "head", "loop", "done", "crashed"},
                             target : Items \cup {NULL}, size : 0 .. MaxLength,
                             i : 0 .. MaxLength, lp : Pointers,
                             found : BOOLEAN, freed : BOOLEAN]]
    /\ returned \in Items \cup {NULL}
    /\ seen \in [Walkers -> [present : BOOLEAN, absent : BOOLEAN, deletion : BOOLEAN]]

(***************************************************************************)
(* When no call is changing the list, l_tail is where its pointers end.    *)
(* In P4 they end in NULL there, which is all that stops r_readdir's       *)
(* while(lp!=NULL) (ramdisk.c:1210); in P1 the last cell may still point   *)
(* at one that was deleted, and only elem_number stops a walk.             *)
(***************************************************************************)
EndsAtTail ==
    mutator.at = "idle" /\ number > 0 =>
        /\ tail = Chain[number]
        /\ program = "ramdisk" => next[tail] = NULL

ListIsSound == TypeOK /\ EndsAtTail

(***************************************************************************)
(* is_file_exist, whatever changes the list meanwhile, answers what was    *)
(* true at some moment of the call, if it answers; but it may find what    *)
(* was never there by the name of a file that is freed.  It reads such a   *)
(* name, or dereferences NULL, only if a deletion overlapped it: beside    *)
(* creations alone it is safe.                                             *)
(***************************************************************************)
WalksAnswer ==
    \A w \in Walkers :
        /\ walk[w].at = "done" =>
              IF walk[w].found THEN seen[w].present \/ walk[w].freed ELSE seen[w].absent
        /\ walk[w].at = "crashed" \/ walk[w].freed => seen[w].deletion

(***************************************************************************)
(* Seen through its pointers and counter, the list is a sequence: nothing  *)
(* is lost, repeated or moved, and a deletion returns what it took out,    *)
(* of a queue the first element.                                           *)
(***************************************************************************)
Abstract == INSTANCE ListService WITH fifo <- program = "queue", content <- Content
KeepsSequence == Abstract!Spec

-----------------------------------------------------------------------------
(***************************************************************************)
(* The inductive invariant behind ListIsSound, WalksAnswer and             *)
(* KeepsSequence.                                                          *)
(***************************************************************************)
Places == 1 .. Linked
ChainIsSound ==
    /\ Linked \in Nat
    /\ \A i \in Places : Chain[i] \in Cells /\ data[Chain[i]] \in Items
    /\ \A i, j \in Places : data[Chain[i]] = data[Chain[j]] => i = j

\* Where the list ends, unless a cell has been linked and not counted yet.
ChainEnds ==
    mutator.at # "count" =>
        IF Linked = 0 THEN head = NULL /\ tail = NULL
        ELSE tail = Chain[Linked] /\ (program = "ramdisk" => next[tail] = NULL)

\* The cell of the call that is changing the list.
Apart(c) == c \in Cells /\ \A i \in Places : Chain[i] # c
Pending ==
    /\ mutator.at = "idle" => mutator.cell = NULL
    /\ mutator.at # "idle" => Apart(mutator.cell)
    /\ mutator.at = "count" =>
          /\ number < MaxLength /\ tail = mutator.cell /\ next[mutator.cell] = NULL
          /\ IF number = 0 THEN head = mutator.cell ELSE next[Chain[number]] = mutator.cell
          /\ data[mutator.cell] \in Items
          /\ \A i \in Places : data[Chain[i]] # data[mutator.cell]
    /\ mutator.at = "discount" => next[mutator.cell] = NULL

\* In P4 no pointer leads to a cell that is not on the list.
PointsInto(d) ==
    \/ next[d] = NULL
    \/ \E i \in 1 .. Linked - 1 : d = Chain[i] /\ next[d] = Chain[i + 1]
    \/ mutator.at = "count" /\ number > 0 /\ d = Chain[number]
    \/ mutator.at = "cut" /\ d = mutator.cell /\ \E i \in Places : next[d] = Chain[i]
NoStrays == program = "ramdisk" => \A d \in Cells : PointsInto(d)

\* Where x is on the list.
At(x, q) == q \in Places /\ data[Chain[q]] = x
\* How a walk that has read the size gets to x in time, if x stays on the list:
\* lp is on the way to it, or a deletion has left lp beside the list.
OnItsWay(s, q) ==
    \/ s.lp = NULL /\ s.i < s.size
    \/ \E p \in 1 .. q : s.lp = Chain[p] /\ s.i + (q - p) < s.size
    \/ /\ mutator.at = "cut" /\ s.lp = mutator.cell
       /\ \E p \in 1 .. q : next[s.lp] = Chain[p] /\ s.i + 1 + (q - p) < s.size
    \/ /\ Apart(s.lp) /\ next[s.lp] = NULL /\ s.i + 1 < s.size
       /\ mutator.at = "count" => s.lp # mutator.cell

\* What the walk s has seen, for what is true now.
Noticed(s, e) ==
    /\ Holds(s.target) => e.present
    /\ ~Contains(Content, s.target) => e.absent
    /\ Deleting => e.deletion
    /\ Deleting /\ s.lp = mutator.cell /\ data[mutator.cell] = s.target => e.present
WalkIsSound(s, e) ==
    /\ Noticed(s, e)
    /\ s.lp # NULL => s.at \in {"loop", "crashed"}
    /\ program = "ramdisk" \/ (program = "list" /\ mutator.at = "idle")
    /\ s.at = "head" =>
          /\ e.absent \/ \E q \in Places : At(s.target, q) /\ q <= s.size
          /\ e.deletion \/ s.size <= number
          /\ s.i = 0
    /\ s.at = "loop" =>
          /\ s.i <= s.size
          /\ e.absent \/ \E q \in Places : At(s.target, q) /\ OnItsWay(s, q)
          /\ e.deletion \/ (s.size <= number /\ (s.i < s.size => s.lp = Chain[s.i + 1]))
    /\ s.at = "size" => s.i = 0
    /\ s.found => s.at = "done"
    /\ s.at = "done" => IF s.found THEN e.present \/ s.freed ELSE e.absent
    /\ s.at = "crashed" \/ s.freed => e.deletion

IInv ==
    /\ TypeOK /\ ChainIsSound /\ ChainEnds /\ Pending /\ NoStrays
    /\ \A w \in Walkers : walk[w].at # "idle" => WalkIsSound(walk[w], seen[w])
    /\ \A w \in Walkers : walk[w].at = "idle" => walk[w] = NoWalk
=============================================================================
