--------------------------- MODULE FileNamespace ---------------------------
(***************************************************************************)
(* What a user expects of the ramdisk's name space: a tree of files, given *)
(* by the map from each path to what is there, on a disk of limited size.  *)
(* No lists, pointers or addresses, and no memory of the order in which    *)
(* the entries were made.  Each operation relates the map m before it to   *)
(* the map n after it.                                                     *)
(***************************************************************************)
EXTENDS Integers, Sequences, SequencesExt

CONSTANTS
    DirSize,    \* what a directory takes of the disk
    MaxSize     \* the size of the disk

VARIABLES
    entries,    \* a function from the paths that exist, sequences of names, to
                \* what is there; the root, <<>>, is not among them
    broken      \* TRUE: the disk is no longer what its users think

nvars == <<entries, broken>>

File(bytes) == [kind |-> "file", size |-> bytes]
Directory == [kind |-> "dir", size |-> DirSize]

IsDirectory(m, p) == p = <<>> \/ (p \in DOMAIN m /\ m[p] = Directory)
IsEmpty(m, p) == \A q \in DOMAIN m : ~IsStrictPrefix(p, q)
Used(m) == SumFunction([p \in DOMAIN m |-> m[p].size])
With(m, p, e) == [q \in DOMAIN m \cup {p} |-> IF q = p THEN e ELSE m[q]]

Makes(m, n, p) ==
    /\ p \notin DOMAIN m
    /\ IsDirectory(m, Front(p))
    /\ \/ n = With(m, p, File(0))
       \/ n = With(m, p, Directory)
    /\ Used(n) <= MaxSize

Deletes(m, n, p) ==
    /\ IsEmpty(m, p)
    /\ n = [q \in DOMAIN m \ {p} |-> m[q]]

\* A file gets longer, if the disk has room, or is emptied.
Resizes(m, n, p) ==
    /\ m[p].kind = "file"
    /\ \/ n = With(m, p, File(0))
       \/ /\ \E bytes \in 1 .. MaxSize : n = With(m, p, File(m[p].size + bytes))
          /\ Used(n) <= MaxSize

\* Where path r is after p has become q.
Moved(p, q, r) ==
    IF IsPrefix(p, r) THEN q \o SubSeq(r, Len(p) + 1, Len(r)) ELSE r

Moves(m, n, p, q) ==
    /\ q \notin DOMAIN m
    /\ IsDirectory(m, Front(q))
    /\ ~IsPrefix(p, q)
    /\ DOMAIN n = {Moved(p, q, r) : r \in DOMAIN m}
    /\ \A r \in DOMAIN m : n[Moved(p, q, r)] = m[r]

\* The path an operation names exists before it or after it.
Step(m, n) ==
    \/ \E p \in DOMAIN n : Makes(m, n, p)
    \/ \E p \in DOMAIN m :
          \/ Deletes(m, n, p)
          \/ Resizes(m, n, p)
          \/ \E q \in DOMAIN n : Moves(m, n, p, q)

NInit == entries = <<>> /\ broken = FALSE

NNext ==
    \/ /\ ~broken /\ ~broken'
       /\ \E m \in {entries}, n \in {entries'} : Step(m, n)
    \/ broken' /\ entries' = <<>>

NSpec == NInit /\ [][NNext]_nvars
=============================================================================
