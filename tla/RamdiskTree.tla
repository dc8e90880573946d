---------------------------- MODULE RamdiskTree ----------------------------
(***************************************************************************)
(* The name space of P4's ramdisk: _ramdisk_file structs on lists, one     *)
(* list per directory and one for the root (ramdisk.c, ramdisk_list.c).    *)
(* Each handler is one action.                                             *)
(*                                                                         *)
(* A file is the ADDRESS of its struct.  create_ramdisk_dir never sets the *)
(* parent field, so a new directory has whatever the memory held: garbage, *)
(* or the parent of the file that was freed there.  So a dead address      *)
(* keeps its parent; its other fields, which nothing reads, are reset.     *)
(*                                                                         *)
(* The kernel (external) resolves a path before it asks for an operation:  *)
(* it creates only what does not exist, renames only within its own rules, *)
(* and it holds the directories' locks meanwhile.                          *)
(***************************************************************************)
EXTENDS Integers, Sequences, FiniteSets, SequencesExt

CONSTANTS
    Files,      \* addresses malloc may return for a _ramdisk_file
    Names,      \* names of files
    NoFile,     \* the NULL pointer
    Garbage,    \* a pointer that was never set
    RootDir,    \* stands for ramdisk_engine->root_files
    DirSize,    \* DIR_SIZE
    MaxSize,    \* ramdisk_engine->max_size
    MaxFailures \* bound on the calls of malloc that fail

ASSUME DistinctAssumption ==
    /\ {NoFile, Garbage, RootDir} \cap Files = {}
    /\ Cardinality({NoFile, Garbage, RootDir}) = 3
ASSUME FilesAssumption == IsFiniteSet(Files) /\ Names # {}
ASSUME SizesAssumption ==
    DirSize \in Nat \ {0} /\ MaxSize \in Nat /\ MaxFailures \in Nat

VARIABLES
    status,         \* "mounted", or how the process went wrong
    live,           \* the addresses that hold a file
    type, name, at_root, parent, size,
                    \* the fields of each; at_root: p_name is "/"
    sub_files,      \* the list of each directory
    current_size,   \* ramdisk_engine->current_size
    misled,         \* ghost: a rename deleted from a list the file is not on
    shadowed,       \* ghost: a rename took a name that was in use
    phantoms,       \* ghost: directories that were charged for and not made
    leaked,         \* ghost: files that a failed rename left on no list
    lost            \* files whose blocks field a failed truncate left NULL

fields == <<type, name, at_root, parent, size>>
accidents == <<misled, shadowed, phantoms, leaked, lost>>
vars == <<status, live, fields, sub_files, current_size, accidents>>

AnyName == CHOOSE nm \in Names : TRUE

Init ==
    /\ status = "mounted"
    /\ live = {}
    /\ type = [f \in Files |-> "FILE_REG"]
    /\ name = [f \in Files |-> AnyName]
    /\ at_root = [f \in Files |-> FALSE]
    /\ parent = [f \in Files |-> Garbage]
    /\ size = [f \in Files |-> 0]
    /\ sub_files = [d \in Files \cup {RootDir} |-> <<>>]
    /\ current_size = 0
    /\ misled = FALSE /\ shadowed = FALSE
    /\ phantoms = 0 /\ leaked = {} /\ lost = {}

-----------------------------------------------------------------------------
(***************************************************************************)
(* Paths: sequences of names, as break_paths returns them.                 *)
(***************************************************************************)
Paths == BoundedSeq(Names, Cardinality(Files)) \ {<<>>}

IsDir(d) == d = RootDir \/ (d \in Files /\ type[d] = "FILE_DIR")

\* is_file_exist: the first file on the list that has the name.
Find(d, nm) ==
    LET K == {k \in DOMAIN sub_files[d] : name[sub_files[d][k]] = nm}
    IN  IF K = {} THEN NoFile ELSE sub_files[d][Min(K)]

\* The walk of every handler, one level at a time; all but the last are
\* directories.
Descend(d, nm) == IF IsDir(d) THEN Find(d, nm) ELSE NoFile
Lookup(path) ==
    LET at[k \in 0 .. Len(path)] ==
            IF k = 0 THEN RootDir ELSE Descend(at[k - 1], path[k])
    IN  at[Len(path)]

DirOf(path) == Lookup(Front(path))

\* The lists on which f is, once per occurrence.
Links(f) ==
    UNION {{<<d, k>> : k \in {j \in DOMAIN sub_files[d] : sub_files[d][j] = f}} :
              d \in Files \cup {RootDir}}

HasRoomForOne(n) == current_size < MaxSize    \* mutant: n is not considered
HasRoom(n) == current_size + n <= MaxSize     \* check_ramdisk_capacity

-----------------------------------------------------------------------------
\* create_ramdisk_rf, or create_ramdisk_dir; and en_list.
NewFile(f, ty, d, nm) ==
    /\ f \notin live
    /\ live' = live \cup {f}
    /\ type' = [type EXCEPT ![f] = ty]
    /\ name' = [name EXCEPT ![f] = nm]
    /\ at_root' = [at_root EXCEPT ![f] = (d = RootDir)]
    /\ sub_files' = [sub_files EXCEPT ![d] = Append(@, f)]

\* The kernel has looked the path up: r_create does not look again.
Create(path, f) ==
    LET d == DirOf(path)
    IN  /\ status = "mounted"
        /\ Lookup(path) = NoFile
        /\ IsDir(d)
        /\ NewFile(f, "FILE_REG", d, Last(path))
        /\ parent' = [parent EXCEPT ![f] = IF d = RootDir THEN NoFile ELSE d]
        /\ UNCHANGED <<status, size, current_size, accidents>>

MakesAnyway(path) == TRUE    \* mutant: no test for the name
IsNew(path) == Lookup(path) = NoFile

Mkdir(path, f) ==
    LET d == DirOf(path)
    IN  /\ status = "mounted"
        /\ HasRoom(DirSize)
        /\ IsDir(d)
        /\ IsNew(path)
        /\ NewFile(f, "FILE_DIR", d, Last(path))
        /\ current_size' = current_size + DirSize
        /\ UNCHANGED <<status, parent, size, accidents>>

\* malloc fails in create_ramdisk_dir: en_list gets no element and refuses it,
\* and the disk is charged all the same.  (In r_create nothing changes.)
Failures == phantoms + Cardinality(leaked) + Cardinality(lost)
MkdirFails(path) ==
    /\ status = "mounted"
    /\ Failures < MaxFailures
    /\ HasRoom(DirSize)
    /\ IsDir(DirOf(path))
    /\ IsNew(path)
    /\ current_size' = current_size + DirSize
    /\ phantoms' = phantoms + 1
    /\ UNCHANGED <<status, live, fields, sub_files, misled, shadowed, leaked, lost>>

\* del_l_elem and free.  If f is on another list as well, that list now has a
\* pointer to freed memory, and its next walk reads it.
FreeKeepingSize(f, d, bytes) ==    \* mutant: the bytes are not given back
    /\ live' = live \ {f}
    /\ sub_files' = [sub_files EXCEPT ![d] = RemoveFirst(@, f)]
    /\ status' = status
    /\ current_size' = current_size
    /\ type' = [type EXCEPT ![f] = "FILE_REG"]
    /\ name' = [name EXCEPT ![f] = AnyName]
    /\ at_root' = [at_root EXCEPT ![f] = FALSE]
    /\ size' = [size EXCEPT ![f] = 0]

Free(f, d, bytes) ==
    /\ live' = live \ {f}
    /\ sub_files' = [sub_files EXCEPT ![d] = RemoveFirst(@, f)]
    /\ status' = IF Cardinality(Links(f)) > 1 THEN "dangling" ELSE status
    /\ current_size' = current_size - bytes
    /\ type' = [type EXCEPT ![f] = "FILE_REG"]
    /\ name' = [name EXCEPT ![f] = AnyName]
    /\ at_root' = [at_root EXCEPT ![f] = FALSE]
    /\ size' = [size EXCEPT ![f] = 0]

Unlink(path) ==
    LET f == Lookup(path)
    IN  /\ status = "mounted"
        /\ f \in Files \ lost /\ ~IsDir(f)
        /\ Free(f, DirOf(path), size[f])
        /\ UNCHANGED <<parent, accidents>>

RemovableAnyway(f) == IsDir(f)    \* mutant: full or not
Removable(f) == IsDir(f) /\ sub_files[f] = <<>>

Rmdir(path) ==
    LET f == Lookup(path)
    IN  /\ status = "mounted"
        /\ f \in Files /\ Removable(f)
        /\ Free(f, DirOf(path), DirSize)
        /\ UNCHANGED <<parent, accidents>>

\* r_write, as far as the disk's accounts go: RamdiskFile has the bytes.
Write(path, n) ==
    LET f == Lookup(path)
    IN  /\ status = "mounted"
        /\ f \in Files \ lost /\ ~IsDir(f)
        /\ HasRoom(n)
        /\ size' = [size EXCEPT ![f] = @ + n]
        /\ current_size' = current_size + n
        /\ UNCHANGED <<status, live, type, name, at_root, parent, sub_files,
                       accidents>>

\* r_truncate to 0; to another size it changes nothing.
Truncate(path) ==
    LET f == Lookup(path)
    IN  /\ status = "mounted"
        /\ f \in Files \ lost /\ ~IsDir(f)
        /\ current_size' = current_size - size[f]
        /\ size' = [size EXCEPT ![f] = 0]
        /\ UNCHANGED <<status, live, type, name, at_root, parent, sub_files,
                       accidents>>

\* malloc fails there: the bytes are paid back and freed already, the size
\* stays, and blocks is NULL.
TruncateFails(path) ==
    LET f == Lookup(path)
    IN  /\ status = "mounted"
        /\ Failures < MaxFailures
        /\ f \in Files \ lost /\ ~IsDir(f)
        /\ current_size' = current_size - size[f]
        /\ lost' = lost \cup {f}
        /\ UNCHANGED <<status, live, fields, sub_files, misled, shadowed,
                       phantoms, leaked>>

\* r_write, r_read, r_unlink and r_truncate then go through the NULL pointer.
LostCrashes(path) ==
    /\ status = "mounted"
    /\ Lookup(path) \in lost
    /\ status' = "crashed"
    /\ UNCHANGED <<live, fields, sub_files, current_size, accidents>>

\* What the kernel lets a rename be: over nothing, or over the like.  Whether a
\* directory there is empty it leaves to r_rename, which does not look.
MayRename(from, to) ==
    LET f == Lookup(from)
        g == Lookup(to)
    IN  /\ ~IsPrefix(from, to) /\ ~IsPrefix(to, from)
        /\ f \in Files
        /\ g # NoFile => type[f] = type[g]

\* The list r_rename deletes f from: that of the parent field, unless p_name is
\* "/".  A parent that is no directory any more has no list.
FormerList(f) == IF at_root[f] THEN RootDir ELSE parent[f]

KeepsParent(f, d) == parent    \* mutant: the parent field is not updated
NewParent(f, d) ==
    [parent EXCEPT ![f] = IF d = RootDir THEN NoFile ELSE d]

DeletedFrom(old, f) ==
    IF IsDir(old) THEN [sub_files EXCEPT ![old] = RemoveFirst(@, f)] ELSE sub_files

Rename(from, to) ==
    LET f == Lookup(from)
        d == DirOf(to)
        old == FormerList(f)
    IN  /\ status = "mounted"
        /\ MayRename(from, to)
        /\ IsDir(d)
        /\ old \in Files \cup {RootDir}
        /\ sub_files' = [DeletedFrom(old, f) EXCEPT ![d] = Append(@, f)]
        /\ name' = [name EXCEPT ![f] = Last(to)]
        /\ at_root' = [at_root EXCEPT ![f] = (d = RootDir)]
        /\ parent' = NewParent(f, d)
        /\ misled' = (misled \/ old # DirOf(from))
        /\ shadowed' = (shadowed \/ Lookup(to) # NoFile)
        /\ UNCHANGED <<status, live, type, size, current_size, phantoms, leaked,
                       lost>>

\* malloc fails after the deletion: the file is on no list.  If it still is on
\* one, which is then not its own, its name is NULL or freed: the next walk
\* reads that.
RenameFails(from, to) ==
    LET f == Lookup(from)
        old == FormerList(f)
        deleted == DeletedFrom(old, f)
    IN  /\ status = "mounted"
        /\ Failures < MaxFailures
        /\ MayRename(from, to)
        /\ IsDir(DirOf(to))
        /\ old \in Files \cup {RootDir}
        /\ sub_files' = deleted
        /\ misled' = (misled \/ old # DirOf(from))
        /\ leaked' = leaked \cup {f}
        /\ status' = IF \E d \in DOMAIN deleted : f \in Range(deleted[d])
                     THEN "dangling" ELSE status
        /\ UNCHANGED <<live, fields, current_size, shadowed, phantoms, lost>>

\* The parent field was never set, or is NULL: the process dies.
RenameCrashes(from, to) ==
    /\ status = "mounted"
    /\ MayRename(from, to)
    /\ IsDir(DirOf(to))
    /\ FormerList(Lookup(from)) \in {NoFile, Garbage}
    /\ status' = "crashed"
    /\ UNCHANGED <<live, fields, sub_files, current_size, accidents>>

-----------------------------------------------------------------------------
(***************************************************************************)
(* The handlers that change nothing: what they answer.  (access, chmod,    *)
(* chown and utimens succeed whatever they are asked.)                     *)
(***************************************************************************)
ENOENT == [kind |-> "none", size |-> 0]
DirAttributes == [kind |-> "dir", size |-> DirSize]
\* Of the attributes only these differ from file to file.
Attributes(f) ==
    IF IsDir(f) THEN DirAttributes ELSE [kind |-> "file", size |-> size[f]]

\* r_getattr; r_fgetattr is the same.
Getattr(path) ==
    IF path = <<>> THEN DirAttributes
    ELSE IF Lookup(path) = NoFile THEN ENOENT ELSE Attributes(Lookup(path))

\* r_open and r_flush; r_opendir.
Open(path) == path # <<>> /\ Lookup(path) # NoFile /\ ~IsDir(Lookup(path))
Opendir(path) == IsDir(Lookup(path))

\* r_readdir: an entry for each file on the list, in its order.
Readdir(path) ==
    IF ~IsDir(Lookup(path)) THEN ENOENT
    ELSE LET files == sub_files[Lookup(path)]
         IN  [k \in DOMAIN files |->
                 [name |-> name[files[k]], attr |-> Attributes(files[k])]]

-----------------------------------------------------------------------------
Next ==
    \E path \in Paths :
        \/ \E f \in Files : Create(path, f) \/ Mkdir(path, f)
        \/ MkdirFails(path)
        \/ Unlink(path) \/ Rmdir(path) \/ Truncate(path)
        \/ TruncateFails(path) \/ LostCrashes(path)
        \/ \E n \in 1 .. MaxSize : Write(path, n)
        \/ \E to \in Paths :
              \/ Rename(path, to)
              \/ RenameFails(path, to)
              \/ RenameCrashes(path, to)

Spec == Init /\ [][Next]_vars

-----------------------------------------------------------------------------
TypeOK ==
    /\ status \in {"mounted", "crashed", "dangling"}
    /\ live \in SUBSET Files
    /\ type \in [Files -> {"FILE_REG", "FILE_DIR"}]
    /\ name \in [Files -> Names]
    /\ at_root \in [Files -> BOOLEAN]
    /\ parent \in [Files -> Files \cup {NoFile, Garbage}]
    /\ size \in [Files -> 0 .. MaxSize]
    /\ sub_files \in [Files \cup {RootDir} -> Seq(Files)]
    /\ current_size \in 0 .. MaxSize
    /\ {misled, shadowed} \subseteq BOOLEAN
    /\ phantoms \in 0 .. MaxFailures
    /\ leaked \in SUBSET Files /\ lost \in SUBSET Files

(***************************************************************************)
(* The accounts are right: current_size is what the files and directories  *)
(* on the disk take, after any sequence of operations, even when a rename  *)
(* has left a directory on two lists.  Memory that ran out leaves two      *)
(* marks: a mkdir has taken what is never given back, and a file that a    *)
(* truncate emptied halfway keeps its size and is paid for no more.        *)
(***************************************************************************)
Cost(f) == IF IsDir(f) THEN DirSize ELSE size[f]
QuotaIsTheSum ==
    current_size = SumFunction([f \in live \ lost |-> Cost(f)]) + phantoms * DirSize

(***************************************************************************)
(* As long as no rename was misled, every file is on exactly one list, the *)
(* list r_rename would delete it from if its parent field was set, but for *)
(* those a failed rename left on none; only files that exist are on a      *)
(* list; and every one can be reached.                                     *)
(***************************************************************************)
OnOneList(f) ==
    /\ Cardinality(Links(f)) = 1
    /\ at_root[f] <=> f \in Range(sub_files[RootDir])
    /\ ~IsDir(f) => /\ FormerList(f) \in DOMAIN sub_files
                   /\ f \in Range(sub_files[FormerList(f)])
ListsAreSound ==
    /\ status # "dangling"
    /\ \A d \in Files \cup {RootDir} : Range(sub_files[d]) \subseteq live \ leaked
    /\ \A f \in live \ leaked : OnOneList(f)
IsReached(f) == \E path \in Paths : Lookup(path) = f
TreeIsSound ==
    /\ TypeOK
    /\ ~misled => ListsAreSound
    /\ ~misled /\ ~shadowed /\ leaked = {} => \A f \in live : IsReached(f)

(***************************************************************************)
(* Whoever asks gets the same answer: what readdir lists is what getattr   *)
(* finds, each name once and with the same attributes, and opendir and     *)
(* open take what these call a directory and a file.  Only a rename that   *)
(* took a name in use, or deleted from the wrong list, makes them differ.  *)
(***************************************************************************)
Entries(path, nm) == {k \in DOMAIN Readdir(path) : Readdir(path)[k].name = nm}
AnswersAgree ==
    status = "mounted" /\ ~misled /\ ~shadowed =>
        \A path \in Paths \cup {<<>>} :
            LET there == Getattr(path)
            IN  /\ Opendir(path) <=> there = DirAttributes
                /\ Open(path) <=> there # ENOENT /\ ~Opendir(path)
                /\ Opendir(path) => \A nm \in Names :
                      LET child == Getattr(Append(path, nm))
                      IN  IF child = ENOENT THEN Entries(path, nm) = {}
                          ELSE \E k \in Entries(path, nm) :
                                  /\ Entries(path, nm) = {k}
                                  /\ Readdir(path)[k].attr = child

-----------------------------------------------------------------------------
(***************************************************************************)
(* The tree behaves like a map from paths to files, until a rename goes    *)
(* wrong in one of the two ways or crashes, or memory runs out in a        *)
(* rename, a mkdir or a truncate.                                          *)
(***************************************************************************)
Broken == status # "mounted" \/ misled \/ shadowed \/ Failures > 0
Namespace == INSTANCE FileNamespace WITH
    entries <- IF Broken THEN <<>>
               ELSE [path \in {p \in Paths : Lookup(p) # NoFile} |-> Getattr(path)],
    broken <- Broken

KeepsNamespace == Namespace!NSpec

-----------------------------------------------------------------------------
(***************************************************************************)
(* The inductive invariant.  As long as the disk is mounted what is on a   *)
(* list is live, even if a rename was misled and it is on two; only        *)
(* directories have files on their lists, only regular files lose their    *)
(* blocks, and what malloc may return was left blank.  As long as no       *)
(* rename took a name in use, no directory has two files of one name; and  *)
(* no set of files hangs together by itself: some file of it is in a       *)
(* directory outside.                                                      *)
(***************************************************************************)
ListedAreLive ==
    status = "mounted" =>
        \A d \in Files \cup {RootDir} : Range(sub_files[d]) \subseteq live \ leaked
DeadAreBlank == \A f \in Files \ live : type[f] = "FILE_REG" /\ size[f] = 0
LostAreFiles == \A f \in lost : f \in live /\ ~IsDir(f)
OnlyDirsHoldFiles == \A f \in Files : ~IsDir(f) => sub_files[f] = <<>>
NamesDiffer ==
    \A d \in Files \cup {RootDir} : \A j, k \in DOMAIN sub_files[d] :
        name[sub_files[d][j]] = name[sub_files[d][k]] => j = k
IsRooted ==
    \A S \in SUBSET live : S # {} =>
        \E d \in (Files \cup {RootDir}) \ S : S \cap Range(sub_files[d]) # {}
IInv ==
    /\ TypeOK /\ leaked \subseteq live
    /\ ListedAreLive /\ DeadAreBlank /\ OnlyDirsHoldFiles /\ LostAreFiles
    /\ QuotaIsTheSum
    /\ ~misled => ListsAreSound
    /\ ~misled /\ ~shadowed => NamesDiffer
    /\ ~misled /\ ~shadowed /\ leaked = {} => IsRooted
=============================================================================
