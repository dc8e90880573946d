---------------------------- MODULE RamdiskQuota ----------------------------
(***************************************************************************)
(* The disk's account under several FUSE threads (ramdisk.c).              *)
(*                                                                         *)
(* fuse_main runs the handlers on several threads.  They share             *)
(* ramdisk_engine->current_size without a lock: check_ramdisk_capacity     *)
(* reads it before the work of a write or a mkdir is done, and each of     *)
(* the five handlers that change it loads it, adds and stores it, in       *)
(* separate instructions (the Makefile does not optimise).  A step here is *)
(* what one thread does between two accesses to shared state.              *)
(*                                                                         *)
(* The kernel (external) keeps one operation at a time on a file, and one  *)
(* that makes or removes a name in a directory; everything else overlaps.  *)
(* malloc does not fail here: RamdiskFile and RamdiskTree have that.       *)
(***************************************************************************)
EXTENDS Integers, FiniteSets, Functions

CONSTANTS
    Threads,     \* the threads of fuse_main
    Objects,     \* names a file or a directory may have, with their directory
    Home,        \* the directory each name is in
    NoObject,
    DirSize,     \* DIR_SIZE
    MaxSize,     \* ramdisk_engine->max_size
    MaxRequest,  \* the largest write the kernel asks for; at least DirSize
    MaxRaces     \* bound on the overlaps after which handlers still begin

ASSUME ThreadsAssumption == IsFiniteSet(Threads) /\ Threads # {}
ASSUME ObjectsAssumption == IsFiniteSet(Objects) /\ NoObject \notin Objects
ASSUME SizesAssumption ==
    /\ DirSize \in Nat \ {0} /\ MaxSize \in Nat
    /\ MaxRequest \in Nat /\ DirSize <= MaxRequest
    /\ MaxRaces \in Nat \ {0}

VARIABLES
    kind,          \* what has a name: "none", "file" or "dir"
    size,          \* r_file->size of each file
    current_size,  \* ramdisk_engine->current_size
    pc,            \* where each thread is in its handler
    op,            \* the handler: "write", "truncate", "make", "remove"
    obj,           \* its file or directory
    delta,         \* what it adds to current_size
    register,      \* the value it has loaded
    used,          \* ghost: what the names on the disk take; a file or directory
                   \* that is being emptied or removed does not count
    races,         \* ghost: how often an update of the account began while
                   \* another one was under way
    overlapped     \* ghost: what the updates concerned should have added

disk == <<kind, size, current_size>>
threads == <<pc, op, obj, delta, register>>
ghosts == <<used, races, overlapped>>
vars == <<disk, threads, ghosts>>

Init ==
    /\ kind = [o \in Objects |-> "none"]
    /\ size = [o \in Objects |-> 0]
    /\ current_size = 0
    /\ pc = [t \in Threads |-> "idle"]
    /\ op = [t \in Threads |-> "none"]
    /\ obj = [t \in Threads |-> NoObject]
    /\ delta = [t \in Threads |-> 0]
    /\ register = [t \in Threads |-> 0]
    /\ used = 0
    /\ races = 0 /\ overlapped = {}

-----------------------------------------------------------------------------
\* check_ramdisk_capacity.  mutant: an off-by-one
FitsBarely(n) == current_size + n <= MaxSize + 1
Fits(n) == current_size + n <= MaxSize

\* The locks of the kernel: nobody works on o, or makes or removes a name in
\* its directory.
Free(o) == \A t \in Threads : obj[t] # o
FreeHome(o) ==
    \A t \in Threads : op[t] \in {"make", "remove"} => Home[obj[t]] # Home[o]

\* The statements that change a size and then the account: what one thread has
\* done and the account does not show yet.
Updating(t) == pc[t] \in {"account", "store"}
Others(t) == {u \in Threads \ {t} : Updating(u)}
\* Thread t begins to update, by n.
BeginsUpdate(t, n) ==
    /\ used' = used + n
    /\ IF Others(t) = {} THEN UNCHANGED <<races, overlapped>>
       ELSE /\ races' = races + 1
            /\ overlapped' = overlapped \cup {n} \cup {delta[u] : u \in Others(t)}

\* Thread t enters handler h for o, and stops before its next shared access.
Enter(t, h, o, n, at) ==
    /\ pc[t] = "idle" /\ Free(o) /\ races < MaxRaces
    /\ pc' = [pc EXCEPT ![t] = at]
    /\ op' = [op EXCEPT ![t] = h]
    /\ obj' = [obj EXCEPT ![t] = o]
    /\ delta' = [delta EXCEPT ![t] = n]
    /\ UNCHANGED <<size, current_size, register>>

\* r_write up to the check; without room it returns -EFBIG and nothing changes.
BeginWrite(t, o, n) ==
    /\ kind[o] = "file"
    /\ Fits(n)
    /\ Enter(t, "write", o, n, "working")
    /\ UNCHANGED <<kind, ghosts>>

\* r_mkdir up to the check.
BeginMkdir(t, o) ==
    /\ kind[o] = "none" /\ FreeHome(o)
    /\ Fits(DirSize)
    /\ Enter(t, "make", o, DirSize, "working")
    /\ UNCHANGED <<kind, ghosts>>

\* r_create takes nothing of the disk: the file is on its list at once.
Create(t, o) ==
    /\ pc[t] = "idle" /\ races < MaxRaces /\ kind[o] = "none" /\ Free(o) /\ FreeHome(o)
    /\ kind' = [kind EXCEPT ![o] = "file"]
    /\ UNCHANGED <<size, current_size, threads, ghosts>>

\* r_truncate to 0, r_unlink and r_rmdir do not check anything.
BeginTruncate(t, o) ==
    /\ kind[o] = "file"
    /\ Enter(t, "truncate", o, -size[o], "account")
    /\ BeginsUpdate(t, -size[o])
    /\ UNCHANGED kind

BeginRemove(t, o) ==
    /\ kind[o] # "none" /\ FreeHome(o)
    /\ LET bytes == IF kind[o] = "dir" THEN DirSize ELSE size[o] IN
         /\ Enter(t, "remove", o, -bytes, "account")
         /\ BeginsUpdate(t, -bytes)
    /\ kind' = [kind EXCEPT ![o] = "none"]

\* r_file->size += size, or en_list.
FinishWork(t) ==
    /\ pc[t] = "working"
    /\ IF op[t] = "write"
       THEN /\ size' = [size EXCEPT ![obj[t]] = @ + delta[t]]
            /\ UNCHANGED kind
       ELSE /\ kind' = [kind EXCEPT ![obj[t]] = "dir"]
            /\ UNCHANGED size
    /\ BeginsUpdate(t, delta[t])
    /\ pc' = [pc EXCEPT ![t] = "account"]
    /\ UNCHANGED <<current_size, op, obj, delta, register>>

\* The load and the store of current_size += or -=.
Load(t) ==
    /\ pc[t] = "account"
    /\ register' = [register EXCEPT ![t] = current_size]
    /\ pc' = [pc EXCEPT ![t] = "store"]
    /\ UNCHANGED <<disk, op, obj, delta, ghosts>>

\* The handler returns.
Leave(t) ==
    /\ pc' = [pc EXCEPT ![t] = "idle"]
    /\ op' = [op EXCEPT ![t] = "none"]
    /\ obj' = [obj EXCEPT ![t] = NoObject]
    /\ delta' = [delta EXCEPT ![t] = 0]
    /\ register' = [register EXCEPT ![t] = 0]

\* After the store r_truncate still has to reset the size, r_unlink to free.
\* mutant: what r_unlink and r_rmdir take off the disk is not given back
StoredUnlessRemoved(t) == register[t] + (IF op[t] = "remove" THEN 0 ELSE delta[t])
Stored(t) == register[t] + delta[t]
Store(t) ==
    /\ pc[t] = "store"
    /\ current_size' = Stored(t)
    /\ IF op[t] \in {"truncate", "remove"}
       THEN /\ pc' = [pc EXCEPT ![t] = "reset"]
            /\ register' = [register EXCEPT ![t] = 0]
            /\ UNCHANGED <<op, obj, delta>>
       ELSE Leave(t)
    /\ UNCHANGED <<kind, size, ghosts>>

ResetSize(t) ==
    /\ pc[t] = "reset"
    /\ size' = [size EXCEPT ![obj[t]] = 0]
    /\ Leave(t)
    /\ UNCHANGED <<kind, current_size, ghosts>>

Next ==
    \E t \in Threads :
        \/ \E o \in Objects :
              \/ \E n \in 1 .. MaxRequest : BeginWrite(t, o, n)
              \/ BeginMkdir(t, o) \/ Create(t, o)
              \/ BeginTruncate(t, o) \/ BeginRemove(t, o)
        \/ FinishWork(t) \/ Load(t) \/ Store(t) \/ ResetSize(t)

Spec == Init /\ [][Next]_vars

-----------------------------------------------------------------------------
Handlers == {"none", "write", "truncate", "make", "remove"}
Places == {"idle", "working", "account", "store", "reset"}
TypeOK ==
    /\ kind \in [Objects -> {"none", "file", "dir"}]
    /\ size \in [Objects -> Nat]
    /\ current_size \in Int /\ used \in Int
    /\ pc \in [Threads -> Places]
    /\ op \in [Threads -> Handlers]
    /\ obj \in [Threads -> Objects \cup {NoObject}]
    /\ delta \in [Threads -> Int]
    /\ register \in [Threads -> Int]
    /\ races \in Nat
    /\ overlapped \in SUBSET Int
    /\ \A t \in Threads : pc[t] # "idle" => obj[t] \in Objects

Idle == \A t \in Threads : pc[t] = "idle"
Cost(o) == IF kind[o] = "dir" THEN DirSize ELSE size[o]

\* As long as no two updates overlapped, the account is right whenever no
\* handler runs, whatever else overlapped: checks, and the work after them.
AccountIsUsed == races = 0 /\ Idle => current_size = used

(***************************************************************************)
(* Whenever no handler runs, the account is what the files and directories *)
(* take.  Two updates that overlapped have lost one of the two, or none:   *)
(* it is never off by anything else.  (Load and store of current_size.)    *)
(***************************************************************************)
AccountIsExact ==
    Idle => /\ used = SumFunction([o \in Objects |-> Cost(o)])
            /\ races <= 1 => used - current_size \in {0} \cup overlapped

\* The limit, and what n threads may write beyond it.
Beyond(n) == MaxSize + (n - 1) * MaxRequest

(***************************************************************************)
(* Every thread may pass check_ramdisk_capacity before the first of them   *)
(* has added anything.  The disk gets over its limit by at most what all   *)
(* but one of them write.                                                  *)
(***************************************************************************)
OverrunIsBounded ==
    races = 0 => used <= Beyond(Cardinality(Threads))

-----------------------------------------------------------------------------
(***************************************************************************)
(* The inductive invariant.  Until two updates overlap, the thread that is *)
(* updating is the only one, and the account is short of what the disk     *)
(* holds by its delta alone.  Of the threads past the check, one has been  *)
(* told the truth about the room but for the requests of the others.       *)
(***************************************************************************)
Passed == {t \in Threads : pc[t] = "working"}
Requests ==
    \A t \in Threads :
        /\ pc[t] = "working" => delta[t] \in 1 .. MaxRequest
        /\ Updating(t) => delta[t] <= MaxRequest
OneUpdates == \A t, u \in Threads : Updating(t) /\ Updating(u) => t = u
AccountLags ==
    /\ (\A t \in Threads : ~Updating(t)) => current_size = used
    /\ \A t \in Threads :
         /\ Updating(t) => current_size = used - delta[t]
         /\ pc[t] = "store" => register[t] = current_size
RoomLeft ==
    LET limit == Beyond(Cardinality(Threads)) IN
      IF Passed = {} THEN used <= limit
      ELSE \E t \in Passed :
              used + delta[t] + (Cardinality(Passed) - 1) * MaxRequest <= limit

(***************************************************************************)
(* While two updates overlap, neither has stored; then one stores, and the *)
(* other goes on from what it has loaded, or has yet to load.  From there  *)
(* on the account is short by the update that was lost, if one was.        *)
(***************************************************************************)
TwoUpdate ==
    \A t, u, v \in Threads :
        Updating(t) /\ Updating(u) /\ Updating(v) => t = u \/ t = v \/ u = v
Base(t) == IF pc[t] = "store" THEN register[t] ELSE current_size
AccountLosesOne ==
    /\ (\A t \in Threads : ~Updating(t)) => used - current_size \in {0} \cup overlapped
    /\ \A t \in Threads : Updating(t) =>
         /\ Others(t) = {} => used - (Base(t) + delta[t]) \in {0} \cup overlapped
         /\ \A u \in Others(t) : current_size = used - delta[t] - delta[u]
         /\ Others(t) # {} => delta[t] \in overlapped /\ Base(t) = current_size

(***************************************************************************)
(* A handler has its object for itself, and finds it as it left it.  What  *)
(* it is emptying does not count any more, though the size is still there. *)
(***************************************************************************)
Empties(t, o) == obj[t] = o /\ op[t] \in {"truncate", "remove"}
Counted(o) == IF \E t \in Threads : Empties(t, o) THEN 0 ELSE Cost(o)
UsedIsCounted == used = SumFunction([o \in Objects |-> Counted(o)])
HandlersInv ==
    /\ \A t, u \in Threads : obj[t] = obj[u] /\ obj[t] # NoObject => t = u
    /\ \A t \in Threads :
         /\ pc[t] = "idle" => obj[t] = NoObject /\ op[t] = "none"
         /\ pc[t] = "working" => op[t] \in {"write", "make"}
         /\ op[t] = "write" => kind[obj[t]] = "file"
         /\ op[t] = "make" /\ pc[t] = "working" =>
              kind[obj[t]] = "none" /\ delta[t] = DirSize
         /\ op[t] = "truncate" => kind[obj[t]] = "file"
         /\ op[t] = "remove" => kind[obj[t]] = "none"
         /\ pc[t] = "reset" => op[t] \in {"truncate", "remove"}
    /\ \A o \in Objects :
         kind[o] # "file" /\ (\A t \in Threads : ~Empties(t, o)) => size[o] = 0

IInv ==
    /\ TypeOK /\ Requests
    /\ HandlersInv /\ UsedIsCounted
    /\ races = 0 => OneUpdates /\ AccountLags /\ RoomLeft
    /\ races = 1 => TwoUpdate /\ AccountLosesOne
=============================================================================
