------------------------------ MODULE MyThread ------------------------------
(***************************************************************************)
(* The user-level thread library of P1 (mythread.c on top of list.c and    *)
(* queue.c).  One CPU, no pre-emption: the running thread calls into the   *)
(* library and every call runs to its end, or to the swapcontext that      *)
(* hands the CPU to another thread, before anybody else moves.  So each    *)
(* library call is one action.                                             *)
(*                                                                         *)
(* A thread is the ADDRESS of its _thread.  MyThreadExit frees the struct  *)
(* and later calls may still follow a pointer to it (an orphan reads its   *)
(* parent).  free() leaves the fields of a chunk of this size as they were *)
(* and a later malloc of a _thread may return the same address: a dead     *)
(* address keeps its stale fields here, and MyThreadCreate takes any       *)
(* address that is not live.                                               *)
(*                                                                         *)
(* A list whose order nobody can observe (a thread's kids, the join-block  *)
(* list: they are only tested, counted and deleted from by content) is a   *)
(* set.  That loses nothing as long as no thread is put on one twice,      *)
(* which Placement and KidsAreLive say.                                    *)
(***************************************************************************)
EXTENDS Integers, Sequences, FiniteSets, Functions

CONSTANTS
    Threads,    \* addresses malloc may return for a _thread
    Root,       \* the address of the root thread
    NoThread,   \* the NULL pointer
    Sems,       \* addresses of _semaphores
    MaxValue    \* bound on a semaphore's value, to keep the model finite

ASSUME ThreadsAssumption == Root \in Threads /\ NoThread \notin Threads
ASSUME BoundAssumption == MaxValue \in Nat

VARIABLES
    status,             \* "running", "exited" (exit(0)) or "crashed"
    running,            \* thread_engine->running
    ready_q,            \* thread_engine->ready_q, front first
    joined_block_list,  \* thread_engine->joined_block_list
    live,               \* the addresses that hold a _thread not yet freed
    root_exiting,       \* the root is inside the loop of MyThreadExit
    parent, kids, is_joined, joinedKid, is_all_joined, joined_parent,
                        \* the fields of each _thread
    sems,               \* the semaphores that exist
    value, blocked_list \* the fields of each _semaphore

fields == <<parent, kids, is_joined, joinedKid, is_all_joined, joined_parent>>
semaphores == <<sems, value, blocked_list>>
vars == <<status, running, ready_q, joined_block_list, live, root_exiting,
          fields, semaphores>>

(***************************************************************************)
(* MyThreadInit: the engine with the root thread running.                  *)
(***************************************************************************)
Init ==
    /\ status = "running"
    /\ running = Root
    /\ ready_q = <<>>
    /\ joined_block_list = {}
    /\ live = {Root}
    /\ root_exiting = FALSE
    /\ parent = [t \in Threads |-> NoThread]
    /\ kids = [t \in Threads |-> {}]
    /\ is_joined = [t \in Threads |-> FALSE]
    /\ joinedKid = [t \in Threads |-> NoThread]
    /\ is_all_joined = [t \in Threads |-> FALSE]
    /\ joined_parent = [t \in Threads |-> FALSE]
    /\ sems = {}
    /\ value = [s \in Sems |-> 0]
    /\ blocked_list = [s \in Sems |-> <<>>]

\* The running thread executes application code and may call the library; the
\* root in the loop of MyThreadExit never returns to the application.
Calling == status = "running" /\ ~(root_exiting /\ running = Root)

(***************************************************************************)
(* Give the CPU to the front of queue q.  With nobody ready, de_queue and  *)
(* get_queue_elem_content return NULL, running becomes NULL and the        *)
(* swapcontext into &NULL->ctx kills the process.                          *)
(***************************************************************************)
DispatchUnchecked(q) ==    \* mutant: NULL goes unnoticed
    /\ running' = IF q = <<>> THEN NoThread ELSE Head(q)
    /\ ready_q' = IF q = <<>> THEN q ELSE Tail(q)
    /\ status' = status

Dispatch(q) ==
    \/ /\ q = <<>>
       /\ running' = NoThread
       /\ ready_q' = q
       /\ status' = "crashed"
    \/ /\ q # <<>>
       /\ running' = Head(q)
       /\ ready_q' = Tail(q)
       /\ status' = status

RotatedLosing(q, t) == Tail(q)               \* mutant: t is not queued
RotatedToFront(q, t) == <<t>> \o Tail(q)     \* mutant: t is queued in front

\* _swap_run leaves the queue without its front and with t at its end.
Rotated(q, t) == Append(Tail(q), t)

SwapRun ==
    /\ running' = Head(ready_q)
    /\ ready_q' = Rotated(ready_q, running)

(***************************************************************************)
(* Thread operations.                                                      *)
(***************************************************************************)
StaleFlag(flag, t) == flag    \* mutant: the flag of a reused address survives
ClearFlag(flag, t) == [flag EXCEPT ![t] = FALSE]

\* The new _thread t goes to the end of the ready queue; its creator keeps
\* the CPU.  t may be the address of a thread that exited earlier.
MyThreadCreate(t) ==
    /\ Calling
    /\ t \notin live
    /\ live' = live \cup {t}
    /\ parent' = [parent EXCEPT ![t] = running]
    /\ kids' = [kids EXCEPT ![t] = {}, ![running] = @ \cup {t}]
    /\ is_joined' = ClearFlag(is_joined, t)
    /\ joinedKid' = [joinedKid EXCEPT ![t] = NoThread]
    /\ is_all_joined' = ClearFlag(is_all_joined, t)
    /\ joined_parent' = ClearFlag(joined_parent, t)
    /\ ready_q' = Append(ready_q, t)
    /\ UNCHANGED <<status, running, joined_block_list, root_exiting, semaphores>>

\* With an empty ready queue the call returns at once and changes nothing.
MyThreadYield ==
    /\ Calling
    /\ ready_q # <<>>
    /\ SwapRun
    /\ UNCHANGED <<status, joined_block_list, live, root_exiting, fields,
                   semaphores>>

JoinableIfLive(t) == t \in live \ {running}    \* mutant: any thread will do
Joinable(t) == t \in kids[running]             \* is_l_elem_exist

\* A thread that is not a kid of the caller is refused (-1): nothing changes.
MyThreadJoin(t) ==
    /\ Calling
    /\ Joinable(t)
    /\ joined_parent' = [joined_parent EXCEPT ![t] = TRUE]
    /\ is_joined' = [is_joined EXCEPT ![running] = TRUE]
    /\ joinedKid' = [joinedKid EXCEPT ![running] = t]
    /\ joined_block_list' = joined_block_list \cup {running}
    /\ Dispatch(ready_q)
    /\ UNCHANGED <<live, root_exiting, parent, kids, is_all_joined, semaphores>>

\* Without a kid the call returns at once.
MyThreadJoinAll ==
    /\ Calling
    /\ kids[running] # {}
    /\ is_all_joined' = [is_all_joined EXCEPT ![running] = TRUE]
    /\ joined_block_list' = joined_block_list \cup {running}
    /\ Dispatch(ready_q)
    /\ UNCHANGED <<live, root_exiting, parent, kids, is_joined, joinedKid,
                   joined_parent, semaphores>>

WakesNobody(t) == FALSE                          \* mutant
WakesAtFirstExit(t) == is_all_joined[parent[t]]  \* mutant: not only the last

\* The exit of t wakes a parent that waits for t ...
WakesJoiner(t) == joined_parent[t]
\* ... or for all its kids, of which t was the last.
WakesJoinAll(t) == is_all_joined[parent[t]] /\ kids[parent[t]] \ {t} = {}
\* What the two en_queue calls of MyThreadExit append to the ready queue.
Woken(t) ==
    (IF WakesJoiner(t) THEN <<parent[t]>> ELSE <<>>)
      \o (IF WakesJoinAll(t) THEN <<parent[t]>> ELSE <<>>)

KidsStillWith(t) == kids[parent[t]]    \* mutant: t stays on its parent's list
KidsWithout(t) == kids[parent[t]] \ {t}

\* Exit of a thread other than the root.  Its parent may be long gone: then
\* parent[running] is a dead address, or an unrelated thread that got it.
MyThreadExit ==
    LET t == running
        p == parent[running]
        wakes == WakesJoiner(running) \/ WakesJoinAll(running)
    IN  /\ Calling
        /\ t # Root
        /\ kids' = [kids EXCEPT ![p] = KidsWithout(t)]
        /\ is_joined' = [is_joined EXCEPT ![p] = @ /\ ~WakesJoiner(t)]
        /\ joinedKid' = [joinedKid EXCEPT ![p] =
                           IF WakesJoiner(t) THEN NoThread ELSE @]
        /\ is_all_joined' = [is_all_joined EXCEPT ![p] = @ /\ ~WakesJoinAll(t)]
        /\ joined_block_list' =
             IF wakes THEN joined_block_list \ {p} ELSE joined_block_list
        /\ live' = live \ {t}
        /\ Dispatch(ready_q \o Woken(t))
        /\ UNCHANGED <<root_exiting, parent, joined_parent, semaphores>>

\* MyThreadExit by the root: as long as somebody is ready the root swaps with
\* it, and each time it runs again it repeats the test; then exit(0).
MyThreadExitRoot ==
    /\ status = "running"
    /\ running = Root
    /\ root_exiting' = TRUE
    /\ \/ /\ ready_q # <<>>
          /\ SwapRun
          /\ status' = status
       \/ /\ ready_q = <<>>
          /\ status' = "exited"
          /\ UNCHANGED <<running, ready_q>>
    /\ UNCHANGED <<joined_block_list, live, fields, semaphores>>

(***************************************************************************)
(* Semaphore operations.  The application uses a handle only between the   *)
(* MySemaphoreInit that returned it and a MySemaphoreDestroy that worked.  *)
(***************************************************************************)
\* A negative initialValue is refused with NULL.
MySemaphoreInit(s, initialValue) ==
    /\ Calling
    /\ s \notin sems
    /\ initialValue \in 0 .. MaxValue
    /\ sems' = sems \cup {s}
    /\ value' = [value EXCEPT ![s] = initialValue]
    /\ blocked_list' = [blocked_list EXCEPT ![s] = <<>>]
    /\ UNCHANGED <<status, running, ready_q, joined_block_list, live,
                   root_exiting, fields>>

ReleasesBelowZero(v) == v < 0    \* mutant: the last waiter is forgotten

\* With v the value after the increment, is there a waiter to release?
ReleasesWaiter(v) == v <= 0

\* de_list then en_queue: an empty list yields NULL, which is not queued.
Front(q) == IF q = <<>> THEN <<>> ELSE <<Head(q)>>
Rest(q) == IF q = <<>> THEN <<>> ELSE Tail(q)

MySemaphoreSignal(s) ==
    /\ Calling
    /\ s \in sems
    /\ value[s] < MaxValue
    /\ value' = [value EXCEPT ![s] = @ + 1]
    /\ \/ /\ ReleasesWaiter(value[s] + 1)
          /\ ready_q' = ready_q \o Front(blocked_list[s])
          /\ blocked_list' = [blocked_list EXCEPT ![s] = Rest(@)]
       \/ /\ ~ReleasesWaiter(value[s] + 1)
          /\ UNCHANGED <<ready_q, blocked_list>>
    /\ UNCHANGED <<status, running, joined_block_list, live, root_exiting,
                   fields, sems>>

WaitsForUnit(v) == v <= 0    \* mutant: the last unit cannot be taken

\* With v the value after the decrement, must the caller wait?
MustWait(v) == v < 0

MySemaphoreWait(s) ==
    /\ Calling
    /\ s \in sems
    /\ value' = [value EXCEPT ![s] = @ - 1]
    /\ \/ /\ MustWait(value[s] - 1)
          /\ blocked_list' = [blocked_list EXCEPT ![s] = Append(@, running)]
          /\ Dispatch(ready_q)
       \/ /\ ~MustWait(value[s] - 1)
          /\ UNCHANGED <<status, running, ready_q, blocked_list>>
    /\ UNCHANGED <<joined_block_list, live, root_exiting, fields, sems>>

DestroyableAnyway(s) == TRUE    \* mutant: no test for waiters

\* Refused (-1) while threads wait.
Destroyable(s) == blocked_list[s] = <<>>

MySemaphoreDestroy(s) ==
    /\ Calling
    /\ s \in sems
    /\ Destroyable(s)
    /\ sems' = sems \ {s}
    /\ UNCHANGED <<status, running, ready_q, joined_block_list, live,
                   root_exiting, fields, value, blocked_list>>

-----------------------------------------------------------------------------
\* The calls that may hand the CPU to another thread.
Switch ==
    \/ MyThreadYield
    \/ \E t \in Threads : MyThreadJoin(t)
    \/ MyThreadJoinAll
    \/ MyThreadExit
    \/ MyThreadExitRoot
    \/ \E s \in Sems : MySemaphoreWait(s) /\ running' # running

Next ==
    \/ \E t \in Threads : MyThreadCreate(t) \/ MyThreadJoin(t)
    \/ MyThreadYield
    \/ MyThreadJoinAll
    \/ MyThreadExit
    \/ MyThreadExitRoot
    \/ \E s \in Sems :
          \/ \E v \in 0 .. MaxValue : MySemaphoreInit(s, v)
          \/ MySemaphoreSignal(s)
          \/ MySemaphoreWait(s)
          \/ MySemaphoreDestroy(s)

\* Cooperation: nothing takes the CPU from a thread, so a thread that never
\* again yields, waits, joins or exits stops all others.  The fairness says
\* that the application's threads are not of that kind.
Spec == Init /\ [][Next]_vars /\ WF_vars(Switch)

-----------------------------------------------------------------------------
EngineTypes ==
    /\ status \in {"running", "exited", "crashed"}
    /\ (status = "crashed") <=> (running = NoThread)
    /\ running \in Threads \cup {NoThread}
    /\ ready_q \in Seq(Threads)
    /\ joined_block_list \in SUBSET Threads
    /\ live \in SUBSET Threads
    /\ root_exiting \in BOOLEAN

FieldTypes ==
    /\ parent \in [Threads -> Threads \cup {NoThread}]
    /\ kids \in [Threads -> SUBSET Threads]
    /\ is_joined \in [Threads -> BOOLEAN]
    /\ joinedKid \in [Threads -> Threads \cup {NoThread}]
    /\ is_all_joined \in [Threads -> BOOLEAN]
    /\ joined_parent \in [Threads -> BOOLEAN]

SemaphoreTypes ==
    /\ sems \in SUBSET Sems
    /\ value \in [Sems -> Int]
    /\ blocked_list \in [Sems -> Seq(Threads)]

TypeOK == EngineTypes /\ FieldTypes /\ SemaphoreTypes

\* The threads that wait on semaphore s.
Waiters(s) == Range(blocked_list[s])
Ready == Range(ready_q)

(***************************************************************************)
(* Each thread is in exactly one place: it runs, it is queued once on the  *)
(* ready queue, it is on the join-block list, or it is queued once on one  *)
(* semaphore that still exists.  No thread is lost, none is scheduled      *)
(* twice, and no queue holds the address of a freed thread.                *)
(***************************************************************************)
NobodyTwice ==
    /\ IsInjective(ready_q)
    /\ \A s \in Sems : IsInjective(blocked_list[s])

PlacesDisjoint ==
    /\ Ready \cap joined_block_list = {}
    /\ running \notin Ready \cup joined_block_list
    /\ \A s \in Sems :
          /\ Waiters(s) \cap (Ready \cup joined_block_list) = {}
          /\ running \notin Waiters(s)
          /\ \A r \in Sems : r # s => Waiters(s) \cap Waiters(r) = {}

NobodyLost ==
    \A t \in Threads :
        t \in live <=> \/ t = running
                      \/ t \in Ready
                      \/ t \in joined_block_list
                      \/ \E s \in Sems : t \in Waiters(s)

NobodyOnDestroyed == \A s \in Sems \ sems : blocked_list[s] = <<>>

Placement ==
    NobodyTwice /\ PlacesDisjoint /\ NobodyLost /\ NobodyOnDestroyed

(***************************************************************************)
(* The value of a semaphore counts its waiters below zero: nobody waits    *)
(* while units are left, and every unit owed has its waiter.               *)
(***************************************************************************)
SemaphoreCount ==
    \A s \in sems :
        Len(blocked_list[s]) = IF value[s] < 0 THEN -value[s] ELSE 0

(***************************************************************************)
(* The kids of a live thread are live and point back to it, so Join can    *)
(* not take the address of a dead kid for a kid, and the deletion in       *)
(* MyThreadExit finds its list.                                            *)
(***************************************************************************)
KidsAreLive ==
    \A t \in live : \A k \in kids[t] : k \in live /\ parent[k] = t

(***************************************************************************)
(* No lost wakeup for joiners: whoever is on the join-block list waits for *)
(* one live kid that carries the flag to wake it, or for a set of live     *)
(* kids that is not empty.                                                 *)
(***************************************************************************)
WillWake(p) ==
    \/ /\ is_joined[p] /\ ~is_all_joined[p]
       /\ joinedKid[p] \in kids[p]
       /\ joined_parent[joinedKid[p]]
    \/ /\ is_all_joined[p] /\ ~is_joined[p]
       /\ kids[p] # {}

JoinersWillWake == \A p \in joined_block_list : WillWake(p)

(***************************************************************************)
(* An exit wakes only a parent that is blocked, and only once: an orphan   *)
(* that looks through its stale parent pointer, perhaps at an unrelated    *)
(* thread that got the address, wakes nobody.                              *)
(***************************************************************************)
WakesOnlyJoiners ==
    \A t \in live \ {Root} :
        /\ WakesJoiner(t) \/ WakesJoinAll(t) =>
              parent[t] \in joined_block_list /\ t \in kids[parent[t]]
        /\ ~(WakesJoiner(t) /\ WakesJoinAll(t))

(***************************************************************************)
(* The library dies in Dispatch only of a deadlock of the application in   *)
(* which some thread waits on a semaphore: joins alone, in whatever order, *)
(* over however many generations and reused addresses, never deadlock.     *)
(***************************************************************************)
CrashNeedsSemaphore ==
    status = "crashed" =>
        /\ ready_q = <<>>
        /\ \A t \in live : \/ t \in joined_block_list
                          \/ \E s \in sems : t \in Waiters(s)
        /\ \E s \in sems : blocked_list[s] # <<>>

\* Once the root is in MyThreadExit the process never dies in Dispatch: there
\* is always somebody to run, the root itself if nobody else.
RootExitIsClean == root_exiting => status # "crashed" /\ running # NoThread

\* A ready thread gets the CPU, unless the process ends first.
NoStarvation ==
    \A t \in Threads : t \in Ready ~> (running = t \/ status # "running")

-----------------------------------------------------------------------------
(***************************************************************************)
(* The inductive invariant behind the properties above.                    *)
(***************************************************************************)
\* The engine: the root is never freed and has no parent, a crash leaves nobody ready, and a
\* root in MyThreadExit is never blocked.
EngineInv ==
    /\ Root \in live
    /\ status = "crashed" => ready_q = <<>>
    /\ root_exiting => Root = running \/ Root \in Ready
    /\ parent[Root] = NoThread
    /\ \A t \in live \ {Root} : parent[t] \in Threads

\* The flags of a join are set while its caller is blocked, and only then;
\* dead addresses, whose fields are stale, included.
FlagsMatchBlocking ==
    /\ \A p \in Threads : is_joined[p] \/ is_all_joined[p] =>
                            p \in joined_block_list
    /\ \A k \in live : joined_parent[k] =>
          /\ k # Root
          /\ is_joined[parent[k]]
          /\ joinedKid[parent[k]] = k

\* Creation orders the live threads: every set of them has a member without
\* a kid in the set.
KidsWellFounded ==
    \A T \in SUBSET live : T # {} => \E t \in T : kids[t] \cap T = {}

IInv ==
    /\ TypeOK
    /\ Placement
    /\ SemaphoreCount
    /\ KidsAreLive
    /\ JoinersWillWake
    /\ EngineInv
    /\ FlagsMatchBlocking
    /\ KidsWellFounded

-----------------------------------------------------------------------------
(***************************************************************************)
(* The library keeps the promise of ThreadService.  A joiner awaits the    *)
(* kid it named, or the kids it has left.                                  *)
(***************************************************************************)
Awaits ==
    [t \in Threads |->
        IF t \notin joined_block_list THEN {}
        ELSE IF is_joined[t] THEN {joinedKid[t]} ELSE kids[t]]
Units == [s \in Sems |-> IF value[s] > 0 THEN value[s] ELSE 0]

Service == INSTANCE ThreadService WITH
    ended <- status, alive <- live, cpu <- running, ready <- Ready,
    awaits <- Awaits, units <- Units, waiting <- [s \in Sems |-> Waiters(s)]

\* Every step is a step the service allows: in particular a join returns when,
\* and only when, the threads it waits for have exited, and a signal is never
\* lost on a waiter.
KeepsPromise == Service!SSpec
=============================================================================
