--------------------------- MODULE ThreadService ---------------------------
(***************************************************************************)
(* What the thread library promises, with no queues, flags or lists: one   *)
(* thread has the CPU and keeps it until it gives it up; a joiner resumes  *)
(* exactly when the last thread it waits for has exited; a semaphore has   *)
(* units or waiters, never both, and each signal adds a unit or releases   *)
(* one waiter.  WHICH ready thread or waiter comes next is left open.      *)
(***************************************************************************)
EXTENDS Integers, FiniteSets

CONSTANTS Threads, Root, NoThread, Sems, MaxValue

VARIABLES
    ended,     \* "running", "exited" or "crashed"
    alive,     \* the threads that have been created and have not exited
    cpu,       \* the thread that runs
    ready,     \* the threads that may run next
    awaits,    \* whose exit each thread waits for, {} if it is not joining
    units,     \* the units left in each semaphore
    waiting    \* the threads each semaphore blocks

svars == <<ended, alive, cpu, ready, awaits, units, waiting>>

SInit ==
    /\ ended = "running"
    /\ alive = {Root}
    /\ cpu = Root
    /\ ready = {}
    /\ awaits = [t \in Threads |-> {}]
    /\ units = [s \in Sems |-> 0]
    /\ waiting = [s \in Sems |-> {}]

Up == ended = "running"

\* The CPU passes to a member of R; if there is none, nobody can ever run.
PassTo(R) ==
    \/ /\ R = {}
       /\ cpu' = NoThread
       /\ ready' = {}
       /\ ended' = "crashed"
    \/ /\ \E u \in R : cpu' = u /\ ready' = R \ {u}
       /\ ended' = ended

Spawn(t) ==
    /\ Up /\ t \notin alive
    /\ alive' = alive \cup {t}
    /\ ready' = ready \cup {t}
    /\ UNCHANGED <<ended, cpu, awaits, units, waiting>>

GiveUp ==
    /\ Up
    /\ \E u \in ready : cpu' = u /\ ready' = (ready \ {u}) \cup {cpu}
    /\ UNCHANGED <<ended, alive, awaits, units, waiting>>

\* The CPU's thread waits for the threads of K.
Await(K) ==
    /\ Up /\ K # {}
    /\ K \subseteq alive \ {cpu}
    /\ awaits' = [awaits EXCEPT ![cpu] = K]
    /\ PassTo(ready)
    /\ UNCHANGED <<alive, units, waiting>>

Exit ==
    /\ Up /\ cpu # Root
    /\ alive' = alive \ {cpu}
    /\ awaits' = [t \in Threads |-> awaits[t] \ {cpu}]
    /\ PassTo(ready \cup {t \in alive : awaits[t] = {cpu}})
    /\ UNCHANGED <<units, waiting>>

\* The process ends when the root has exited and nobody is left to run.
ProcessExit ==
    /\ Up /\ cpu = Root /\ ready = {}
    /\ ended' = "exited"
    /\ UNCHANGED <<alive, cpu, ready, awaits, units, waiting>>

NewSemaphore(s, n) ==
    /\ Up /\ waiting[s] = {}
    /\ units' = [units EXCEPT ![s] = n]
    /\ UNCHANGED <<ended, alive, cpu, ready, awaits, waiting>>

AddUnit(s) ==
    /\ Up /\ waiting[s] = {}
    /\ units' = [units EXCEPT ![s] = @ + 1]
    /\ UNCHANGED <<ended, alive, cpu, ready, awaits, waiting>>

Release(s) ==
    /\ Up
    /\ \E w \in waiting[s] :
          /\ waiting' = [waiting EXCEPT ![s] = @ \ {w}]
          /\ ready' = ready \cup {w}
    /\ UNCHANGED <<ended, alive, cpu, awaits, units>>

TakeUnit(s) ==
    /\ Up /\ units[s] > 0
    /\ units' = [units EXCEPT ![s] = @ - 1]
    /\ UNCHANGED <<ended, alive, cpu, ready, awaits, waiting>>

WaitFor(s) ==
    /\ Up /\ units[s] = 0
    /\ waiting' = [waiting EXCEPT ![s] = @ \cup {cpu}]
    /\ PassTo(ready)
    /\ UNCHANGED <<alive, awaits, units>>

SNext ==
    \/ \E t \in Threads : Spawn(t)
    \/ GiveUp
    \/ \E K \in SUBSET Threads : Await(K)
    \/ Exit
    \/ ProcessExit
    \/ \E s \in Sems :
          \/ \E n \in 0 .. MaxValue : NewSemaphore(s, n)
          \/ AddUnit(s) \/ Release(s) \/ TakeUnit(s) \/ WaitFor(s)

SSpec == SInit /\ [][SNext]_svars
=============================================================================
