--------------------------- MODULE MyThread_proofs ---------------------------
(***************************************************************************)
(* Proofs about MyThread, for every set of addresses and semaphores and    *)
(* every bound on the values.                                              *)
(***************************************************************************)
EXTENDS MyThread, CommonFacts

USE ThreadsAssumption, BoundAssumption

-----------------------------------------------------------------------------
\* Dispatch: the process dies if q is empty; otherwise one thread moves from
\* q to the CPU and the others stay ready.
LEMMA DispatchMoves ==
    ASSUME NEW q \in Seq(Threads), IsInjective(q), Dispatch(q)
    PROVE  /\ ready_q' \in Seq(Threads)
           /\ IsInjective(ready_q')
           /\ running' \notin Range(ready_q')
           /\ Range(ready_q') = Range(q) \ {running'}
           /\ \/ /\ status' = "crashed" /\ running' = NoThread
                 /\ q = <<>> /\ ready_q' = <<>> /\ Range(q) = {}
              \/ /\ status' = status
                 /\ running' \in Threads /\ running' \in Range(q)
<1>1. CASE q = <<>>
  <2>1. /\ running' = NoThread /\ ready_q' = <<>> /\ status' = "crashed"
    BY <1>1 DEF Dispatch
  <2> QED
    BY <1>1, <2>1, EmptyQueue
<1>2. CASE q # <<>>
  <2>1. /\ running' = Head(q) /\ ready_q' = Tail(q) /\ status' = status
    BY <1>2 DEF Dispatch
  <2> QED
    BY <1>2, <2>1, Dequeued
<1> QED
  BY <1>1, <1>2

-----------------------------------------------------------------------------
(***************************************************************************)
(* The inductive invariant.                                                *)
(***************************************************************************)
\* MyThreadInit establishes it.
LEMMA InitIInv == Init => IInv
<1> SUFFICES ASSUME Init PROVE IInv
  OBVIOUS
<1> USE DEF Init
<1>1. TypeOK
  <2>1. EngineTypes
    <3>1. <<>> \in Seq(Threads) /\ Root # NoThread
      OBVIOUS
    <3> QED
      BY <3>1 DEF EngineTypes
  <2>2. FieldTypes
    BY DEF FieldTypes
  <2>3. SemaphoreTypes
    BY DEF SemaphoreTypes
  <2> QED
    BY <2>1, <2>2, <2>3 DEF TypeOK
<1>2. Placement
  BY EmptyQueue DEF Placement, NobodyTwice, PlacesDisjoint, NobodyLost,
     NobodyOnDestroyed, Ready, Waiters
<1>3. SemaphoreCount
  BY DEF SemaphoreCount
<1>4. KidsAreLive /\ JoinersWillWake /\ EngineInv /\ FlagsMatchBlocking
  BY DEF KidsAreLive, JoinersWillWake, EngineInv, FlagsMatchBlocking
<1>5. KidsWellFounded
  BY DEF KidsWellFounded
<1> QED
  BY <1>1, <1>2, <1>3, <1>4, <1>5 DEF IInv

\* What every caller of the library may assume: it is live and on no queue.
LEMMA CallerFacts ==
    ASSUME IInv, status = "running"
    PROVE  /\ running \in live /\ running \in Threads
           /\ running \notin Range(ready_q)
           /\ running \notin joined_block_list
           /\ \A s \in Sems : running \notin Range(blocked_list[s])
<1>1. running \in Threads
  BY DEF IInv, TypeOK, EngineTypes
<1> QED
  BY <1>1 DEF IInv, Placement, NobodyLost, PlacesDisjoint, Ready, Waiters

LEMMA CreateKeepsIInv ==
    ASSUME IInv, NEW t \in Threads, MyThreadCreate(t)
    PROVE  IInv'
<1> USE DEF MyThreadCreate, Calling, ClearFlag
<1>0. /\ EngineTypes /\ FieldTypes /\ SemaphoreTypes
      /\ Placement /\ SemaphoreCount /\ KidsAreLive
      /\ JoinersWillWake /\ EngineInv /\ FlagsMatchBlocking /\ KidsWellFounded
  BY DEF IInv, TypeOK
<1>1. /\ running \in live /\ running \in Threads /\ running # t
      /\ running \notin joined_block_list
  BY CallerFacts
<1>2. /\ t \notin Range(ready_q) /\ t \notin joined_block_list
      /\ \A s \in Sems : t \notin Range(blocked_list[s])
  BY <1>0 DEF Placement, NobodyLost, Ready, Waiters
<1>3. /\ ready_q' \in Seq(Threads)
      /\ ready_q' # <<>>
      /\ Range(ready_q') = Range(ready_q) \cup {t}
      /\ IsInjective(ready_q')
  BY <1>0, <1>2, Enqueued DEF EngineTypes, Placement, NobodyTwice
<1>4. TypeOK'
  <2>1. EngineTypes'
    BY <1>1, <1>3, <1>0 DEF EngineTypes
  <2>2. FieldTypes'
    BY <1>1, <1>0 DEF FieldTypes
  <2>3. SemaphoreTypes'
    BY <1>0 DEF SemaphoreTypes, semaphores
  <2> QED
    BY <2>1, <2>2, <2>3 DEF TypeOK
<1>5. Placement'
  <2>1. NobodyTwice'
    BY <1>0, <1>3 DEF Placement, NobodyTwice, semaphores
  <2>2. PlacesDisjoint'
    BY <1>0, <1>1, <1>2, <1>3
    DEF Placement, PlacesDisjoint, Ready, Waiters, semaphores
  <2>3. NobodyLost'
    BY <1>0, <1>3 DEF Placement, NobodyLost, Ready, Waiters, semaphores
  <2>4. NobodyOnDestroyed'
    BY <1>0 DEF Placement, NobodyOnDestroyed, semaphores
  <2> QED
    BY <2>1, <2>2, <2>3, <2>4 DEF Placement
<1>6. SemaphoreCount'
  BY <1>0 DEF SemaphoreCount, semaphores
<1>7. KidsAreLive'
  <2> SUFFICES ASSUME NEW q \in live', NEW k \in kids'[q]
               PROVE  k \in live' /\ parent'[k] = q
    BY DEF KidsAreLive
  <2>1. q \in Threads
    BY <1>0 DEF EngineTypes
  <2>2. CASE q = t
    BY <1>0, <1>1, <2>2 DEF FieldTypes
  <2>3. CASE q # t /\ k \in kids[q]
    BY <1>0, <2>1, <2>3 DEF KidsAreLive, FieldTypes, EngineTypes
  <2>4. CASE q = running /\ k = t
    BY <1>0, <2>4 DEF FieldTypes
  <2> QED
    BY <1>0, <1>1, <2>1, <2>2, <2>3, <2>4 DEF FieldTypes
<1>8. JoinersWillWake'
  <2> SUFFICES ASSUME NEW p \in joined_block_list PROVE WillWake(p)'
    BY DEF JoinersWillWake
  <2>1. WillWake(p)
    BY <1>0 DEF JoinersWillWake
  <2>2. p \in Threads /\ p # t /\ p # running /\ p \in live
    BY <1>0, <1>1, <1>2 DEF EngineTypes, Placement, NobodyLost
  <2>3. joinedKid[p] \in kids[p] => joinedKid[p] # t
    BY <1>0, <2>2 DEF KidsAreLive
  <2>4. /\ is_joined'[p] = is_joined[p] /\ is_all_joined'[p] = is_all_joined[p]
        /\ joinedKid'[p] = joinedKid[p] /\ kids'[p] = kids[p]
    BY <1>0, <2>2 DEF FieldTypes
  <2> QED
    BY <1>0, <2>1, <2>2, <2>3, <2>4 DEF WillWake, FieldTypes
<1>9. EngineInv'
  BY <1>0, <1>1, <1>3 DEF EngineInv, EngineTypes, FieldTypes, Ready
<1>10. FlagsMatchBlocking'
  BY <1>0, <1>1, <1>2 DEF FlagsMatchBlocking, FieldTypes, EngineInv
<1>11. KidsWellFounded'
  <2> SUFFICES ASSUME NEW T \in SUBSET live', T # {}
               PROVE  \E u \in T : kids'[u] \cap T = {}
    BY DEF KidsWellFounded
  <2>1. CASE t \in T
    <3>1. kids'[t] = {}
      BY <1>0, <1>1 DEF FieldTypes
    <3> QED
      BY <2>1, <3>1
  <2>2. CASE t \notin T
    <3>1. T \in SUBSET live
      BY <2>2
    <3>2. PICK u \in T : kids[u] \cap T = {}
      BY <1>0, <3>1 DEF KidsWellFounded
    <3>3. kids'[u] \cap T = {}
      BY <1>0, <1>1, <2>2, <3>1, <3>2 DEF FieldTypes, EngineTypes
    <3> QED
      BY <3>3
  <2> QED
    BY <2>1, <2>2
<1> QED
  BY <1>4, <1>5, <1>6, <1>7, <1>8, <1>9, <1>10, <1>11 DEF IInv


\* A swap of the running thread with the front of the ready queue, as
\* MyThreadYield and the root's MyThreadExit do it.
LEMMA SwapKeepsIInv ==
    ASSUME IInv, status = "running", ready_q # <<>>, SwapRun,
           root_exiting' \in BOOLEAN,
           root_exiting' => root_exiting \/ running = Root,
           UNCHANGED <<status, joined_block_list, live, fields, semaphores>>
    PROVE  IInv'
<1> USE DEF fields, semaphores
<1>0. /\ EngineTypes /\ FieldTypes /\ SemaphoreTypes
      /\ Placement /\ SemaphoreCount /\ KidsAreLive
      /\ JoinersWillWake /\ EngineInv /\ FlagsMatchBlocking /\ KidsWellFounded
  BY DEF IInv, TypeOK
<1>1. /\ running \in live /\ running \in Threads
      /\ running \notin Range(ready_q) /\ running \notin joined_block_list
      /\ \A s \in Sems : running \notin Range(blocked_list[s])
  BY CallerFacts
<1>2. /\ Head(ready_q) \in Threads /\ Tail(ready_q) \in Seq(Threads)
      /\ Range(ready_q) = Range(Tail(ready_q)) \cup {Head(ready_q)}
      /\ Head(ready_q) \notin Range(Tail(ready_q))
      /\ IsInjective(Tail(ready_q))
  BY <1>0, Dequeued DEF EngineTypes, Placement, NobodyTwice
<1>3. /\ ready_q' \in Seq(Threads)
      /\ Range(ready_q') = (Range(ready_q) \ {running'}) \cup {running}
      /\ IsInjective(ready_q')
      /\ running' = Head(ready_q) /\ running' \in Range(ready_q)
  <2>1. running' = Head(ready_q) /\ ready_q' = Append(Tail(ready_q), running)
    BY DEF SwapRun, Rotated
  <2>2. running \notin Range(Tail(ready_q))
    BY <1>1, <1>2
  <2>3. /\ ready_q' \in Seq(Threads) /\ IsInjective(ready_q')
        /\ Range(ready_q') = Range(Tail(ready_q)) \cup {running}
    <3> DEFINE q == Tail(ready_q)
    <3>1. q \in Seq(Threads) /\ IsInjective(q) /\ running \notin Range(q)
      BY <1>2, <2>2
    <3> HIDE DEF q
    <3>2. /\ Append(q, running) \in Seq(Threads)
          /\ IsInjective(Append(q, running))
          /\ Range(Append(q, running)) = Range(q) \cup {running}
      BY <1>1, <3>1, Enqueued
    <3> QED
      BY <2>1, <3>2 DEF q
  <2>4. Range(ready_q) \ {Head(ready_q)} = Range(Tail(ready_q))
    BY <1>2
  <2> QED
    BY <1>2, <2>1, <2>3, <2>4
<1>4. TypeOK'
  <2>1. EngineTypes'
    BY <1>0, <1>2, <1>3 DEF EngineTypes
  <2>2. FieldTypes' /\ SemaphoreTypes'
    BY <1>0 DEF FieldTypes, SemaphoreTypes
  <2> QED
    BY <2>1, <2>2 DEF TypeOK
<1>5. Placement'
  <2>1. NobodyTwice'
    BY <1>0, <1>3 DEF Placement, NobodyTwice
  <2>2. PlacesDisjoint'
    BY <1>0, <1>1, <1>3 DEF Placement, PlacesDisjoint, Ready, Waiters
  <2>3. NobodyLost'
    BY <1>0, <1>1, <1>3 DEF Placement, NobodyLost, Ready, Waiters
  <2>4. NobodyOnDestroyed'
    BY <1>0 DEF Placement, NobodyOnDestroyed
  <2> QED
    BY <2>1, <2>2, <2>3, <2>4 DEF Placement
<1>6. SemaphoreCount' /\ KidsAreLive'
  BY <1>0 DEF SemaphoreCount, KidsAreLive
<1>7. JoinersWillWake'
  BY <1>0 DEF JoinersWillWake, WillWake
<1>8. EngineInv'
  BY <1>0, <1>3 DEF EngineInv, Ready
<1>9. FlagsMatchBlocking' /\ KidsWellFounded'
  BY <1>0 DEF FlagsMatchBlocking, KidsWellFounded
<1> QED
  BY <1>4, <1>5, <1>6, <1>7, <1>8, <1>9 DEF IInv

LEMMA YieldKeepsIInv ==
    ASSUME IInv, MyThreadYield
    PROVE  IInv'
<1>1. root_exiting \in BOOLEAN
  BY DEF IInv, TypeOK, EngineTypes
<1> QED
  BY <1>1, SwapKeepsIInv DEF MyThreadYield, Calling

\* When the caller joins, it moves to the join-block list and a ready thread
\* takes the CPU.
LEMMA BlockPlacement ==
    ASSUME IInv, Calling, Dispatch(ready_q),
           joined_block_list' = joined_block_list \cup {running},
           UNCHANGED <<live, root_exiting, semaphores>>
    PROVE  /\ EngineTypes' /\ Placement'
           /\ status' = "crashed" => ready_q' = <<>>
           /\ root_exiting' => Root = running' \/ Root \in Range(ready_q')
<1> USE DEF semaphores
<1>0. EngineTypes /\ SemaphoreTypes /\ Placement /\ EngineInv
  BY DEF IInv, TypeOK
<1>1. /\ running \in live /\ running \in Threads
      /\ running \notin Range(ready_q) /\ running \notin joined_block_list
      /\ \A s \in Sems : running \notin Range(blocked_list[s])
  BY CallerFacts DEF Calling
<1>2. /\ ready_q' \in Seq(Threads) /\ IsInjective(ready_q')
      /\ running' \notin Range(ready_q')
      /\ Range(ready_q') = Range(ready_q) \ {running'}
      /\ \/ /\ status' = "crashed" /\ running' = NoThread
            /\ ready_q' = <<>> /\ Range(ready_q) = {}
         \/ /\ status' = status
            /\ running' \in Threads /\ running' \in Range(ready_q)
  BY <1>0, DispatchMoves DEF EngineTypes, Placement, NobodyTwice
<1>3. status = "running"
  BY DEF Calling
<1>4. EngineTypes'
  BY <1>0, <1>1, <1>2, <1>3 DEF EngineTypes
<1>5. NobodyTwice'
  BY <1>0, <1>2 DEF Placement, NobodyTwice
<1>6. PlacesDisjoint'
  <2>1. \A s \in Sems : NoThread \notin Range(blocked_list[s])
    BY <1>0, RangeInSet DEF SemaphoreTypes
  <2>2. NoThread \notin joined_block_list
    BY <1>0 DEF EngineTypes
  <2> QED
    BY <1>0, <1>1, <1>2, <2>1, <2>2
    DEF Placement, PlacesDisjoint, Ready, Waiters
<1>7. NobodyLost'
  BY <1>0, <1>1, <1>2 DEF Placement, NobodyLost, Ready, Waiters, EngineTypes
<1>8. NobodyOnDestroyed'
  BY <1>0 DEF Placement, NobodyOnDestroyed
<1>9. root_exiting' => Root = running' \/ Root \in Range(ready_q')
  BY <1>0, <1>2 DEF EngineInv, Calling, Ready
<1> QED
  BY <1>2, <1>3, <1>4, <1>5, <1>6, <1>7, <1>8, <1>9 DEF Placement

LEMMA JoinKeepsIInv ==
    ASSUME IInv, NEW t \in Threads, MyThreadJoin(t)
    PROVE  IInv'
<1> USE DEF MyThreadJoin, Joinable
<1>0. /\ EngineTypes /\ FieldTypes /\ SemaphoreTypes
      /\ Placement /\ SemaphoreCount /\ KidsAreLive
      /\ JoinersWillWake /\ EngineInv /\ FlagsMatchBlocking /\ KidsWellFounded
  BY DEF IInv, TypeOK
<1>1. /\ running \in live /\ running \in Threads
      /\ running \notin joined_block_list
  BY CallerFacts DEF Calling
<1>2. /\ EngineTypes' /\ Placement'
      /\ status' = "crashed" => ready_q' = <<>>
      /\ root_exiting' => Root = running' \/ Root \in Range(ready_q')
  BY BlockPlacement
<1>3. t \in live /\ parent[t] = running
  BY <1>0, <1>1 DEF KidsAreLive
\* The caller was not blocked, so its flags were clear.
<1>4. ~is_joined[running] /\ ~is_all_joined[running]
  BY <1>0, <1>1 DEF FlagsMatchBlocking
<1>5. TypeOK'
  <2>1. FieldTypes'
    BY <1>0, <1>1 DEF FieldTypes
  <2>2. SemaphoreTypes'
    BY <1>0 DEF SemaphoreTypes, semaphores
  <2> QED
    BY <1>2, <2>1, <2>2 DEF TypeOK
<1>6. SemaphoreCount' /\ KidsAreLive' /\ KidsWellFounded'
  BY <1>0 DEF SemaphoreCount, KidsAreLive, KidsWellFounded, semaphores
<1>7. JoinersWillWake'
  <2> SUFFICES ASSUME NEW p \in joined_block_list' PROVE WillWake(p)'
    BY DEF JoinersWillWake
  <2>1. CASE p = running
    BY <1>0, <1>1, <1>4, <2>1 DEF WillWake, FieldTypes
  <2>2. CASE p # running
    <3>1. p \in Threads /\ WillWake(p)
      BY <1>0, <2>2 DEF JoinersWillWake, EngineTypes
    <3> QED
      BY <1>0, <2>2, <3>1 DEF WillWake, FieldTypes
  <2> QED
    BY <2>1, <2>2
<1>8. EngineInv'
  BY <1>0, <1>2 DEF EngineInv, Ready
<1>9. FlagsMatchBlocking'
  <2>1. ASSUME NEW p \in Threads, is_joined'[p] \/ is_all_joined'[p]
        PROVE  p \in joined_block_list'
    BY <1>0, <2>1 DEF FlagsMatchBlocking, FieldTypes
  <2>2. ASSUME NEW k \in live', joined_parent'[k]
        PROVE  k # Root /\ is_joined'[parent'[k]] /\ joinedKid'[parent'[k]] = k
    <3>1. CASE k = t
      <4>1. t # Root
        BY <1>0, <1>1, <1>3 DEF KidsAreLive, EngineInv
      <4> QED
        BY <1>0, <1>1, <1>3, <3>1, <4>1 DEF FieldTypes
    <3>2. CASE k # t
      <4>1. k \in live /\ k \in Threads /\ joined_parent[k]
        BY <1>0, <2>2, <3>2 DEF FieldTypes, EngineTypes
      <4>2. k # Root /\ is_joined[parent[k]] /\ joinedKid[parent[k]] = k
        BY <1>0, <4>1 DEF FlagsMatchBlocking
      <4>3. parent[k] \in Threads /\ parent[k] # running
        BY <1>0, <1>4, <4>1, <4>2 DEF EngineInv
      <4> QED
        BY <1>0, <4>2, <4>3 DEF FieldTypes
    <3> QED
      BY <3>1, <3>2
  <2> QED
    BY <2>1, <2>2 DEF FlagsMatchBlocking
<1> QED
  BY <1>5, <1>2, <1>6, <1>7, <1>8, <1>9 DEF IInv


LEMMA JoinAllKeepsIInv ==
    ASSUME IInv, MyThreadJoinAll
    PROVE  IInv'
<1> USE DEF MyThreadJoinAll
<1>0. /\ EngineTypes /\ FieldTypes /\ SemaphoreTypes
      /\ Placement /\ SemaphoreCount /\ KidsAreLive
      /\ JoinersWillWake /\ EngineInv /\ FlagsMatchBlocking /\ KidsWellFounded
  BY DEF IInv, TypeOK
<1>1. /\ running \in live /\ running \in Threads
      /\ running \notin joined_block_list
  BY CallerFacts DEF Calling
<1>2. /\ EngineTypes' /\ Placement'
      /\ status' = "crashed" => ready_q' = <<>>
      /\ root_exiting' => Root = running' \/ Root \in Range(ready_q')
  BY BlockPlacement
<1>3. ~is_joined[running] /\ ~is_all_joined[running]
  BY <1>0, <1>1 DEF FlagsMatchBlocking
<1>4. TypeOK'
  <2>1. FieldTypes'
    BY <1>0, <1>1 DEF FieldTypes
  <2>2. SemaphoreTypes'
    BY <1>0 DEF SemaphoreTypes, semaphores
  <2> QED
    BY <1>2, <2>1, <2>2 DEF TypeOK
<1>5. SemaphoreCount' /\ KidsAreLive' /\ KidsWellFounded'
  BY <1>0 DEF SemaphoreCount, KidsAreLive, KidsWellFounded, semaphores
<1>6. JoinersWillWake'
  <2> SUFFICES ASSUME NEW p \in joined_block_list' PROVE WillWake(p)'
    BY DEF JoinersWillWake
  <2>1. CASE p = running
    BY <1>0, <1>1, <1>3, <2>1 DEF WillWake, FieldTypes
  <2>2. CASE p # running
    <3>1. p \in Threads /\ WillWake(p)
      BY <1>0, <2>2 DEF JoinersWillWake, EngineTypes
    <3> QED
      BY <1>0, <2>2, <3>1 DEF WillWake, FieldTypes
  <2> QED
    BY <2>1, <2>2
<1>7. EngineInv'
  BY <1>0, <1>2 DEF EngineInv, Ready
<1>8. FlagsMatchBlocking'
  BY <1>0 DEF FlagsMatchBlocking, FieldTypes
<1> QED
  BY <1>4, <1>2, <1>5, <1>6, <1>7, <1>8 DEF IInv

\* What the exit of the running thread finds: it wakes nobody, or it wakes its
\* parent, which is live, blocked, and waits for it.
LEMMA ExitFacts ==
    ASSUME IInv, status = "running", running # Root
    PROVE  /\ parent[running] \in Threads
           /\ WakesJoiner(running) \/ WakesJoinAll(running) =>
                 /\ parent[running] \in joined_block_list
                 /\ running \in kids[parent[running]]
                 /\ Woken(running) = <<parent[running]>>
           /\ ~(WakesJoiner(running) /\ WakesJoinAll(running))
           /\ ~(WakesJoiner(running) \/ WakesJoinAll(running)) =>
                 Woken(running) = <<>>
<1> DEFINE p == parent[running]
<1>0. /\ FieldTypes /\ KidsAreLive /\ Placement /\ EngineTypes
      /\ JoinersWillWake /\ EngineInv /\ FlagsMatchBlocking
  BY DEF IInv, TypeOK
<1>1. running \in live
  BY CallerFacts
<1>2. p \in Threads
  BY <1>0, <1>1 DEF EngineInv
<1>3. WakesJoiner(running) =>
        /\ p \in joined_block_list /\ running \in kids[p]
        /\ is_joined[p] /\ ~is_all_joined[p]
  <2> HAVE WakesJoiner(running)
  <2>1. is_joined[p] /\ joinedKid[p] = running
    BY <1>0, <1>1 DEF FlagsMatchBlocking, WakesJoiner
  <2>2. p \in joined_block_list
    BY <1>0, <1>2, <2>1 DEF FlagsMatchBlocking
  <2>3. WillWake(p)
    BY <1>0, <2>2 DEF JoinersWillWake
  <2> QED
    BY <2>1, <2>2, <2>3 DEF WillWake
<1>4. WakesJoinAll(running) =>
        p \in joined_block_list /\ running \in kids[p] /\ is_all_joined[p]
  <2> HAVE WakesJoinAll(running)
  <2>1. is_all_joined[p] /\ kids[p] \ {running} = {}
    BY DEF WakesJoinAll
  <2>2. p \in joined_block_list
    BY <1>0, <1>2, <2>1 DEF FlagsMatchBlocking
  <2>3. kids[p] # {}
    BY <1>0, <2>1, <2>2 DEF JoinersWillWake, WillWake
  <2> QED
    BY <2>1, <2>2, <2>3
<1>5. ~(WakesJoiner(running) /\ WakesJoinAll(running))
  BY <1>3, <1>4
<1>6. /\ <<>> \o <<>> = <<>>
      /\ <<p>> \o <<>> = <<p>>
      /\ <<>> \o <<p>> = <<p>>
  OBVIOUS
<1>7. CASE WakesJoiner(running)
  BY <1>2, <1>3, <1>5, <1>6, <1>7 DEF Woken
<1>8. CASE WakesJoinAll(running)
  BY <1>2, <1>4, <1>5, <1>6, <1>8 DEF Woken
<1>9. CASE ~WakesJoiner(running) /\ ~WakesJoinAll(running)
  BY <1>2, <1>6, <1>9 DEF Woken
<1> QED
  BY <1>7, <1>8, <1>9


LEMMA ExitKeepsIInv ==
    ASSUME IInv, MyThreadExit
    PROVE  IInv'
<1> DEFINE t == running
           p == parent[running]
           wakes == WakesJoiner(running) \/ WakesJoinAll(running)
           q == ready_q \o Woken(running)
<1>0. /\ EngineTypes /\ FieldTypes /\ SemaphoreTypes
      /\ Placement /\ SemaphoreCount /\ KidsAreLive
      /\ JoinersWillWake /\ EngineInv /\ FlagsMatchBlocking /\ KidsWellFounded
  BY DEF IInv, TypeOK
<1>1. /\ status = "running" /\ t # Root
      /\ live' = live \ {t}
      /\ joined_block_list' =
            IF wakes THEN joined_block_list \ {p} ELSE joined_block_list
      /\ Dispatch(q)
      /\ UNCHANGED <<root_exiting, parent, joined_parent, sems, value, blocked_list>>
  BY DEF MyThreadExit, Calling, semaphores
<1>2. /\ kids' = [kids EXCEPT ![p] = kids[p] \ {t}]
      /\ is_joined' = [is_joined EXCEPT ![p] = is_joined[p] /\ ~WakesJoiner(t)]
      /\ joinedKid' = [joinedKid EXCEPT ![p] =
                         IF WakesJoiner(t) THEN NoThread ELSE joinedKid[p]]
      /\ is_all_joined' = [is_all_joined EXCEPT ![p] =
                             is_all_joined[p] /\ ~WakesJoinAll(t)]
  BY DEF MyThreadExit, KidsWithout
<1>3. /\ t \in live /\ t \in Threads
      /\ t \notin Range(ready_q) /\ t \notin joined_block_list
      /\ \A s \in Sems : t \notin Range(blocked_list[s])
  BY <1>1, CallerFacts
<1>4. /\ p \in Threads
      /\ wakes => /\ p \in joined_block_list /\ t \in kids[p]
                  /\ Woken(t) = <<p>>
      /\ ~(WakesJoiner(t) /\ WakesJoinAll(t))
      /\ ~wakes => Woken(t) = <<>>
  BY <1>1, ExitFacts
\* The queue Dispatch sees: the ready queue and, at its end, the parent.
<1>5. /\ q \in Seq(Threads) /\ IsInjective(q)
      /\ Range(q) = IF wakes THEN Range(ready_q) \cup {p} ELSE Range(ready_q)
  <2>1. ready_q \in Seq(Threads) /\ IsInjective(ready_q)
    BY <1>0 DEF EngineTypes, Placement, NobodyTwice
  <2>2. CASE wakes
    <3>1. q = Append(ready_q, p)
      BY <1>4, <2>1, <2>2, Concat
    <3>2. p \notin Range(ready_q)
      BY <1>0, <1>4, <2>2 DEF Placement, PlacesDisjoint, Ready
    <3>3. /\ Append(ready_q, p) \in Seq(Threads)
          /\ IsInjective(Append(ready_q, p))
          /\ Range(Append(ready_q, p)) = Range(ready_q) \cup {p}
      BY <1>4, <2>1, <3>2, Enqueued
    <3> QED
      BY <2>2, <3>1, <3>3
  <2>3. CASE ~wakes
    <3>1. q = ready_q
      BY <1>4, <2>1, <2>3
    <3> QED
      BY <2>1, <2>3, <3>1
  <2> QED
    BY <2>2, <2>3
<1>6. /\ ready_q' \in Seq(Threads) /\ IsInjective(ready_q')
      /\ running' \notin Range(ready_q')
      /\ Range(ready_q') = Range(q) \ {running'}
      /\ \/ /\ status' = "crashed" /\ running' = NoThread
            /\ ready_q' = <<>> /\ Range(q) = {}
         \/ /\ status' = status
            /\ running' \in Threads /\ running' \in Range(q)
  <2> HIDE DEF q
  <2> QED
    BY <1>1, <1>5, DispatchMoves
<1>7. TypeOK'
  <2>1. EngineTypes'
    BY <1>0, <1>1, <1>6 DEF EngineTypes
  <2>2. FieldTypes'
    BY <1>0, <1>1, <1>2, <1>4 DEF FieldTypes
  <2>3. SemaphoreTypes'
    BY <1>0, <1>1 DEF SemaphoreTypes
  <2> QED
    BY <2>1, <2>2, <2>3 DEF TypeOK
<1>8. Placement'
  <2> HIDE DEF wakes, q
  <2>1. NobodyTwice'
    BY <1>0, <1>1, <1>6 DEF Placement, NobodyTwice
  <2>2. PlacesDisjoint'
    <3>1. \A s \in Sems : NoThread \notin Range(blocked_list[s])
      BY <1>0, RangeInSet DEF SemaphoreTypes
    <3>2. NoThread \notin joined_block_list
      BY <1>0 DEF EngineTypes
    <3>3. /\ Range(ready_q) \cap joined_block_list = {}
          /\ \A s \in Sems :
                /\ Range(blocked_list[s]) \cap Range(ready_q) = {}
                /\ Range(blocked_list[s]) \cap joined_block_list = {}
                /\ \A r \in Sems : r # s =>
                      Range(blocked_list[s]) \cap Range(blocked_list[r]) = {}
      BY <1>0 DEF Placement, PlacesDisjoint, Ready, Waiters
    <3>4. /\ Range(q) \cap joined_block_list' = {}
          /\ joined_block_list' \subseteq joined_block_list
          /\ \A s \in Sems : Range(blocked_list[s]) \cap Range(q) = {}
      BY <1>1, <1>4, <1>5, <3>3
    <3>5. /\ running' \notin joined_block_list'
          /\ \A s \in Sems : running' \notin Range(blocked_list[s])
      BY <1>6, <3>1, <3>2, <3>4
    <3> QED
      BY <1>1, <1>6, <3>3, <3>4, <3>5 DEF PlacesDisjoint, Ready, Waiters
  <2>3. NobodyLost'
    BY <1>0, <1>1, <1>3, <1>4, <1>5, <1>6
    DEF Placement, NobodyLost, Ready, Waiters, EngineTypes
  <2>4. NobodyOnDestroyed'
    BY <1>0, <1>1 DEF Placement, NobodyOnDestroyed
  <2> QED
    BY <2>1, <2>2, <2>3, <2>4 DEF Placement
<1>9. SemaphoreCount'
  BY <1>0, <1>1 DEF SemaphoreCount
<1>10. KidsAreLive'
  <2> SUFFICES ASSUME NEW u \in live', NEW k \in kids'[u]
               PROVE  k \in live' /\ parent'[k] = u
    BY DEF KidsAreLive
  <2>1. u \in live /\ u \in Threads /\ k \in kids[u]
    BY <1>0, <1>1, <1>2, <1>4 DEF FieldTypes, EngineTypes
  <2>2. k \in live /\ parent[k] = u
    BY <1>0, <2>1 DEF KidsAreLive
  <2>3. k # t
    BY <1>0, <1>2, <1>4, <2>2 DEF FieldTypes
  <2> QED
    BY <1>1, <2>2, <2>3
\* A parent that stays blocked waits for another kid.
<1>11. JoinersWillWake'
  <2> SUFFICES ASSUME NEW u \in joined_block_list' PROVE WillWake(u)'
    BY DEF JoinersWillWake
  <2>1. u \in joined_block_list /\ u \in Threads
    BY <1>0, <1>1 DEF EngineTypes
  <2>2. WillWake(u)
    BY <1>0, <2>1 DEF JoinersWillWake
  <2>3. CASE u # p
    BY <1>0, <1>1, <1>2, <2>1, <2>2, <2>3 DEF WillWake, FieldTypes
  <2>4. CASE u = p
    <3>1. ~WakesJoiner(t) /\ ~WakesJoinAll(t)
      BY <1>1, <2>4
    <3>2. ~joined_parent[t] /\ (is_all_joined[p] => kids[p] \ {t} # {})
      BY <3>1 DEF WakesJoiner, WakesJoinAll
    <3>3. /\ is_joined'[p] = is_joined[p] /\ is_all_joined'[p] = is_all_joined[p]
          /\ joinedKid'[p] = joinedKid[p] /\ kids'[p] = kids[p] \ {t}
      BY <1>0, <1>2, <1>4, <3>1 DEF FieldTypes
    <3> QED
      BY <1>1, <2>2, <2>4, <3>2, <3>3 DEF WillWake
  <2> QED
    BY <2>3, <2>4
<1>12. EngineInv'
  BY <1>0, <1>1, <1>5, <1>6 DEF EngineInv, Ready
<1>13. FlagsMatchBlocking'
  <2>1. ASSUME NEW u \in Threads, is_joined'[u] \/ is_all_joined'[u]
        PROVE  u \in joined_block_list'
    <3>1. CASE u # p
      BY <1>0, <1>1, <1>2, <2>1, <3>1 DEF FlagsMatchBlocking, FieldTypes
    <3>2. CASE u = p
      <4>1. /\ is_joined'[p] = (is_joined[p] /\ ~WakesJoiner(t))
            /\ is_all_joined'[p] = (is_all_joined[p] /\ ~WakesJoinAll(t))
        BY <1>0, <1>2, <1>4 DEF FieldTypes
      <4>2. p \in joined_block_list
        BY <1>0, <1>4, <2>1, <3>2, <4>1 DEF FlagsMatchBlocking
      <4>3. WillWake(p)
        BY <1>0, <4>2 DEF JoinersWillWake
      <4>4. CASE WakesJoiner(t)
        <5>1. is_joined[p]
          BY <1>0, <1>3, <4>4 DEF FlagsMatchBlocking, WakesJoiner
        <5> QED
          BY <2>1, <3>2, <4>1, <4>3, <4>4, <5>1 DEF WillWake
      <4>5. CASE WakesJoinAll(t)
        <5>1. is_all_joined[p]
          BY <4>5 DEF WakesJoinAll
        <5> QED
          BY <2>1, <3>2, <4>1, <4>3, <4>5, <5>1 DEF WillWake
      <4>6. CASE ~wakes
        BY <1>1, <3>2, <4>2, <4>6
      <4> QED
        BY <4>4, <4>5, <4>6
    <3> QED
      BY <3>1, <3>2
  <2>2. ASSUME NEW k \in live', joined_parent'[k]
        PROVE  k # Root /\ is_joined'[parent'[k]] /\ joinedKid'[parent'[k]] = k
    <3>1. k \in live /\ k # t /\ joined_parent[k]
      BY <1>1, <2>2
    <3>2. k # Root /\ is_joined[parent[k]] /\ joinedKid[parent[k]] = k
      BY <1>0, <3>1 DEF FlagsMatchBlocking
    <3>3. parent[k] \in Threads
      BY <1>0, <3>1, <3>2 DEF EngineInv
    <3>4. CASE parent[k] # p
      BY <1>0, <1>1, <1>2, <3>2, <3>3, <3>4 DEF FieldTypes
    <3>5. CASE parent[k] = p
      <4>1. ~WakesJoiner(t)
        BY <1>0, <1>3, <3>1, <3>2, <3>5 DEF FlagsMatchBlocking, WakesJoiner
      <4> QED
        BY <1>0, <1>1, <1>2, <1>4, <3>2, <3>5, <4>1 DEF FieldTypes
    <3> QED
      BY <3>4, <3>5
  <2> QED
    BY <2>1, <2>2 DEF FlagsMatchBlocking
<1>14. KidsWellFounded'
  <2> SUFFICES ASSUME NEW T \in SUBSET live', T # {}
               PROVE  \E u \in T : kids'[u] \cap T = {}
    BY DEF KidsWellFounded
  <2>1. PICK u \in T : kids[u] \cap T = {}
    BY <1>0, <1>1 DEF KidsWellFounded
  <2>2. kids'[u] \cap T = {}
    BY <1>0, <1>1, <1>2, <1>4, <2>1 DEF FieldTypes, EngineTypes
  <2> QED
    BY <2>2
<1> QED
  BY <1>7, <1>8, <1>9, <1>10, <1>11, <1>12, <1>13, <1>14 DEF IInv


LEMMA ExitRootKeepsIInv ==
    ASSUME IInv, MyThreadExitRoot
    PROVE  IInv'
<1>1. status = "running" /\ running = Root /\ root_exiting' = TRUE
  BY DEF MyThreadExitRoot
<1>2. CASE ready_q # <<>>
  BY <1>1, <1>2, SwapKeepsIInv DEF MyThreadExitRoot
<1>3. CASE ready_q = <<>>
  <2> USE <1>1, <1>3 DEF MyThreadExitRoot, fields, semaphores
  <2>1. TypeOK'
    BY DEF IInv, TypeOK, EngineTypes, FieldTypes, SemaphoreTypes
  <2>2. Placement'
    BY DEF IInv, Placement, NobodyTwice, PlacesDisjoint, NobodyLost,
           NobodyOnDestroyed, Ready, Waiters
  <2>3. SemaphoreCount' /\ KidsAreLive' /\ JoinersWillWake'
    BY DEF IInv, SemaphoreCount, KidsAreLive, JoinersWillWake, WillWake
  <2>4. EngineInv' /\ FlagsMatchBlocking' /\ KidsWellFounded'
    BY DEF IInv, EngineInv, FlagsMatchBlocking, KidsWellFounded, Ready
  <2> QED
    BY <2>1, <2>2, <2>3, <2>4 DEF IInv
<1> QED
  BY <1>2, <1>3

-----------------------------------------------------------------------------
(***************************************************************************)
(* The semaphore operations leave the threads' fields alone.               *)
(***************************************************************************)
LEMMA FieldsFrame ==
    ASSUME IInv, UNCHANGED <<joined_block_list, live, fields>>
    PROVE  /\ FieldTypes' /\ KidsAreLive' /\ JoinersWillWake'
           /\ FlagsMatchBlocking' /\ KidsWellFounded'
<1> USE DEF IInv, fields
<1>1. FieldTypes'
  BY DEF TypeOK, FieldTypes
<1>2. KidsAreLive' /\ JoinersWillWake'
  BY DEF KidsAreLive, JoinersWillWake, WillWake
<1>3. FlagsMatchBlocking' /\ KidsWellFounded'
  BY DEF FlagsMatchBlocking, KidsWellFounded
<1> QED
  BY <1>1, <1>2, <1>3

LEMMA SemaphoreInitKeepsIInv ==
    ASSUME IInv, NEW s \in Sems, NEW v \in 0 .. MaxValue, MySemaphoreInit(s, v)
    PROVE  IInv'
<1> USE DEF MySemaphoreInit
<1>0. /\ EngineTypes /\ SemaphoreTypes /\ Placement /\ SemaphoreCount /\ EngineInv
  BY DEF IInv, TypeOK
\* The blocked list of a semaphore that did not exist was empty already.
<1>1. blocked_list' = blocked_list /\ sems \subseteq sems'
  BY <1>0 DEF Placement, NobodyOnDestroyed, SemaphoreTypes
<1>2. TypeOK'
  <2>1. EngineTypes'
    BY <1>0 DEF EngineTypes
  <2>2. SemaphoreTypes'
    BY <1>0, <1>1 DEF SemaphoreTypes
  <2> QED
    BY <2>1, <2>2, FieldsFrame DEF TypeOK
<1>3. Placement'
  BY <1>0, <1>1 DEF Placement, NobodyTwice, PlacesDisjoint, NobodyLost,
                    NobodyOnDestroyed, Ready, Waiters
<1>4. SemaphoreCount'
  <2>1. Len(blocked_list[s]) = 0 /\ value'[s] = v
    BY <1>0 DEF Placement, NobodyOnDestroyed, SemaphoreTypes
  <2>2. \A r \in sems : r # s /\ value'[r] = value[r]
    BY <1>0 DEF SemaphoreTypes
  <2> QED
    BY <1>0, <1>1, <2>1, <2>2 DEF SemaphoreCount
<1>5. EngineInv'
  BY <1>0 DEF EngineInv, Ready, fields
<1> QED
  BY <1>2, <1>3, <1>4, <1>5, FieldsFrame DEF IInv

LEMMA SemaphoreDestroyKeepsIInv ==
    ASSUME IInv, NEW s \in Sems, MySemaphoreDestroy(s)
    PROVE  IInv'
<1> USE DEF MySemaphoreDestroy, Destroyable
<1>0. /\ EngineTypes /\ SemaphoreTypes /\ Placement /\ SemaphoreCount /\ EngineInv
  BY DEF IInv, TypeOK
<1>1. TypeOK'
  <2>1. EngineTypes' /\ SemaphoreTypes'
    BY <1>0 DEF EngineTypes, SemaphoreTypes
  <2> QED
    BY <2>1, FieldsFrame DEF TypeOK
<1>2. Placement'
  BY <1>0 DEF Placement, NobodyTwice, PlacesDisjoint, NobodyLost,
              NobodyOnDestroyed, Ready, Waiters
<1>3. SemaphoreCount' /\ EngineInv'
  BY <1>0 DEF SemaphoreCount, EngineInv, Ready, fields
<1> QED
  BY <1>1, <1>2, <1>3, FieldsFrame DEF IInv


LEMMA SignalKeepsIInv ==
    ASSUME IInv, NEW s \in Sems, MySemaphoreSignal(s)
    PROVE  IInv'
<1> DEFINE b == blocked_list[s]
<1>0. /\ EngineTypes /\ SemaphoreTypes /\ Placement /\ SemaphoreCount /\ EngineInv
  BY DEF IInv, TypeOK
<1>1. /\ s \in sems /\ value[s] \in Int /\ b \in Seq(Threads) /\ IsInjective(b)
      /\ Len(b) = IF value[s] < 0 THEN -value[s] ELSE 0
  BY <1>0 DEF SemaphoreTypes, SemaphoreCount, MySemaphoreSignal, Placement,
              NobodyTwice
<1>2. /\ UNCHANGED <<status, running, joined_block_list, live, root_exiting,
                     fields, sems>>
      /\ value' = [value EXCEPT ![s] = value[s] + 1]
  BY DEF MySemaphoreSignal
<1>3. CASE ~ReleasesWaiter(value[s] + 1)
  <2>1. UNCHANGED <<ready_q, blocked_list>>
    BY <1>3 DEF MySemaphoreSignal
  <2>2. TypeOK'
    <3>1. EngineTypes' /\ SemaphoreTypes'
      BY <1>0, <1>1, <1>2, <2>1 DEF EngineTypes, SemaphoreTypes
    <3> QED
      BY <1>2, <3>1, FieldsFrame DEF TypeOK
  <2>3. Placement'
    BY <1>0, <1>2, <2>1
    DEF Placement, NobodyTwice, PlacesDisjoint, NobodyLost, NobodyOnDestroyed,
        Ready, Waiters
  <2>4. SemaphoreCount'
    BY <1>0, <1>1, <1>2, <1>3, <2>1
    DEF SemaphoreCount, SemaphoreTypes, ReleasesWaiter
  <2>5. EngineInv'
    BY <1>0, <1>2, <2>1 DEF EngineInv, Ready, fields
  <2> QED
    BY <1>2, <2>2, <2>3, <2>4, <2>5, FieldsFrame DEF IInv
<1>4. CASE ReleasesWaiter(value[s] + 1)
  <2>1. value[s] < 0 /\ Len(b) > 0 /\ Len(b) = -value[s]
    BY <1>1, <1>4 DEF ReleasesWaiter
  <2>2. b # <<>>
    <3>1. Len(<<>>) = 0
      OBVIOUS
    <3> QED
      BY <2>1, <3>1
  <2>3. /\ ready_q' = ready_q \o <<Head(b)>>
        /\ blocked_list' = [blocked_list EXCEPT ![s] = Tail(b)]
    <3>1. /\ ready_q' = ready_q \o Front(b)
          /\ blocked_list' = [blocked_list EXCEPT ![s] = Rest(b)]
      BY <1>4 DEF MySemaphoreSignal
    <3>2. Front(b) = <<Head(b)>> /\ Rest(b) = Tail(b)
      BY <2>2 DEF Front, Rest
    <3> QED
      BY <3>1, <3>2
  <2> HIDE DEF b
  <2>4. /\ Head(b) \in Threads /\ Tail(b) \in Seq(Threads)
        /\ Len(Tail(b)) = Len(b) - 1
        /\ Range(b) = Range(Tail(b)) \cup {Head(b)}
        /\ IsInjective(Tail(b)) /\ Head(b) \notin Range(Tail(b))
    BY <1>1, <2>2, Dequeued
  \* The released waiter was on no other queue.
  <2>5. /\ Head(b) \notin Range(ready_q) /\ Head(b) \notin joined_block_list
        /\ Head(b) # running /\ Head(b) \in live
        /\ \A r \in Sems : r # s => Head(b) \notin Range(blocked_list[r])
    BY <1>0, <2>4 DEF b, Placement, PlacesDisjoint, NobodyLost, Ready, Waiters
  <2>6. /\ ready_q' \in Seq(Threads) /\ IsInjective(ready_q')
        /\ ready_q' # <<>>
        /\ Range(ready_q') = Range(ready_q) \cup {Head(b)}
    <3>1. ready_q \in Seq(Threads) /\ IsInjective(ready_q)
      BY <1>0 DEF EngineTypes, Placement, NobodyTwice
    <3>2. ready_q' = Append(ready_q, Head(b))
      BY <2>3, <2>4, <3>1, Concat
    <3>3. /\ Append(ready_q, Head(b)) \in Seq(Threads)
          /\ IsInjective(Append(ready_q, Head(b)))
          /\ Append(ready_q, Head(b)) # <<>>
          /\ Range(Append(ready_q, Head(b))) = Range(ready_q) \cup {Head(b)}
      BY <2>4, <2>5, <3>1, Enqueued
    <3> QED
      BY <3>2, <3>3
  <2>7. /\ blocked_list'[s] = Tail(b)
        /\ \A r \in Sems : r # s => blocked_list'[r] = blocked_list[r]
    BY <1>0, <2>3 DEF SemaphoreTypes
  <2>8. TypeOK'
    <3>1. EngineTypes'
      BY <1>0, <1>2, <2>6 DEF EngineTypes
    <3>2. SemaphoreTypes'
      BY <1>0, <1>1, <1>2, <2>3, <2>4 DEF SemaphoreTypes
    <3> QED
      BY <1>2, <3>1, <3>2, FieldsFrame DEF TypeOK
  <2>9. Placement'
    <3>1. NobodyTwice'
      BY <1>0, <2>4, <2>6, <2>7 DEF Placement, NobodyTwice
    <3>2. PlacesDisjoint'
      <4>1. \A r \in Sems : Range(blocked_list'[r]) \subseteq Range(blocked_list[r])
        BY <2>4, <2>7 DEF b
      <4>2. \A r \in Sems : Head(b) \notin Range(blocked_list'[r])
        BY <2>4, <2>5, <2>7
      <4>3. /\ Range(ready_q) \cap joined_block_list = {}
            /\ running \notin Range(ready_q) /\ running \notin joined_block_list
            /\ \A r \in Sems :
                  /\ Range(blocked_list[r]) \cap Range(ready_q) = {}
                  /\ Range(blocked_list[r]) \cap joined_block_list = {}
                  /\ running \notin Range(blocked_list[r])
                  /\ \A o \in Sems : o # r =>
                        Range(blocked_list[r]) \cap Range(blocked_list[o]) = {}
        BY <1>0 DEF Placement, PlacesDisjoint, Ready, Waiters
      <4>4. /\ Range(ready_q') \cap joined_block_list' = {}
            /\ running' \notin Range(ready_q') \cup joined_block_list'
        BY <1>2, <2>5, <2>6, <4>3
      <4>5. ASSUME NEW r \in Sems
            PROVE  /\ Range(blocked_list'[r]) \cap
                        (Range(ready_q') \cup joined_block_list') = {}
                   /\ running' \notin Range(blocked_list'[r])
        <5>1. /\ Range(blocked_list'[r]) \cap Range(ready_q) = {}
              /\ Range(blocked_list'[r]) \cap joined_block_list = {}
              /\ running \notin Range(blocked_list'[r])
          BY <4>1, <4>3
        <5>2. Range(blocked_list'[r]) \cap Range(ready_q') = {}
          BY <2>6, <4>2, <5>1
        <5> QED
          BY <1>2, <5>1, <5>2
      <4>6. ASSUME NEW r \in Sems, NEW o \in Sems, o # r
            PROVE  Range(blocked_list'[r]) \cap Range(blocked_list'[o]) = {}
        BY <4>1, <4>3, <4>6
      <4> QED
        BY <4>4, <4>5, <4>6 DEF PlacesDisjoint, Ready, Waiters
    <3>3. NobodyLost'
      <4> SUFFICES ASSUME NEW t \in Threads
                   PROVE  (t \in live' <=> \/ t = running'
                                           \/ t \in Range(ready_q')
                                           \/ t \in joined_block_list'
                                           \/ \E r \in Sems : t \in Range(blocked_list'[r]))
        BY DEF NobodyLost, Ready, Waiters
      <4>1. t \in live <=> \/ t = running
                           \/ t \in Range(ready_q)
                           \/ t \in joined_block_list
                           \/ \E r \in Sems : t \in Range(blocked_list[r])
        BY <1>0 DEF Placement, NobodyLost, Ready, Waiters
      <4>2. CASE t = Head(b)
        BY <1>2, <2>5, <2>6, <4>2
      <4>3. CASE t # Head(b)
        <5>1. \A r \in Sems : t \in Range(blocked_list'[r]) <=>
                               t \in Range(blocked_list[r])
          BY <2>4, <2>7, <4>3 DEF b
        <5> QED
          BY <1>2, <2>6, <4>1, <4>3, <5>1
      <4> QED
        BY <4>2, <4>3
    <3>4. NobodyOnDestroyed'
      BY <1>0, <1>1, <1>2, <2>7 DEF Placement, NobodyOnDestroyed
    <3> QED
      BY <3>1, <3>2, <3>3, <3>4 DEF Placement
  <2>10. SemaphoreCount'
    <3> SUFFICES ASSUME NEW r \in sems
                 PROVE  Len(blocked_list'[r]) =
                          IF value'[r] < 0 THEN -value'[r] ELSE 0
      BY <1>2 DEF SemaphoreCount
    <3>1. CASE r = s
      <4>1. value'[s] = value[s] + 1
        BY <1>0, <1>2 DEF SemaphoreTypes
      <4> QED
        BY <1>1, <2>1, <2>4, <2>7, <3>1, <4>1
    <3>2. CASE r # s
      <4>1. r \in Sems /\ value'[r] = value[r]
        BY <1>0, <1>2, <3>2 DEF SemaphoreTypes
      <4> QED
        BY <1>0, <2>7, <3>2, <4>1 DEF SemaphoreCount
    <3> QED
      BY <3>1, <3>2
  <2>11. EngineInv'
    <3>1. status # "crashed"
      BY DEF MySemaphoreSignal, Calling
    <3> QED
      BY <1>0, <1>2, <2>6, <3>1 DEF EngineInv, Ready, fields
  <2> QED
    BY <1>2, <2>8, <2>9, <2>10, <2>11, FieldsFrame DEF IInv
<1> QED
  BY <1>3, <1>4

LEMMA WaitKeepsIInv ==
    ASSUME IInv, NEW s \in Sems, MySemaphoreWait(s)
    PROVE  IInv'
<1> DEFINE b == blocked_list[s]
<1>0. /\ EngineTypes /\ SemaphoreTypes /\ Placement /\ SemaphoreCount /\ EngineInv
  BY DEF IInv, TypeOK
<1>1. /\ s \in sems /\ value[s] \in Int /\ b \in Seq(Threads) /\ IsInjective(b)
      /\ Len(b) = IF value[s] < 0 THEN -value[s] ELSE 0
  BY <1>0 DEF SemaphoreTypes, SemaphoreCount, MySemaphoreWait, Placement,
              NobodyTwice
<1>2. /\ UNCHANGED <<joined_block_list, live, root_exiting, fields, sems>>
      /\ value' = [value EXCEPT ![s] = value[s] - 1]
      /\ status = "running" /\ ~(root_exiting /\ running = Root)
  BY DEF MySemaphoreWait, Calling
<1>3. CASE ~MustWait(value[s] - 1)
  <2>1. UNCHANGED <<status, running, ready_q, blocked_list>>
    BY <1>3 DEF MySemaphoreWait
  <2>2. TypeOK'
    <3>1. EngineTypes' /\ SemaphoreTypes'
      BY <1>0, <1>1, <1>2, <2>1 DEF EngineTypes, SemaphoreTypes
    <3> QED
      BY <1>2, <3>1, FieldsFrame DEF TypeOK
  <2>3. Placement'
    BY <1>0, <1>2, <2>1
    DEF Placement, NobodyTwice, PlacesDisjoint, NobodyLost, NobodyOnDestroyed,
        Ready, Waiters
  <2>4. SemaphoreCount'
    BY <1>0, <1>1, <1>2, <1>3, <2>1 DEF SemaphoreCount, SemaphoreTypes, MustWait
  <2>5. EngineInv'
    BY <1>0, <1>2, <2>1 DEF EngineInv, Ready, fields
  <2> QED
    BY <1>2, <2>2, <2>3, <2>4, <2>5, FieldsFrame DEF IInv
<1>4. CASE MustWait(value[s] - 1)
  <2>1. /\ blocked_list' = [blocked_list EXCEPT ![s] = Append(b, running)]
        /\ Dispatch(ready_q)
    BY <1>4 DEF MySemaphoreWait
  <2>2. /\ running \in live /\ running \in Threads
        /\ running \notin Range(ready_q) /\ running \notin joined_block_list
        /\ \A r \in Sems : running \notin Range(blocked_list[r])
    BY <1>2, CallerFacts
  <2>3. /\ ready_q' \in Seq(Threads) /\ IsInjective(ready_q')
        /\ running' \notin Range(ready_q')
        /\ Range(ready_q') = Range(ready_q) \ {running'}
        /\ \/ /\ status' = "crashed" /\ running' = NoThread
              /\ ready_q' = <<>> /\ Range(ready_q) = {}
           \/ /\ status' = status
              /\ running' \in Threads /\ running' \in Range(ready_q)
    BY <1>0, <2>1, DispatchMoves DEF EngineTypes, Placement, NobodyTwice
  <2> HIDE DEF b
  <2>4. /\ Append(b, running) \in Seq(Threads)
        /\ Len(Append(b, running)) = Len(b) + 1
        /\ Range(Append(b, running)) = Range(b) \cup {running}
        /\ IsInjective(Append(b, running))
    <3>1. running \notin Range(b)
      BY <2>2 DEF b
    <3> QED
      BY <1>1, <2>2, <3>1, Enqueued
  <2>5. /\ blocked_list'[s] = Append(b, running)
        /\ \A r \in Sems : r # s => blocked_list'[r] = blocked_list[r]
    BY <1>0, <2>1 DEF SemaphoreTypes
  <2>6. TypeOK'
    <3>1. EngineTypes'
      BY <1>0, <1>2, <2>3 DEF EngineTypes
    <3>2. SemaphoreTypes'
      BY <1>0, <1>1, <1>2, <2>1, <2>4 DEF SemaphoreTypes
    <3> QED
      BY <1>2, <3>1, <3>2, FieldsFrame DEF TypeOK
  <2>7. Placement'
    <3>1. NobodyTwice'
      BY <1>0, <2>3, <2>4, <2>5 DEF Placement, NobodyTwice
    <3>2. PlacesDisjoint'
      <4>1. /\ running' \notin joined_block_list
            /\ running' # running
            /\ \A r \in Sems : running' \notin Range(blocked_list[r])
        <5>1. \A r \in Sems : NoThread \notin Range(blocked_list[r])
          BY <1>0, RangeInSet DEF SemaphoreTypes
        <5>2. NoThread \notin joined_block_list
          BY <1>0 DEF EngineTypes
        <5> QED
          BY <1>0, <2>2, <2>3, <5>1, <5>2
          DEF Placement, PlacesDisjoint, Ready, Waiters
      <4>2. \A r \in Sems : Range(blocked_list'[r]) =
                              Range(blocked_list[r]) \cup (IF r = s THEN {running} ELSE {})
        BY <2>4, <2>5 DEF b
      <4>3. /\ Range(ready_q) \cap joined_block_list = {}
            /\ running \notin Range(ready_q) /\ running \notin joined_block_list
            /\ \A r \in Sems :
                  /\ Range(blocked_list[r]) \cap Range(ready_q) = {}
                  /\ Range(blocked_list[r]) \cap joined_block_list = {}
                  /\ running \notin Range(blocked_list[r])
                  /\ \A o \in Sems : o # r =>
                        Range(blocked_list[r]) \cap Range(blocked_list[o]) = {}
        BY <1>0 DEF Placement, PlacesDisjoint, Ready, Waiters
      <4>4. /\ Range(ready_q') \cap joined_block_list' = {}
            /\ running' \notin Range(ready_q') \cup joined_block_list'
        BY <1>2, <2>3, <4>1, <4>3
      <4>5. ASSUME NEW r \in Sems
            PROVE  /\ Range(blocked_list'[r]) \cap
                        (Range(ready_q') \cup joined_block_list') = {}
                   /\ running' \notin Range(blocked_list'[r])
        BY <1>2, <2>2, <2>3, <4>1, <4>2, <4>3
      <4>6. ASSUME NEW r \in Sems, NEW o \in Sems, o # r
            PROVE  Range(blocked_list'[r]) \cap Range(blocked_list'[o]) = {}
        BY <2>2, <4>2, <4>3, <4>6
      <4> QED
        BY <4>4, <4>5, <4>6 DEF PlacesDisjoint, Ready, Waiters
    <3>3. NobodyLost'
      <4> SUFFICES ASSUME NEW t \in Threads
                   PROVE  (t \in live' <=> \/ t = running'
                                           \/ t \in Range(ready_q')
                                           \/ t \in joined_block_list'
                                           \/ \E r \in Sems : t \in Range(blocked_list'[r]))
        BY DEF NobodyLost, Ready, Waiters
      <4>1. t \in live <=> \/ t = running
                           \/ t \in Range(ready_q)
                           \/ t \in joined_block_list
                           \/ \E r \in Sems : t \in Range(blocked_list[r])
        BY <1>0 DEF Placement, NobodyLost, Ready, Waiters
      <4>2. CASE t = running
        BY <1>2, <2>2, <2>4, <2>5, <4>2
      <4>3. CASE t # running
        <5>1. \A r \in Sems : t \in Range(blocked_list'[r]) <=>
                               t \in Range(blocked_list[r])
          BY <2>4, <2>5, <4>3 DEF b
        <5>2. (t = running' \/ t \in Range(ready_q')) <=> t \in Range(ready_q)
          BY <2>3
        <5> QED
          BY <1>2, <4>1, <4>3, <5>1, <5>2
      <4> QED
        BY <4>2, <4>3
    <3>4. NobodyOnDestroyed'
      BY <1>0, <1>1, <1>2, <2>5 DEF Placement, NobodyOnDestroyed
    <3> QED
      BY <3>1, <3>2, <3>3, <3>4 DEF Placement
  <2>8. SemaphoreCount'
    <3> SUFFICES ASSUME NEW r \in sems
                 PROVE  Len(blocked_list'[r]) =
                          IF value'[r] < 0 THEN -value'[r] ELSE 0
      BY <1>2 DEF SemaphoreCount
    <3>1. CASE r = s
      <4>1. value'[s] = value[s] - 1
        BY <1>0, <1>2 DEF SemaphoreTypes
      <4> QED
        BY <1>1, <1>4, <2>4, <2>5, <3>1, <4>1 DEF MustWait
    <3>2. CASE r # s
      <4>1. r \in Sems /\ value'[r] = value[r]
        BY <1>0, <1>2, <3>2 DEF SemaphoreTypes
      <4> QED
        BY <1>0, <2>5, <3>2, <4>1 DEF SemaphoreCount
    <3> QED
      BY <3>1, <3>2
  <2>9. EngineInv'
    BY <1>0, <1>2, <2>3 DEF EngineInv, Ready, fields
  <2> QED
    BY <1>2, <2>6, <2>7, <2>8, <2>9, FieldsFrame DEF IInv
<1> QED
  BY <1>3, <1>4

-----------------------------------------------------------------------------
(***************************************************************************)
(* Every step keeps the invariant, so it holds throughout.                 *)
(***************************************************************************)
LEMMA NextKeepsIInv == IInv /\ [Next]_vars => IInv'
<1> SUFFICES ASSUME IInv, [Next]_vars PROVE IInv'
  OBVIOUS
<1>1. ASSUME NEW t \in Threads, MyThreadCreate(t) PROVE IInv'
  BY <1>1, CreateKeepsIInv
<1>2. ASSUME NEW t \in Threads, MyThreadJoin(t) PROVE IInv'
  BY <1>2, JoinKeepsIInv
<1>3. CASE MyThreadYield
  BY <1>3, YieldKeepsIInv
<1>4. CASE MyThreadJoinAll
  BY <1>4, JoinAllKeepsIInv
<1>5. CASE MyThreadExit
  BY <1>5, ExitKeepsIInv
<1>6. CASE MyThreadExitRoot
  BY <1>6, ExitRootKeepsIInv
<1>7. ASSUME NEW s \in Sems, NEW v \in 0 .. MaxValue, MySemaphoreInit(s, v)
      PROVE  IInv'
  BY <1>7, SemaphoreInitKeepsIInv
<1>8. ASSUME NEW s \in Sems, MySemaphoreSignal(s) PROVE IInv'
  BY <1>8, SignalKeepsIInv
<1>9. ASSUME NEW s \in Sems, MySemaphoreWait(s) PROVE IInv'
  BY <1>9, WaitKeepsIInv
<1>10. ASSUME NEW s \in Sems, MySemaphoreDestroy(s) PROVE IInv'
  BY <1>10, SemaphoreDestroyKeepsIInv
<1>11. CASE UNCHANGED vars
  <2> USE <1>11 DEF vars, fields, semaphores
  <2>1. TypeOK'
    BY DEF IInv, TypeOK, EngineTypes, FieldTypes, SemaphoreTypes
  <2>2. Placement'
    BY DEF IInv, Placement, NobodyTwice, PlacesDisjoint, NobodyLost,
           NobodyOnDestroyed, Ready, Waiters
  <2>3. SemaphoreCount' /\ KidsAreLive' /\ JoinersWillWake'
    BY DEF IInv, SemaphoreCount, KidsAreLive, JoinersWillWake, WillWake
  <2>4. EngineInv' /\ FlagsMatchBlocking' /\ KidsWellFounded'
    BY DEF IInv, EngineInv, FlagsMatchBlocking, KidsWellFounded, Ready
  <2> QED
    BY <2>1, <2>2, <2>3, <2>4 DEF IInv
<1> QED
  BY <1>1, <1>2, <1>3, <1>4, <1>5, <1>6, <1>7, <1>8, <1>9, <1>10, <1>11 DEF Next

\* The inductive invariant holds in every reachable state.
THEOREM Invariance == Spec => []IInv
  BY InitIInv, NextKeepsIInv, PTL DEF Spec


-----------------------------------------------------------------------------
(***************************************************************************)
(* The properties of MyThread that the invariant implies.                  *)
(***************************************************************************)
\* Type correctness of the whole library state.
THEOREM TypeCorrect == Spec => []TypeOK
  BY Invariance, PTL DEF IInv

\* Every live thread is in exactly one place.
THEOREM ThreadsArePlaced == Spec => []Placement
  BY Invariance, PTL DEF IInv

\* A semaphore has units or waiters, and as many waiters as its value says.
THEOREM SemaphoresCount == Spec => []SemaphoreCount
  BY Invariance, PTL DEF IInv

\* No wakeup of a joiner is lost.
THEOREM NoLostWakeup == Spec => []JoinersWillWake
  BY Invariance, PTL DEF IInv

\* An exit wakes its blocked parent or nobody, orphans included.
LEMMA IInvWakes == IInv => WakesOnlyJoiners
<1> SUFFICES ASSUME IInv, NEW t \in live \ {Root}
             PROVE  /\ WakesJoiner(t) \/ WakesJoinAll(t) =>
                          /\ parent[t] \in joined_block_list
                          /\ t \in kids[parent[t]]
                    /\ ~(WakesJoiner(t) /\ WakesJoinAll(t))
  BY DEF WakesOnlyJoiners
<1> DEFINE p == parent[t]
<1>0. /\ JoinersWillWake /\ EngineInv /\ FlagsMatchBlocking
  BY DEF IInv
<1>1. p \in Threads
  BY <1>0 DEF EngineInv
<1>2. WakesJoiner(t) =>
        p \in joined_block_list /\ t \in kids[p] /\ ~is_all_joined[p]
  <2> HAVE WakesJoiner(t)
  <2>1. is_joined[p] /\ joinedKid[p] = t
    BY <1>0 DEF FlagsMatchBlocking, WakesJoiner
  <2>2. p \in joined_block_list
    BY <1>0, <1>1, <2>1 DEF FlagsMatchBlocking
  <2> QED
    BY <1>0, <2>1, <2>2 DEF JoinersWillWake, WillWake
<1>3. WakesJoinAll(t) => p \in joined_block_list /\ t \in kids[p]
  <2> HAVE WakesJoinAll(t)
  <2>1. is_all_joined[p] /\ kids[p] \ {t} = {}
    BY DEF WakesJoinAll
  <2>2. p \in joined_block_list
    BY <1>0, <1>1, <2>1 DEF FlagsMatchBlocking
  <2>3. kids[p] # {}
    BY <1>0, <2>1, <2>2 DEF JoinersWillWake, WillWake
  <2> QED
    BY <2>1, <2>2, <2>3
<1>4. WakesJoinAll(t) => is_all_joined[p]
  BY DEF WakesJoinAll
<1> QED
  BY <1>2, <1>3, <1>4

THEOREM ExitWakesOnlyJoiners == Spec => []WakesOnlyJoiners
  BY Invariance, IInvWakes, PTL

\* The process dies in a dispatch only when everybody is blocked and somebody
\* waits on a semaphore: joins alone never deadlock.  If all live threads were
\* joining, KidsWellFounded would give one of them without a live kid.
LEMMA IInvCrash == IInv => CrashNeedsSemaphore
<1> SUFFICES ASSUME IInv, status = "crashed"
             PROVE  /\ ready_q = <<>>
                    /\ \A t \in live : \/ t \in joined_block_list
                                       \/ \E s \in sems : t \in Waiters(s)
                    /\ \E s \in sems : blocked_list[s] # <<>>
  BY DEF CrashNeedsSemaphore
<1>0. /\ EngineTypes /\ Placement /\ KidsAreLive /\ JoinersWillWake
      /\ EngineInv /\ KidsWellFounded
  BY DEF IInv, TypeOK
<1>1. ready_q = <<>> /\ Ready = {} /\ running = NoThread
  BY <1>0, EmptyQueue DEF EngineInv, EngineTypes, Ready
<1>2. \A s \in Sems : s \notin sems => Waiters(s) = {}
  BY <1>0, EmptyQueue DEF Placement, NobodyOnDestroyed, Waiters
<1>3. \A t \in live : t \in joined_block_list \/ \E s \in sems : t \in Waiters(s)
  BY <1>0, <1>1, <1>2 DEF Placement, NobodyLost, EngineTypes
<1>4. \E s \in sems : blocked_list[s] # <<>>
  <2> SUFFICES ASSUME \A s \in sems : blocked_list[s] = <<>> PROVE FALSE
    OBVIOUS
  <2>1. live \subseteq joined_block_list
    BY <1>3, EmptyQueue DEF Waiters
  <2>2. PICK t \in live : kids[t] \cap live = {}
    BY <1>0 DEF KidsWellFounded, EngineInv
  <2>3. kids[t] # {} /\ kids[t] \subseteq live
    BY <1>0, <2>1 DEF JoinersWillWake, WillWake, KidsAreLive
  <2> QED
    BY <2>2, <2>3
<1> QED
  BY <1>1, <1>3, <1>4

THEOREM JoinsNeverDeadlock == Spec => []CrashNeedsSemaphore
  BY Invariance, IInvCrash, PTL

\* Once the root is in MyThreadExit no dispatch can find an empty queue.
LEMMA IInvRootExit == IInv => RootExitIsClean
<1> SUFFICES ASSUME IInv, root_exiting
             PROVE  status # "crashed" /\ running # NoThread
  BY DEF RootExitIsClean
<1>1. CASE Root = running
  BY <1>1 DEF IInv, TypeOK, EngineTypes
<1>2. CASE Root \in Ready
  BY <1>2, EmptyQueue DEF IInv, TypeOK, EngineTypes, EngineInv, Ready
<1> QED
  BY <1>1, <1>2 DEF IInv, EngineInv

THEOREM RootExitNeverCrashes == Spec => []RootExitIsClean
  BY Invariance, IInvRootExit, PTL

-----------------------------------------------------------------------------
(***************************************************************************)
(* The refinement: MyThread implements ThreadService.  Each call of the    *)
(* library is a step the service allows, or none.                          *)
(***************************************************************************)
\* The variables of the service that are not variables of the library.
Waiting == [s \in Sems |-> Waiters(s)]

-----------------------------------------------------------------------------
(***************************************************************************)
(* What the mapping leaves alone.                                          *)
(***************************************************************************)
\* A step that does not touch the semaphores does not touch what the service
\* sees of them.
LEMMA SemaphoresFrame ==
    ASSUME UNCHANGED semaphores
    PROVE  Units' = Units /\ Waiting' = Waiting
BY DEF semaphores, Units, Waiting, Waiters

\* One that does not touch a thread's fields or the list of joiners changes
\* nobody's reason to wait.
LEMMA AwaitsFrame ==
    ASSUME UNCHANGED <<joined_block_list, fields>>
    PROVE  Awaits' = Awaits
BY DEF fields, Awaits

\* Dispatch passes the CPU on, or crashes as the service does.
LEMMA DispatchPasses ==
    ASSUME NEW q \in Seq(Threads), IsInjective(q), Dispatch(q)
    PROVE  Service!PassTo(Range(q))
<1>1. Ready' = Range(q) \ {running'}
  BY DispatchMoves DEF Ready
<1>2. CASE Range(q) = {}
  BY <1>1, <1>2, DispatchMoves DEF Service!PassTo
<1>3. CASE Range(q) # {}
  BY <1>1, <1>3, DispatchMoves DEF Service!PassTo
<1> QED
  BY <1>2, <1>3

-----------------------------------------------------------------------------
(***************************************************************************)
(* The calls about threads.                                                *)
(***************************************************************************)
\* MyThreadCreate makes a thread ready that was not alive.
LEMMA CreateSpawns ==
    ASSUME IInv, NEW t \in Threads, MyThreadCreate(t)
    PROVE  Service!Spawn(t)
<1>1. /\ status = "running" /\ t \notin live /\ live' = live \cup {t}
      /\ ready_q' = Append(ready_q, t)
      /\ kids' = [kids EXCEPT ![t] = {}, ![running] = @ \cup {t}]
      /\ is_joined' = [is_joined EXCEPT ![t] = FALSE]
      /\ joinedKid' = [joinedKid EXCEPT ![t] = NoThread]
      /\ UNCHANGED <<status, running, joined_block_list, semaphores>>
  BY DEF MyThreadCreate, Calling, ClearFlag
<1>2. Ready' = Ready \cup {t}
  BY <1>1, Enqueued DEF Ready, IInv, TypeOK, EngineTypes
<1>3. Awaits' = Awaits
  <2>1. running \notin joined_block_list /\ t \notin joined_block_list
    BY <1>1, CallerFacts DEF IInv, Placement, NobodyLost
  <2>2. /\ kids \in [Threads -> SUBSET Threads]
        /\ is_joined \in [Threads -> BOOLEAN]
        /\ joinedKid \in [Threads -> Threads \cup {NoThread}]
    BY DEF IInv, TypeOK, FieldTypes
  <2>3. \A u \in joined_block_list :
           u \in Threads => kids'[u] = kids[u] /\ is_joined'[u] = is_joined[u]
                            /\ joinedKid'[u] = joinedKid[u]
    BY <1>1, <2>1, <2>2
  <2> QED
    BY <1>1, <2>3 DEF Awaits
<1>4. Units' = Units /\ Waiting' = Waiting
  BY <1>1, SemaphoresFrame
<1> QED
  BY <1>1, <1>2, <1>3, <1>4 DEF Service!Spawn, Service!Up, Waiting

\* A swap gives the CPU to the front and makes the caller ready.
LEMMA SwapGivesUp ==
    ASSUME IInv, status = "running", ready_q # <<>>, SwapRun,
           UNCHANGED <<status, joined_block_list, live, fields, semaphores>>
    PROVE  Service!GiveUp
<1>1. /\ ready_q \in Seq(Threads) /\ IsInjective(ready_q) /\ running \in Threads
  BY CallerFacts DEF IInv, TypeOK, EngineTypes, Placement, NobodyTwice
<1>2. /\ running' = Head(ready_q) /\ running' \in Ready
      /\ Tail(ready_q) \in Seq(Threads)
      /\ Range(Tail(ready_q)) = Ready \ {running'}
  BY <1>1, Dequeued DEF SwapRun, Ready
<1>3. Ready' = (Ready \ {running'}) \cup {running}
  <2> DEFINE q == Tail(ready_q)
  <2>1. ready_q' = Append(q, running) /\ q \in Seq(Threads)
    BY <1>2 DEF SwapRun, Rotated
  <2>2. Range(q) = Ready \ {running'}
    BY <1>2
  <2> HIDE DEF q
  <2> QED
    BY <1>1, <2>1, <2>2, Enqueued DEF Ready
<1>4. Units' = Units /\ Waiting' = Waiting /\ Awaits' = Awaits
  BY SemaphoresFrame, AwaitsFrame
<1> QED
  BY <1>2, <1>3, <1>4 DEF Service!GiveUp, Service!Up, Waiting

\* A thread is not its own kid.
LEMMA NotOwnKid ==
    ASSUME IInv, NEW t \in live
    PROVE  t \notin kids[t] /\ kids[t] \subseteq live
<1>1. live \subseteq Threads /\ kids \in [Threads -> SUBSET Threads]
  BY DEF IInv, TypeOK, EngineTypes, FieldTypes
<1>2. kids[t] \subseteq live
  BY <1>1 DEF IInv, KidsAreLive
<1>3. {t} \in SUBSET live /\ {t} # {}
  OBVIOUS
<1>4. PICK u \in {t} : kids[u] \cap {t} = {}
  BY <1>3 DEF IInv, KidsWellFounded
<1> QED
  BY <1>2, <1>4

\* MyThreadJoin makes the caller wait for the one kid.
LEMMA JoinAwaits ==
    ASSUME IInv, NEW t \in Threads, MyThreadJoin(t)
    PROVE  Service!Await({t})
<1>1. /\ status = "running" /\ t \in kids[running]
      /\ is_joined' = [is_joined EXCEPT ![running] = TRUE]
      /\ joinedKid' = [joinedKid EXCEPT ![running] = t]
      /\ joined_block_list' = joined_block_list \cup {running}
      /\ Dispatch(ready_q)
      /\ UNCHANGED <<live, kids, is_all_joined, semaphores>>
  BY DEF MyThreadJoin, Calling, Joinable
<1>2. running \in Threads /\ running \in live /\ running \notin joined_block_list
  BY <1>1, CallerFacts
<1>3. t \in live \ {running}
  BY <1>1, <1>2, NotOwnKid
<1>4. Awaits' = [Awaits EXCEPT ![running] = {t}]
  <2>1. /\ is_joined \in [Threads -> BOOLEAN]
        /\ joinedKid \in [Threads -> Threads \cup {NoThread}]
    BY DEF IInv, TypeOK, FieldTypes
  <2>2. ASSUME NEW u \in Threads
        PROVE  Awaits'[u] = IF u = running THEN {t} ELSE Awaits[u]
    BY <1>1, <1>2, <2>1 DEF Awaits
  <2> QED
    BY <2>2 DEF Awaits
<1>5. Service!PassTo(Ready)
  BY <1>1, DispatchPasses DEF IInv, TypeOK, EngineTypes, Placement, NobodyTwice, Ready
<1>6. Units' = Units /\ Waiting' = Waiting
  BY <1>1, SemaphoresFrame
<1> QED
  BY <1>1, <1>3, <1>4, <1>5, <1>6 DEF Service!Await, Service!Up, Waiting

\* MyThreadJoinAll makes it wait for all its kids.
LEMMA JoinAllAwaits ==
    ASSUME IInv, MyThreadJoinAll
    PROVE  Service!Await(kids[running])
<1>1. /\ status = "running" /\ kids[running] # {}
      /\ joined_block_list' = joined_block_list \cup {running}
      /\ Dispatch(ready_q)
      /\ UNCHANGED <<live, kids, is_joined, joinedKid, semaphores>>
  BY DEF MyThreadJoinAll, Calling
<1>2. running \in Threads /\ running \in live /\ running \notin joined_block_list
  BY <1>1, CallerFacts
<1>3. kids[running] \subseteq live \ {running}
  BY <1>1, <1>2, NotOwnKid
<1>4. ~is_joined[running]
  BY <1>2 DEF IInv, FlagsMatchBlocking
<1>5. Awaits' = [Awaits EXCEPT ![running] = kids[running]]
  <2>1. ASSUME NEW u \in Threads
        PROVE  Awaits'[u] = IF u = running THEN kids[running] ELSE Awaits[u]
    BY <1>1, <1>2, <1>4 DEF Awaits
  <2> QED
    BY <2>1 DEF Awaits
<1>6. Service!PassTo(Ready)
  BY <1>1, DispatchPasses DEF IInv, TypeOK, EngineTypes, Placement, NobodyTwice, Ready
<1>7. Units' = Units /\ Waiting' = Waiting
  BY <1>1, SemaphoresFrame
<1> QED
  BY <1>1, <1>3, <1>5, <1>6, <1>7 DEF Service!Await, Service!Up, Waiting

\* A blocked joiner is alive and awaits kids of its own.
LEMMA JoinersAwaitKids ==
    ASSUME IInv, NEW p \in joined_block_list
    PROVE  /\ p \in Threads /\ p \in live
           /\ Awaits[p] \subseteq kids[p]
           /\ \A k \in Awaits[p] : parent[k] = p
           /\ is_joined[p] => joined_parent[joinedKid[p]]
           /\ ~is_joined[p] => is_all_joined[p]
<1>1. p \in Threads /\ p \in live /\ WillWake(p)
  BY DEF IInv, TypeOK, EngineTypes, Placement, NobodyLost, JoinersWillWake
<1>2. Awaits[p] \subseteq kids[p]
  BY <1>1 DEF Awaits, WillWake
<1> QED
  BY <1>1, <1>2 DEF WillWake, IInv, KidsAreLive

\* The joiner that awaits the exit of the running thread and of nobody else is
\* the parent MyThreadExit wakes.
LEMMA WokenAwaitsExit ==
    ASSUME IInv, status = "running", running # Root
    PROVE  /\ WakesJoiner(running) \/ WakesJoinAll(running) =>
                 {t \in live : Awaits[t] = {running}} = {parent[running]}
           /\ ~(WakesJoiner(running) \/ WakesJoinAll(running)) =>
                 {t \in live : Awaits[t] = {running}} = {}
<1> DEFINE p == parent[running]
           wakes == WakesJoiner(running) \/ WakesJoinAll(running)
<1>1. live \subseteq Threads /\ running \in live
  BY CallerFacts DEF IInv, TypeOK, EngineTypes
<1>2. ASSUME NEW t \in live, Awaits[t] = {running}
      PROVE  t = p /\ wakes
  <2>1. t \in joined_block_list
    BY <1>1, <1>2 DEF Awaits
  <2>2. t = p
    BY <1>2, <2>1, JoinersAwaitKids
  <2>3. CASE is_joined[t]
    <3>1. joinedKid[t] = running
      BY <1>1, <1>2, <2>1, <2>3 DEF Awaits
    <3> QED
      BY <2>1, <2>2, <2>3, <3>1, JoinersAwaitKids DEF WakesJoiner
  <2>4. CASE ~is_joined[t]
    <3>1. kids[t] = {running}
      BY <1>1, <1>2, <2>1, <2>4 DEF Awaits
    <3> QED
      BY <2>1, <2>2, <2>4, <3>1, JoinersAwaitKids DEF WakesJoinAll
  <2> QED
    BY <2>3, <2>4
<1>3. ASSUME wakes PROVE p \in live /\ Awaits[p] = {running}
  <2>1. p \in joined_block_list /\ running \in kids[p] /\ p \in Threads
    BY <1>3, ExitFacts
  <2>2. p \in live /\ WillWake(p)
    BY <2>1, JoinersAwaitKids DEF IInv, JoinersWillWake
  <2>3. CASE WakesJoiner(running)
    <3>1. is_joined[p] /\ joinedKid[p] = running
      BY <1>1, <2>3 DEF IInv, FlagsMatchBlocking, WakesJoiner
    <3> QED
      BY <2>1, <2>2, <3>1 DEF Awaits
  <2>4. CASE WakesJoinAll(running)
    <3>1. is_all_joined[p] /\ kids[p] = {running}
      BY <2>1, <2>4 DEF WakesJoinAll
    <3> QED
      BY <2>1, <2>2, <3>1 DEF Awaits, WillWake
  <2> QED
    BY <1>3, <2>3, <2>4
<1> QED
  BY <1>2, <1>3

\* MyThreadExit wakes exactly the joiner that has nobody left to wait for.
LEMMA ExitExits ==
    ASSUME IInv, MyThreadExit
    PROVE  Service!Exit
<1> DEFINE p == parent[running]
           wakes == WakesJoiner(running) \/ WakesJoinAll(running)
           q == ready_q \o Woken(running)
<1>1. /\ status = "running" /\ running # Root
      /\ kids' = [kids EXCEPT ![p] = kids[p] \ {running}]
      /\ is_joined' = [is_joined EXCEPT ![p] = @ /\ ~WakesJoiner(running)]
      /\ joinedKid' = [joinedKid EXCEPT ![p] =
                         IF WakesJoiner(running) THEN NoThread ELSE @]
      /\ joined_block_list' =
           IF wakes THEN joined_block_list \ {p} ELSE joined_block_list
      /\ live' = live \ {running}
      /\ Dispatch(q)
      /\ UNCHANGED semaphores
  BY DEF MyThreadExit, Calling, KidsWithout
<1>2. /\ running \in live /\ p \in Threads
      /\ wakes => Woken(running) = <<p>> /\ p \in joined_block_list
      /\ ~wakes => Woken(running) = <<>>
  BY <1>1, CallerFacts, ExitFacts
<1>3. /\ kids \in [Threads -> SUBSET Threads]
      /\ is_joined \in [Threads -> BOOLEAN]
      /\ joinedKid \in [Threads -> Threads \cup {NoThread}]
  BY DEF IInv, TypeOK, FieldTypes
<1>4. /\ q \in Seq(Threads) /\ IsInjective(q)
      /\ Range(q) = Ready \cup {t \in live : Awaits[t] = {running}}
  <2>1. ready_q \in Seq(Threads) /\ IsInjective(ready_q)
    BY DEF IInv, TypeOK, EngineTypes, Placement, NobodyTwice
  <2>2. CASE wakes
    <3>1. q = Append(ready_q, p)
      BY <1>2, <2>1, <2>2, Concat
    <3>2. p \notin Range(ready_q)
      BY <1>2, <2>2 DEF IInv, Placement, PlacesDisjoint, Ready
    <3>3. /\ Append(ready_q, p) \in Seq(Threads)
          /\ IsInjective(Append(ready_q, p))
          /\ Range(Append(ready_q, p)) = Range(ready_q) \cup {p}
      BY <1>2, <2>1, <3>2, Enqueued
    <3> QED
      BY <1>1, <2>2, <3>1, <3>3, WokenAwaitsExit DEF Ready
  <2>3. CASE ~wakes
    <3>1. q = ready_q
      BY <1>2, <2>1, <2>3
    <3> QED
      BY <1>1, <2>1, <2>3, <3>1, WokenAwaitsExit DEF Ready
  <2> QED
    BY <2>2, <2>3
<1>5. Service!PassTo(Ready \cup {t \in live : Awaits[t] = {running}})
  <2> HIDE DEF q
  <2> QED
    BY <1>1, <1>4, DispatchPasses
<1>6. Awaits' = [t \in Threads |-> Awaits[t] \ {running}]
  <2>1. ASSUME NEW t \in Threads PROVE Awaits'[t] = Awaits[t] \ {running}
    <3>1. CASE t \notin joined_block_list
      BY <1>1, <2>1, <3>1 DEF Awaits
    <3>2. CASE t \in joined_block_list /\ t # p
      <4>1. running \notin Awaits[t]
        BY <3>2, JoinersAwaitKids
      <4>2. /\ t \in joined_block_list' /\ kids'[t] = kids[t]
            /\ is_joined'[t] = is_joined[t] /\ joinedKid'[t] = joinedKid[t]
        BY <1>1, <1>3, <3>2
      <4>3. Awaits'[t] = Awaits[t]
        BY <3>2, <4>2 DEF Awaits
      <4> QED
        BY <4>1, <4>3
    <3>3. CASE t = p /\ wakes
      <4>1. Awaits[t] = {running}
        BY <1>1, <3>3, WokenAwaitsExit
      <4>2. Awaits'[t] = {}
        BY <1>1, <2>1, <3>3 DEF Awaits
      <4> QED
        BY <4>1, <4>2
    <3>4. CASE t \in joined_block_list /\ t = p /\ ~wakes
      <4>1. /\ t \in joined_block_list' /\ kids'[t] = kids[t] \ {running}
            /\ is_joined'[t] = is_joined[t] /\ joinedKid'[t] = joinedKid[t]
        BY <1>1, <1>2, <1>3, <3>4
      <4>2. is_joined[t] => joinedKid[t] # running
        BY <3>4, JoinersAwaitKids DEF WakesJoiner
      <4> QED
        BY <2>1, <3>4, <4>1, <4>2 DEF Awaits
    <3> QED
      BY <3>1, <3>2, <3>3, <3>4
  <2> QED
    BY <2>1 DEF Awaits
<1>7. Units' = Units /\ Waiting' = Waiting
  BY <1>1, SemaphoresFrame
<1> QED
  BY <1>1, <1>5, <1>6, <1>7 DEF Service!Exit, Service!Up, Waiting

\* The root's exit gives the CPU away, or ends a process in which nobody is
\* left to run.
LEMMA ExitRootEnds ==
    ASSUME IInv, MyThreadExitRoot
    PROVE  Service!GiveUp \/ Service!ProcessExit
<1>1. /\ status = "running" /\ running = Root
      /\ UNCHANGED <<joined_block_list, live, fields, semaphores>>
  BY DEF MyThreadExitRoot
<1>2. CASE ready_q # <<>> /\ SwapRun /\ status' = status
  BY <1>1, <1>2, SwapGivesUp
<1>3. CASE ready_q = <<>> /\ status' = "exited" /\ UNCHANGED <<running, ready_q>>
  <2>1. Ready = {} /\ Ready' = {}
    BY <1>3, EmptyQueue DEF Ready
  <2>2. Units' = Units /\ Waiting' = Waiting /\ Awaits' = Awaits
    BY <1>1, SemaphoresFrame, AwaitsFrame
  <2> QED
    BY <1>1, <1>3, <2>1, <2>2 DEF Service!ProcessExit, Service!Up, Waiting
<1> QED
  BY <1>2, <1>3 DEF MyThreadExitRoot

-----------------------------------------------------------------------------
(***************************************************************************)
(* The calls about semaphores.                                             *)
(***************************************************************************)
\* A semaphore with waiters has no units, and the other way round.
LEMMA UnitsOrWaiters ==
    ASSUME IInv, NEW s \in sems
    PROVE  /\ s \in Sems /\ value[s] \in Int
           /\ blocked_list[s] \in Seq(Threads) /\ IsInjective(blocked_list[s])
           /\ Len(blocked_list[s]) \in Nat
           /\ value[s] < 0 <=> blocked_list[s] # <<>>
           /\ value[s] < 0 <=> Waiters(s) # {}
<1>1. /\ s \in Sems /\ value[s] \in Int
      /\ blocked_list[s] \in Seq(Threads) /\ IsInjective(blocked_list[s])
      /\ Len(blocked_list[s]) = IF value[s] < 0 THEN -value[s] ELSE 0
  BY DEF IInv, TypeOK, SemaphoreTypes, SemaphoreCount, Placement, NobodyTwice
<1>2. Len(blocked_list[s]) \in Nat
  BY <1>1
<1>3. blocked_list[s] # <<>> => value[s] < 0 /\ Waiters(s) # {}
  BY <1>1, Dequeued DEF Waiters
<1>4. blocked_list[s] = <<>> => ~(value[s] < 0) /\ Waiters(s) = {}
  <2> HAVE blocked_list[s] = <<>>
  <2>1. Len(blocked_list[s]) = 0
    OBVIOUS
  <2> QED
    BY <1>1, <2>1, EmptyQueue DEF Waiters
<1> QED
  BY <1>1, <1>2, <1>3, <1>4

\* MySemaphoreInit makes a semaphore nobody waits on.
LEMMA InitIsNew ==
    ASSUME IInv, NEW s \in Sems, NEW n \in 0 .. MaxValue, MySemaphoreInit(s, n)
    PROVE  Service!NewSemaphore(s, n)
<1>1. /\ status = "running" /\ s \notin sems
      /\ value' = [value EXCEPT ![s] = n]
      /\ blocked_list' = [blocked_list EXCEPT ![s] = <<>>]
      /\ UNCHANGED <<status, running, ready_q, joined_block_list, live, fields>>
  BY DEF MySemaphoreInit, Calling
<1>2. value \in [Sems -> Int] /\ blocked_list \in [Sems -> Seq(Threads)]
  BY DEF IInv, TypeOK, SemaphoreTypes
<1>3. blocked_list[s] = <<>> /\ blocked_list' = blocked_list
  BY <1>1, <1>2 DEF IInv, Placement, NobodyOnDestroyed
<1>4. Waiting' = Waiting /\ Waiting[s] = {}
  BY <1>3, EmptyQueue DEF Waiting, Waiters
<1>5. Units' = [Units EXCEPT ![s] = n]
  <2>1. ASSUME NEW r \in Sems
        PROVE  Units'[r] = IF r = s THEN n ELSE Units[r]
    <3>1. value'[r] = IF r = s THEN n ELSE value[r]
      BY <1>1, <1>2
    <3>2. n \in Int /\ n >= 0
      OBVIOUS
    <3> QED
      BY <3>1, <3>2 DEF Units
  <2> QED
    BY <2>1 DEF Units
<1>6. Awaits' = Awaits /\ Ready' = Ready
  BY <1>1, AwaitsFrame DEF Ready
<1> QED
  BY <1>1, <1>4, <1>5, <1>6 DEF Service!NewSemaphore, Service!Up, Waiting

\* MySemaphoreSignal adds a unit or releases one waiter.
LEMMA SignalReleases ==
    ASSUME IInv, NEW s \in Sems, MySemaphoreSignal(s)
    PROVE  Service!AddUnit(s) \/ Service!Release(s)
<1> DEFINE b == blocked_list[s]
<1>1. /\ status = "running" /\ s \in sems
      /\ value' = [value EXCEPT ![s] = value[s] + 1]
      /\ UNCHANGED <<status, running, joined_block_list, live, fields>>
  BY DEF MySemaphoreSignal, Calling
<1>2. /\ value \in [Sems -> Int] /\ blocked_list \in [Sems -> Seq(Threads)]
      /\ ready_q \in Seq(Threads)
  BY DEF IInv, TypeOK, SemaphoreTypes, EngineTypes
<1>3. Awaits' = Awaits
  BY <1>1, AwaitsFrame
<1>4. ASSUME NEW r \in Sems
      PROVE  value'[r] = IF r = s THEN value[s] + 1 ELSE value[r]
  BY <1>1, <1>2
<1>5. CASE value[s] < 0
  <2>1. b # <<>> /\ b \in Seq(Threads) /\ IsInjective(b)
    BY <1>1, <1>5, UnitsOrWaiters
  <2>2. /\ Head(b) \in Threads
        /\ Range(b) = Range(Tail(b)) \cup {Head(b)}
        /\ Head(b) \notin Range(Tail(b))
    <3> HIDE DEF b
    <3> QED
      BY <2>1, Dequeued
  <2>3. /\ ready_q' = Append(ready_q, Head(b))
        /\ blocked_list' = [blocked_list EXCEPT ![s] = Tail(b)]
    <3>1. ReleasesWaiter(value[s] + 1)
      BY <1>2, <1>5 DEF ReleasesWaiter
    <3>2. /\ ready_q' = ready_q \o Front(b)
          /\ blocked_list' = [blocked_list EXCEPT ![s] = Rest(b)]
      BY <3>1 DEF MySemaphoreSignal
    <3> HIDE DEF b
    <3>3. Front(b) = <<Head(b)>> /\ Rest(b) = Tail(b)
      BY <2>1 DEF Front, Rest
    <3>4. ready_q \o <<Head(b)>> = Append(ready_q, Head(b))
      BY <1>2, <2>2, Concat
    <3> QED
      BY <3>2, <3>3, <3>4
  <2>4. Ready' = Ready \cup {Head(b)}
    <3> HIDE DEF b
    <3> QED
      BY <1>2, <2>2, <2>3, Enqueued DEF Ready
  <2>5. Units' = Units
    <3>1. ASSUME NEW r \in Sems PROVE Units'[r] = Units[r]
      BY <1>2, <1>4, <1>5 DEF Units
    <3> QED
      BY <3>1 DEF Units
  <2>6. /\ Head(b) \in Waiting[s]
        /\ Waiting' = [Waiting EXCEPT ![s] = @ \ {Head(b)}]
    <3>1. ASSUME NEW r \in Sems
          PROVE  Range(blocked_list'[r]) =
                   IF r = s THEN Range(b) \ {Head(b)} ELSE Range(blocked_list[r])
      BY <1>2, <2>2, <2>3
    <3> QED
      BY <2>2, <3>1 DEF Waiting, Waiters
  <2> QED
    BY <1>1, <1>3, <2>4, <2>5, <2>6 DEF Service!Release, Service!Up, Waiting
<1>6. CASE ~(value[s] < 0)
  <2>1. Waiting[s] = {}
    BY <1>1, <1>6, UnitsOrWaiters DEF Waiting
  <2>2. UNCHANGED <<ready_q, blocked_list>>
    <3>1. ~ReleasesWaiter(value[s] + 1)
      BY <1>2, <1>6 DEF ReleasesWaiter
    <3> QED
      BY <3>1 DEF MySemaphoreSignal
  <2>3. Units' = [Units EXCEPT ![s] = @ + 1]
    <3>1. ASSUME NEW r \in Sems
          PROVE  Units'[r] = IF r = s THEN Units[s] + 1 ELSE Units[r]
      BY <1>2, <1>4, <1>6 DEF Units
    <3> QED
      BY <3>1 DEF Units
  <2>4. Waiting' = Waiting /\ Ready' = Ready
    BY <2>2 DEF Waiting, Waiters, Ready
  <2> QED
    BY <1>1, <1>3, <2>1, <2>3, <2>4 DEF Service!AddUnit, Service!Up, Waiting
<1> QED
  BY <1>5, <1>6

\* MySemaphoreWait takes a unit, or blocks the caller when there is none.
LEMMA WaitTakesOrBlocks ==
    ASSUME IInv, NEW s \in Sems, MySemaphoreWait(s)
    PROVE  Service!TakeUnit(s) \/ Service!WaitFor(s)
<1>1. /\ status = "running" /\ s \in sems
      /\ value' = [value EXCEPT ![s] = value[s] - 1]
      /\ UNCHANGED <<joined_block_list, live, fields>>
  BY DEF MySemaphoreWait, Calling
<1>2. /\ value \in [Sems -> Int] /\ blocked_list \in [Sems -> Seq(Threads)]
      /\ running \in Threads
  BY <1>1, CallerFacts DEF IInv, TypeOK, SemaphoreTypes
<1>3. Awaits' = Awaits
  BY <1>1, AwaitsFrame
<1>4. ASSUME NEW r \in Sems
      PROVE  value'[r] = IF r = s THEN value[s] - 1 ELSE value[r]
  BY <1>1, <1>2
<1>5. CASE MustWait(value[s] - 1)
  <2>1. ~(value[s] > 0)
    BY <1>2, <1>5 DEF MustWait
  <2>2. /\ blocked_list' = [blocked_list EXCEPT ![s] = Append(@, running)]
        /\ Dispatch(ready_q)
    BY <1>5 DEF MySemaphoreWait
  <2>3. Service!PassTo(Ready)
    BY <2>2, DispatchPasses
    DEF IInv, TypeOK, EngineTypes, Placement, NobodyTwice, Ready
  <2>4. Units[s] = 0 /\ Units' = Units
    <3>1. ASSUME NEW r \in Sems PROVE Units'[r] = Units[r]
      BY <1>2, <1>4, <2>1 DEF Units
    <3> QED
      BY <2>1, <3>1 DEF Units
  <2>5. Waiting' = [Waiting EXCEPT ![s] = @ \cup {running}]
    <3>1. ASSUME NEW r \in Sems
          PROVE  Range(blocked_list'[r]) =
                   IF r = s THEN Range(blocked_list[s]) \cup {running}
                   ELSE Range(blocked_list[r])
      <4>1. blocked_list'[s] = Append(blocked_list[s], running)
        BY <1>2, <2>2
      <4>2. Range(Append(blocked_list[s], running)) =
              Range(blocked_list[s]) \cup {running}
        <5> DEFINE b == blocked_list[s]
        <5>1. b \in Seq(Threads)
          BY <1>2
        <5> HIDE DEF b
        <5>2. Range(Append(b, running)) = Range(b) \cup {running}
          BY <1>2, <5>1, Enqueued
        <5> QED
          BY <5>2 DEF b
      <4>3. r # s => blocked_list'[r] = blocked_list[r]
        BY <1>2, <2>2
      <4> QED
        BY <4>1, <4>2, <4>3
    <3>2. ASSUME NEW r \in Sems
          PROVE  Waiting'[r] = IF r = s THEN Waiting[s] \cup {running} ELSE Waiting[r]
      BY <3>1 DEF Waiting, Waiters
    <3> QED
      BY <3>2 DEF Waiting
  <2> QED
    BY <1>1, <1>3, <2>3, <2>4, <2>5 DEF Service!WaitFor, Service!Up, Waiting
<1>6. CASE ~MustWait(value[s] - 1)
  <2>1. value[s] > 0
    BY <1>2, <1>6 DEF MustWait
  <2>2. UNCHANGED <<status, running, ready_q, blocked_list>>
    BY <1>6 DEF MySemaphoreWait
  <2>3. Units[s] > 0 /\ Units' = [Units EXCEPT ![s] = @ - 1]
    <3>1. ASSUME NEW r \in Sems
          PROVE  Units'[r] = IF r = s THEN Units[s] - 1 ELSE Units[r]
      BY <1>2, <1>4, <2>1 DEF Units
    <3> QED
      BY <2>1, <3>1 DEF Units
  <2>4. Waiting' = Waiting /\ Ready' = Ready
    BY <2>2 DEF Waiting, Waiters, Ready
  <2> QED
    BY <1>1, <1>3, <2>2, <2>3, <2>4 DEF Service!TakeUnit, Service!Up, Waiting
<1> QED
  BY <1>5, <1>6

\* MySemaphoreDestroy, which needs a semaphore nobody waits on, is nothing the
\* service sees.
LEMMA DestroyIsSilent ==
    ASSUME NEW s \in Sems, MySemaphoreDestroy(s)
    PROVE  UNCHANGED Service!svars
<1>1. /\ UNCHANGED <<status, running, ready_q, joined_block_list, live, fields,
                     value, blocked_list>>
  BY DEF MySemaphoreDestroy
<1>2. Awaits' = Awaits
  BY <1>1, AwaitsFrame
<1>3. Ready' = Ready /\ Units' = Units /\ Waiting' = Waiting
  BY <1>1 DEF Ready, Units, Waiting, Waiters
<1> QED
  BY <1>1, <1>2, <1>3 DEF Service!svars, Waiting

-----------------------------------------------------------------------------
(***************************************************************************)
(* Every behaviour of the library is one of the service.                   *)
(***************************************************************************)
\* MyThreadInit starts the service.
LEMMA InitIsServiceInit == Init => Service!SInit
<1> SUFFICES ASSUME Init PROVE Service!SInit
  OBVIOUS
<1>1. Ready = {} /\ Waiting = [s \in Sems |-> {}]
  BY EmptyQueue DEF Init, Ready, Waiting, Waiters
<1>2. Awaits = [t \in Threads |-> {}] /\ Units = [s \in Sems |-> 0]
  BY DEF Init, Awaits, Units
<1> QED
  BY <1>1, <1>2 DEF Init, Service!SInit, Waiting

\* Every step of the library is one of the service, or none.
LEMMA StepIsServiceStep ==
    IInv /\ [Next]_vars => [Service!SNext]_(Service!svars)
<1> SUFFICES ASSUME IInv, [Next]_vars
             PROVE  [Service!SNext]_(Service!svars)
  OBVIOUS
<1>1. ASSUME NEW t \in Threads, MyThreadCreate(t) PROVE Service!SNext
  BY <1>1, CreateSpawns DEF Service!SNext
<1>2. ASSUME NEW t \in Threads, MyThreadJoin(t) PROVE Service!SNext
  <2>1. {t} \in SUBSET Threads
    OBVIOUS
  <2> QED
    BY <1>2, <2>1, JoinAwaits DEF Service!SNext
<1>3. CASE MyThreadYield
  BY <1>3, SwapGivesUp DEF MyThreadYield, Calling, Service!SNext
<1>4. CASE MyThreadJoinAll
  <2>1. running \in Threads
    BY <1>4, CallerFacts DEF MyThreadJoinAll, Calling
  <2>2. kids[running] \in SUBSET Threads
    BY <2>1 DEF IInv, TypeOK, FieldTypes
  <2> QED
    BY <1>4, <2>2, JoinAllAwaits DEF Service!SNext
<1>5. CASE MyThreadExit
  BY <1>5, ExitExits DEF Service!SNext
<1>6. CASE MyThreadExitRoot
  BY <1>6, ExitRootEnds DEF Service!SNext
<1>7. ASSUME NEW s \in Sems, NEW v \in 0 .. MaxValue, MySemaphoreInit(s, v)
      PROVE  Service!SNext
  BY <1>7, InitIsNew DEF Service!SNext
<1>8. ASSUME NEW s \in Sems, MySemaphoreSignal(s) PROVE Service!SNext
  BY <1>8, SignalReleases DEF Service!SNext
<1>9. ASSUME NEW s \in Sems, MySemaphoreWait(s) PROVE Service!SNext
  BY <1>9, WaitTakesOrBlocks DEF Service!SNext
<1>10. ASSUME NEW s \in Sems, MySemaphoreDestroy(s)
       PROVE  UNCHANGED Service!svars
  BY <1>10, DestroyIsSilent
<1>11. CASE UNCHANGED vars
  <2>1. Awaits' = Awaits /\ Units' = Units /\ Waiting' = Waiting /\ Ready' = Ready
    BY <1>11, AwaitsFrame, SemaphoresFrame DEF vars, Ready
  <2> QED
    BY <1>11, <2>1 DEF vars, Service!svars, Waiting
<1> QED
  BY <1>1, <1>2, <1>3, <1>4, <1>5, <1>6, <1>7, <1>8, <1>9, <1>10, <1>11
  DEF Next

\* The library implements the service: a join returns when, and only when, the
\* threads it waits for have exited, a signal is never lost on a waiter, and
\* the CPU passes only to a thread that may run.
THEOREM ImplementsService == Spec => KeepsPromise
  BY InitIsServiceInit, StepIsServiceStep, Invariance, PTL
  DEF Spec, KeepsPromise, Service!SSpec
=============================================================================
