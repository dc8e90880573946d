------------------------ MODULE RamdiskQuota_proofs ------------------------
(***************************************************************************)
(* Proofs about RamdiskQuota, for every number of threads, files and       *)
(* directories and every size of the disk and of a request.                *)
(***************************************************************************)
EXTENDS RamdiskQuota, CommonFacts

USE ThreadsAssumption, ObjectsAssumption, SizesAssumption

\* What one step of one thread is; Next is their disjunction.
Step(t) ==
    \/ \E o \in Objects :
          \/ \E n \in 1 .. MaxRequest : BeginWrite(t, o, n)
          \/ BeginMkdir(t, o) \/ Create(t, o)
          \/ BeginTruncate(t, o) \/ BeginRemove(t, o)
    \/ FinishWork(t) \/ Load(t) \/ Store(t) \/ ResetSize(t)

-----------------------------------------------------------------------------
(***************************************************************************)
(* The types.                                                              *)
(***************************************************************************)
LEMMA TypeInit == Init => TypeOK
BY DEF Init, TypeOK, Handlers, Places

LEMMA UpdateType ==
    ASSUME TypeOK, NEW t \in Threads, NEW n \in Int, BeginsUpdate(t, n)
    PROVE  /\ used' \in Int /\ races' \in Nat
           /\ overlapped' \in SUBSET Int
<1>1. {delta[u] : u \in Others(t)} \in SUBSET Int
  BY DEF TypeOK, Others
<1>2. used' \in Int
  BY DEF TypeOK, BeginsUpdate
<1>3. races' \in Nat
  <2>1. races' = races \/ races' = races + 1
    BY DEF BeginsUpdate
  <2> QED
    BY <2>1 DEF TypeOK
<1>4. overlapped' \in SUBSET Int
  <2>1. \/ overlapped' = overlapped
        \/ overlapped' = overlapped \cup {n} \cup {delta[u] : u \in Others(t)}
    BY DEF BeginsUpdate
  <2>2. overlapped \in SUBSET Int
    BY DEF TypeOK
  <2> HIDE DEF TypeOK
  <2> QED
    BY <1>1, <2>1, <2>2
<1> QED
  BY <1>2, <1>3, <1>4

LEMMA TypeStep ==
    ASSUME TypeOK, Requests, NEW t \in Threads, Step(t)
    PROVE  TypeOK'
<1> USE DEF TypeOK, Handlers, Places
<1>1. CASE \E o \in Objects, n \in 1 .. MaxRequest : BeginWrite(t, o, n)
  BY <1>1 DEF BeginWrite, Enter, ghosts
<1>2. CASE \E o \in Objects : BeginMkdir(t, o)
  BY <1>2 DEF BeginMkdir, Enter, ghosts
<1>3. CASE \E o \in Objects : Create(t, o)
  BY <1>3 DEF Create, threads, ghosts
<1>4. CASE \E o \in Objects : BeginTruncate(t, o)
  <2>1. PICK o \in Objects : BeginTruncate(t, o)
    BY <1>4
  <2>2. overlapped' \in SUBSET Int /\ races' \in Nat /\ used' \in Int
    BY <2>1, UpdateType DEF BeginTruncate
  <2> QED
    BY <2>1, <2>2 DEF BeginTruncate, Enter
<1>5. CASE \E o \in Objects : BeginRemove(t, o)
  <2>1. PICK o \in Objects : BeginRemove(t, o)
    BY <1>5
  <2> DEFINE bytes == IF kind[o] = "dir" THEN DirSize ELSE size[o]
  <2>2. bytes \in Nat
    OBVIOUS
  <2>3. overlapped' \in SUBSET Int /\ races' \in Nat /\ used' \in Int
    BY <2>1, <2>2, UpdateType DEF BeginRemove
  <2> QED
    BY <2>1, <2>2, <2>3 DEF BeginRemove, Enter
<1>6. CASE FinishWork(t)
  <2>1. overlapped' \in SUBSET Int /\ races' \in Nat /\ used' \in Int
    BY <1>6, UpdateType DEF FinishWork
  <2>2. obj[t] \in Objects /\ delta[t] \in 1 .. MaxRequest
    BY <1>6 DEF FinishWork, Requests
  <2>3. size' \in [Objects -> Nat] /\ kind' \in [Objects -> {"none", "file", "dir"}]
    BY <1>6, <2>2 DEF FinishWork
  <2> QED
    BY <1>6, <2>1, <2>2, <2>3 DEF FinishWork
<1>7. CASE Load(t)
  BY <1>7 DEF Load, disk, ghosts
<1>8. CASE Store(t)
  <2>1. Stored(t) \in Int
    BY DEF Stored
  <2> QED
    BY <1>8, <2>1 DEF Store, Leave, ghosts
<1>9. CASE ResetSize(t)
  BY <1>9 DEF ResetSize, Leave, ghosts
<1> QED
  BY <1>1, <1>2, <1>3, <1>4, <1>5, <1>6, <1>7, <1>8, <1>9 DEF Step

-----------------------------------------------------------------------------
(***************************************************************************)
(* What a step does to the thread that takes it and to the account.        *)
(***************************************************************************)
\* The five kinds of step, seen from the account.
LEMMA StepKinds ==
    ASSUME TypeOK, Requests, NEW t \in Threads, Step(t)
    PROVE  \/ \* a check that succeeds
              /\ pc[t] = "idle" /\ pc' = [pc EXCEPT ![t] = "working"]
              /\ delta' = [delta EXCEPT ![t] = delta'[t]]
              /\ delta'[t] \in 1 .. MaxRequest /\ Fits(delta'[t])
              /\ UNCHANGED <<current_size, used, register, races, overlapped>>
           \/ \* a change of the disk
              /\ \/ pc[t] = "idle" /\ delta'[t] <= 0
                 \/ pc[t] = "working" /\ delta'[t] = delta[t]
              /\ pc' = [pc EXCEPT ![t] = "account"]
              /\ delta' = [delta EXCEPT ![t] = delta'[t]]
              /\ BeginsUpdate(t, delta'[t])
              /\ UNCHANGED <<current_size, register>>
           \/ \* the load
              /\ pc[t] = "account" /\ pc' = [pc EXCEPT ![t] = "store"]
              /\ register' = [register EXCEPT ![t] = current_size]
              /\ UNCHANGED <<current_size, used, delta, races, overlapped>>
           \/ \* the store
              /\ pc[t] = "store" /\ pc'[t] \in {"reset", "idle"}
              /\ pc' = [pc EXCEPT ![t] = pc'[t]]
              /\ current_size' = register[t] + delta[t]
              /\ delta' = [delta EXCEPT ![t] = delta'[t]]
              /\ register' = [register EXCEPT ![t] = 0]
              /\ UNCHANGED <<used, races, overlapped>>
           \/ \* anything else
              /\ \/ pc' = pc /\ delta' = delta /\ register' = register
                 \/ /\ pc[t] = "reset" /\ pc' = [pc EXCEPT ![t] = "idle"]
                    /\ delta' = [delta EXCEPT ![t] = 0]
                    /\ register' = [register EXCEPT ![t] = 0]
              /\ UNCHANGED <<current_size, used, races, overlapped>>
<1> USE DEF TypeOK
<1>1. CASE \E o \in Objects, n \in 1 .. MaxRequest : BeginWrite(t, o, n)
  BY <1>1 DEF BeginWrite, Enter, ghosts
<1>2. CASE \E o \in Objects : BeginMkdir(t, o)
  BY <1>2 DEF BeginMkdir, Enter, ghosts
<1>3. CASE \E o \in Objects : Create(t, o)
  BY <1>3 DEF Create, threads, ghosts
<1>4. CASE \E o \in Objects : BeginTruncate(t, o)
  <2>1. PICK o \in Objects : BeginTruncate(t, o)
    BY <1>4
  <2>2. delta'[t] = -size[o] /\ delta'[t] <= 0
    BY <2>1 DEF BeginTruncate, Enter
  <2> QED
    BY <2>1, <2>2 DEF BeginTruncate, Enter
<1>5. CASE \E o \in Objects : BeginRemove(t, o)
  <2>1. PICK o \in Objects : BeginRemove(t, o)
    BY <1>5
  <2> DEFINE bytes == IF kind[o] = "dir" THEN DirSize ELSE size[o]
  <2>2. bytes \in Nat
    OBVIOUS
  <2>3. delta'[t] = -bytes /\ delta'[t] <= 0
    BY <2>1, <2>2 DEF BeginRemove, Enter
  <2> QED
    BY <2>1, <2>3 DEF BeginRemove, Enter
<1>6. CASE FinishWork(t)
  BY <1>6 DEF FinishWork
<1>7. CASE Load(t)
  BY <1>7 DEF Load, disk, ghosts
<1>8. CASE Store(t)
  BY <1>8 DEF Store, Stored, Leave, ghosts
<1>9. CASE ResetSize(t)
  <2>1. pc[t] = "reset"
    BY <1>9 DEF ResetSize
  <2> QED
    BY <1>9, <2>1 DEF ResetSize, Leave, ghosts
<1> QED
  BY <1>1, <1>2, <1>3, <1>4, <1>5, <1>6, <1>7, <1>8, <1>9 DEF Step

\* What a thread may still add is bounded by the largest request.
LEMMA RequestsStep ==
    ASSUME TypeOK, Requests, NEW t \in Threads, Step(t)
    PROVE  Requests'
<1>1. TypeOK'
  BY TypeStep
<1> USE DEF TypeOK, Requests, Updating
<1>2. ASSUME NEW u \in Threads
      PROVE  /\ pc'[u] = "working" => delta'[u] \in 1 .. MaxRequest
             /\ pc'[u] \in {"account", "store"} => delta'[u] <= MaxRequest
  <2>1. CASE u = t
    BY <1>1, <2>1, StepKinds
  <2>2. CASE u # t
    BY <1>1, <2>2, StepKinds
  <2> QED
    BY <2>1, <2>2
<1> QED
  BY <1>2

\* An update that does not overlap begins when nobody else is updating.
LEMMA AloneWhenExact ==
    ASSUME TypeOK, NEW t \in Threads, NEW n \in Int, BeginsUpdate(t, n), races' = 0
    PROVE  /\ races = 0 /\ used' = used + n
           /\ \A u \in Threads \ {t} : ~Updating(u)
<1>1. Others(t) = {} /\ races = 0
  BY DEF BeginsUpdate, TypeOK
<1> QED
  BY <1>1 DEF BeginsUpdate, Others

\* current_size follows what the disk holds.
LEMMA AccountStep ==
    ASSUME TypeOK, Requests, races = 0 => OneUpdates /\ AccountLags,
           NEW t \in Threads, Step(t), races' = 0
    PROVE  OneUpdates' /\ AccountLags'
<1>1. TypeOK' /\ delta'[t] \in Int
  BY TypeStep DEF TypeOK
<1> USE DEF TypeOK
<1>2. CASE /\ pc[t] = "idle" /\ pc' = [pc EXCEPT ![t] = "working"]
           /\ delta' = [delta EXCEPT ![t] = delta'[t]]
           /\ UNCHANGED <<current_size, used, register, races>>
  <2>1. \A u \in Threads : Updating(u)' <=> Updating(u)
    BY <1>1, <1>2 DEF Updating
  <2>2. \A u \in Threads : Updating(u) => delta'[u] = delta[u]
    BY <1>1, <1>2 DEF Updating
  <2> QED
    BY <1>1, <1>2, <2>1, <2>2 DEF OneUpdates, AccountLags
<1>3. CASE /\ pc[t] \in {"idle", "working"} /\ pc' = [pc EXCEPT ![t] = "account"]
           /\ delta' = [delta EXCEPT ![t] = delta'[t]]
           /\ BeginsUpdate(t, delta'[t])
           /\ UNCHANGED <<current_size, register>>
  <2>1. /\ races = 0 /\ used' = used + delta'[t]
        /\ \A u \in Threads \ {t} : ~Updating(u)
    BY <1>1, <1>3, AloneWhenExact
  <2>2. ~Updating(t) /\ current_size = used
    BY <1>3, <2>1 DEF Updating, AccountLags
  <2>3. \A u \in Threads : Updating(u)' <=> u = t
    BY <1>1, <1>3, <2>1 DEF Updating
  <2>4. \A u \in Threads : pc'[u] # "store"
    BY <1>1, <1>3, <2>1, <2>2 DEF Updating
  <2> QED
    BY <1>1, <1>3, <2>1, <2>2, <2>3, <2>4 DEF OneUpdates, AccountLags
<1>4. CASE /\ pc[t] = "account" /\ pc' = [pc EXCEPT ![t] = "store"]
           /\ register' = [register EXCEPT ![t] = current_size]
           /\ UNCHANGED <<current_size, used, delta, races>>
  <2>1. \A u \in Threads : Updating(u)' <=> Updating(u)
    BY <1>1, <1>4 DEF Updating
  <2> QED
    BY <1>1, <1>4, <2>1 DEF OneUpdates, AccountLags
<1>5. CASE /\ pc[t] = "store" /\ pc'[t] \in {"reset", "idle"}
           /\ pc' = [pc EXCEPT ![t] = pc'[t]]
           /\ current_size' = register[t] + delta[t]
           /\ UNCHANGED <<used, races>>
  <2>1. Updating(t) /\ register[t] = current_size /\ current_size = used - delta[t]
    BY <1>5 DEF Updating, AccountLags
  <2>2. \A u \in Threads : ~Updating(u)'
    BY <1>1, <1>5, <2>1 DEF Updating, OneUpdates
  <2>3. current_size' = used'
    BY <1>5, <2>1
  <2> QED
    BY <1>1, <2>2, <2>3 DEF OneUpdates, AccountLags, Updating
<1>6. CASE /\ \/ pc' = pc /\ delta' = delta /\ register' = register
              \/ /\ pc[t] = "reset" /\ pc' = [pc EXCEPT ![t] = "idle"]
                 /\ delta' = [delta EXCEPT ![t] = 0]
                 /\ register' = [register EXCEPT ![t] = 0]
           /\ UNCHANGED <<current_size, used, races>>
  <2>1. \A u \in Threads : Updating(u)' <=> Updating(u)
    BY <1>1, <1>6 DEF Updating
  <2>2. \A u \in Threads : Updating(u) => delta'[u] = delta[u] /\ register'[u] = register[u]
    BY <1>1, <1>6 DEF Updating
  <2>3. \A u \in Threads : pc'[u] = "store" <=> pc[u] = "store"
    BY <1>1, <1>6
  <2> QED
    BY <1>1, <1>6, <2>1, <2>2, <2>3 DEF OneUpdates, AccountLags, Updating
<1> QED
  BY StepKinds, <1>2, <1>3, <1>4, <1>5, <1>6

-----------------------------------------------------------------------------
(***************************************************************************)
(* What one overlap of two updates does to the account.                    *)
(***************************************************************************)
LEMMA LosesFrame ==
    ASSUME TwoUpdate, AccountLosesOne,
           \A u \in Threads : Updating(u)' <=> Updating(u),
           \A u \in Threads : Updating(u) => delta'[u] = delta[u] /\ Base(u)' = Base(u),
           UNCHANGED <<used, current_size, overlapped>>
    PROVE  TwoUpdate' /\ AccountLosesOne'
<1>1. \A u \in Threads : Others(u)' = Others(u)
  BY DEF Others
<1>2. TwoUpdate'
  BY DEF TwoUpdate
<1>3. (\A u \in Threads : ~Updating(u)') => used' - current_size' \in {0} \cup overlapped'
  BY DEF AccountLosesOne
<1>4. ASSUME NEW u \in Threads, Updating(u)'
      PROVE  /\ Others(u)' = {} => used' - (Base(u)' + delta'[u]) \in {0} \cup overlapped'
             /\ \A v \in Others(u)' : current_size' = used' - delta'[u] - delta'[v]
             /\ Others(u)' # {} => delta'[u] \in overlapped' /\ Base(u)' = current_size'
  <2>1. \A v \in Others(u) : Updating(v) /\ v \in Threads
    BY DEF Others
  <2> QED
    BY <1>1, <1>4, <2>1 DEF AccountLosesOne
<1> QED
  BY <1>2, <1>3, <1>4 DEF AccountLosesOne

LEMMA LosesStep ==
    ASSUME TypeOK, Requests, races = 0 => OneUpdates /\ AccountLags,
           races = 1 => TwoUpdate /\ AccountLosesOne,
           NEW t \in Threads, Step(t), races' = 1
    PROVE  TwoUpdate' /\ AccountLosesOne'
<1>1. /\ TypeOK' /\ delta'[t] \in Int
      /\ \A u \in Threads : delta[u] \in Int /\ register[u] \in Int
      /\ used \in Int /\ current_size \in Int /\ races \in Nat
      /\ pc \in [Threads -> Places] /\ delta \in [Threads -> Int]
      /\ register \in [Threads -> Int]
  BY TypeStep DEF TypeOK
<1>2. CASE /\ pc[t] = "idle" /\ pc' = [pc EXCEPT ![t] = "working"]
           /\ delta' = [delta EXCEPT ![t] = delta'[t]]
           /\ UNCHANGED <<current_size, used, register, races, overlapped>>
  <2>1. \A u \in Threads : Updating(u)' <=> Updating(u)
    BY <1>1, <1>2 DEF Updating
  <2>2. \A u \in Threads : Updating(u) => delta'[u] = delta[u] /\ Base(u)' = Base(u)
    BY <1>1, <1>2 DEF Updating, Base
  <2> QED
    BY <1>2, <2>1, <2>2, LosesFrame
<1>3. CASE /\ pc[t] \in {"idle", "working"} /\ pc' = [pc EXCEPT ![t] = "account"]
           /\ delta' = [delta EXCEPT ![t] = delta'[t]]
           /\ BeginsUpdate(t, delta'[t])
           /\ UNCHANGED <<current_size, register>>
  <2> DEFINE n == delta'[t]
  <2>1. /\ ~Updating(t) /\ Updating(t)'
        /\ \A u \in Threads \ {t} : Updating(u)' <=> Updating(u)
        /\ \A u \in Threads \ {t} : delta'[u] = delta[u] /\ pc'[u] = pc[u]
        /\ \A u \in Threads \ {t} : Base(u)' = Base(u)
        /\ used' = used + n /\ n \in Int /\ Base(t)' = current_size
    BY <1>1, <1>3 DEF Updating, Base, BeginsUpdate
  <2>2. CASE Others(t) = {}
    <3>1. races = 1 /\ overlapped' = overlapped
      BY <1>1, <1>3, <2>2 DEF BeginsUpdate
    <3>2. \A u \in Threads : ~Updating(u)
      BY <2>1, <2>2 DEF Others
    <3>3. \A u \in Threads : Updating(u)' <=> u = t
      BY <2>1, <3>2
    <3>4. used - current_size \in {0} \cup overlapped
      BY <3>1, <3>2 DEF AccountLosesOne
    <3>5. used' - (Base(t)' + n) = used - current_size
      BY <1>1, <2>1
    <3>6. Others(t)' = {}
      BY <3>3 DEF Others
    <3> QED
      BY <3>1, <3>3, <3>4, <3>5, <3>6 DEF TwoUpdate, AccountLosesOne
  <2>3. CASE Others(t) # {}
    <3>1. races = 0
      BY <1>1, <1>3, <2>3 DEF BeginsUpdate
    <3>2. PICK u \in Threads \ {t} : Updating(u)
      BY <2>3 DEF Others
    <3>3. \A v \in Threads : Updating(v) <=> v = u
      BY <3>1, <3>2 DEF OneUpdates
    <3>4. current_size = used - delta[u] /\ Base(u) = current_size
      BY <3>1, <3>2 DEF AccountLags, Base
    <3>5. \A v \in Threads : Updating(v)' <=> v = t \/ v = u
      BY <2>1, <3>2, <3>3
    <3>6. Others(t) = {u} /\ Others(t)' = {u} /\ Others(u)' = {t}
      BY <3>2, <3>3, <3>5 DEF Others
    <3>7. overlapped' = overlapped \cup {n} \cup {delta[v] : v \in Others(t)}
      BY <1>3, <2>3 DEF BeginsUpdate
    <3>8. n \in overlapped' /\ delta'[u] \in overlapped'
      BY <2>1, <3>2, <3>6, <3>7
    <3>9. /\ current_size' = used' - n - delta'[u]
          /\ current_size' = used' - delta'[u] - n
      BY <1>1, <1>3, <2>1, <3>2, <3>4
    <3>10. Base(t)' = current_size' /\ Base(u)' = current_size'
      BY <1>3, <2>1, <3>2, <3>4
    <3>11. TwoUpdate'
      BY <3>5 DEF TwoUpdate
    <3> QED
      BY <3>5, <3>6, <3>8, <3>9, <3>10, <3>11 DEF AccountLosesOne
  <2> QED
    BY <2>2, <2>3
<1>4. CASE /\ pc[t] = "account" /\ pc' = [pc EXCEPT ![t] = "store"]
           /\ register' = [register EXCEPT ![t] = current_size]
           /\ UNCHANGED <<current_size, used, delta, races, overlapped>>
  <2>1. \A u \in Threads : Updating(u)' <=> Updating(u)
    BY <1>1, <1>4 DEF Updating
  <2>2. \A u \in Threads : Base(u)' = Base(u)
    BY <1>1, <1>4 DEF Base
  <2> QED
    BY <1>4, <2>1, <2>2, LosesFrame
<1>5. CASE /\ pc[t] = "store" /\ pc'[t] \in {"reset", "idle"}
           /\ pc' = [pc EXCEPT ![t] = pc'[t]]
           /\ current_size' = register[t] + delta[t]
           /\ delta' = [delta EXCEPT ![t] = delta'[t]]
           /\ register' = [register EXCEPT ![t] = 0]
           /\ UNCHANGED <<used, races, overlapped>>
  <2>1. /\ Updating(t) /\ ~Updating(t)' /\ Base(t) = register[t]
        /\ \A u \in Threads \ {t} : /\ Updating(u)' <=> Updating(u)
                                    /\ delta'[u] = delta[u] /\ pc'[u] = pc[u]
                                    /\ register'[u] = register[u]
    BY <1>1, <1>5 DEF Updating, Base
  <2>2. CASE Others(t) = {}
    <3>1. \A u \in Threads : ~Updating(u)'
      BY <2>1, <2>2 DEF Others
    <3>2. used - (register[t] + delta[t]) \in {0} \cup overlapped
      BY <1>5, <2>1, <2>2 DEF AccountLosesOne
    <3> QED
      BY <1>5, <3>1, <3>2 DEF TwoUpdate, AccountLosesOne
  <2>3. CASE Others(t) # {}
    <3>1. PICK u \in Others(t) : TRUE
      BY <2>3
    <3>2. u \in Threads \ {t} /\ Updating(u)
      BY <3>1 DEF Others
    <3>3. \A v \in Threads : Updating(v)' <=> v = u
      BY <1>5, <2>1, <3>2 DEF TwoUpdate
    <3>4. /\ current_size = used - delta[t] - delta[u]
          /\ delta[t] \in overlapped /\ register[t] = current_size
      BY <1>5, <2>1, <2>3, <3>1 DEF AccountLosesOne
    <3>5. Base(u) = current_size
      <4>1. t \in Others(u)
        BY <2>1, <3>2 DEF Others
      <4> QED
        BY <1>5, <3>2, <4>1 DEF AccountLosesOne
    <3>6. used' - (Base(u)' + delta'[u]) \in {0} \cup overlapped'
      <4>1. CASE pc[u] = "store"
        <5>1. Base(u)' = current_size
          BY <2>1, <3>2, <3>5, <4>1 DEF Base
        <5>2. used' - (current_size + delta'[u]) = delta[t]
          BY <1>1, <1>5, <2>1, <3>2, <3>4
        <5> QED
          BY <1>5, <3>4, <5>1, <5>2
      <4>2. CASE pc[u] # "store"
        <5>1. Base(u)' = register[t] + delta[t]
          BY <1>5, <2>1, <3>2, <4>2 DEF Base
        <5>2. used' - (register[t] + delta[t] + delta'[u]) = 0
          BY <1>1, <1>5, <2>1, <3>2, <3>4
        <5> QED
          BY <1>1, <5>1, <5>2
      <4> QED
        BY <4>1, <4>2
    <3>7. Others(u)' = {}
      BY <3>3 DEF Others
    <3> QED
      BY <3>2, <3>3, <3>6, <3>7 DEF TwoUpdate, AccountLosesOne
  <2> QED
    BY <2>2, <2>3
<1>6. CASE /\ \/ pc' = pc /\ delta' = delta /\ register' = register
              \/ /\ pc[t] = "reset" /\ pc' = [pc EXCEPT ![t] = "idle"]
                 /\ delta' = [delta EXCEPT ![t] = 0]
                 /\ register' = [register EXCEPT ![t] = 0]
           /\ UNCHANGED <<current_size, used, races, overlapped>>
  <2>1. \A u \in Threads : Updating(u)' <=> Updating(u)
    BY <1>1, <1>6 DEF Updating
  <2>2. \A u \in Threads : Updating(u) => delta'[u] = delta[u] /\ Base(u)' = Base(u)
    BY <1>1, <1>6 DEF Updating, Base
  <2> QED
    BY <1>6, <2>1, <2>2, LosesFrame
<1> QED
  BY StepKinds, <1>2, <1>3, <1>4, <1>5, <1>6

-----------------------------------------------------------------------------
(***************************************************************************)
(* A handler and its object.                                               *)
(***************************************************************************)
\* HandlersInv, thread by thread and object by object.
HandlerOf(t) ==
    /\ pc[t] = "idle" => obj[t] = NoObject /\ op[t] = "none"
    /\ pc[t] = "working" => op[t] \in {"write", "make"}
    /\ op[t] = "write" => kind[obj[t]] = "file"
    /\ op[t] = "make" /\ pc[t] = "working" =>
         kind[obj[t]] = "none" /\ delta[t] = DirSize
    /\ op[t] = "truncate" => kind[obj[t]] = "file"
    /\ op[t] = "remove" => kind[obj[t]] = "none"
    /\ pc[t] = "reset" => op[t] \in {"truncate", "remove"}
Alone(t) == obj[t] = NoObject \/ \A u \in Threads \ {t} : obj[u] # obj[t]
Clean(o) == kind[o] # "file" /\ (\A t \in Threads : ~Empties(t, o)) => size[o] = 0

LEMMA HandlersParts ==
    /\ HandlersInv <=> /\ \A t \in Threads : HandlerOf(t) /\ Alone(t)
                       /\ \A o \in Objects : Clean(o)
    /\ HandlersInv' <=> /\ \A t \in Threads : HandlerOf(t)' /\ Alone(t)'
                        /\ \A o \in Objects : Clean(o)'
BY DEF HandlersInv, HandlerOf, Alone, Clean

LEMMA HandlersFrame ==
    ASSUME TypeOK, HandlersInv, NEW t \in Threads,
           \A u \in Threads \ {t} :
              pc'[u] = pc[u] /\ op'[u] = op[u] /\ obj'[u] = obj[u] /\ delta'[u] = delta[u],
           \A u \in Threads \ {t} : obj[u] \in Objects => kind'[obj[u]] = kind[obj[u]],
           HandlerOf(t)', Alone(t)', \A o \in Objects : Clean(o)'
    PROVE  HandlersInv'
<1>1. ASSUME NEW u \in Threads \ {t} PROVE HandlerOf(u)'
  <2>1. HandlerOf(u)
    BY HandlersParts
  <2>2. op[u] # "none" => obj[u] \in Objects
    BY <2>1 DEF HandlerOf, TypeOK
  <2> QED
    BY <2>1, <2>2 DEF HandlerOf
<1>2. ASSUME NEW u \in Threads \ {t} PROVE Alone(u)'
  BY HandlersParts DEF Alone
<1> QED
  BY <1>1, <1>2, HandlersParts

\* A thread begins a handler on an object nobody works on.
LEMMA HandlersEnter ==
    ASSUME TypeOK, HandlersInv, NEW t \in Threads, NEW h \in Handlers,
           NEW o \in Objects, NEW n, NEW at \in Places \ {"idle"},
           Enter(t, h, o, n, at)
    PROVE  /\ pc[t] = "idle" /\ op[t] = "none" /\ pc'[t] = at /\ op'[t] = h
           /\ obj'[t] = o /\ delta'[t] = n /\ size' = size
           /\ \A u \in Threads \ {t} :
                /\ pc'[u] = pc[u] /\ op'[u] = op[u] /\ obj'[u] = obj[u]
                /\ delta'[u] = delta[u] /\ obj[u] # o
           /\ \A u \in Threads : ~Empties(u, o)
           /\ \A x \in Objects \ {o} : \A u \in Threads : Empties(u, x)' <=> Empties(u, x)
           /\ Alone(t)'
           /\ pc' \in [Threads -> Places] /\ op' \in [Threads -> Handlers]
<1>1. HandlerOf(t)
  BY HandlersParts
<1>2. /\ pc[t] = "idle" /\ op[t] = "none" /\ pc'[t] = at /\ op'[t] = h
      /\ obj'[t] = o /\ delta'[t] = n /\ size' = size
      /\ \A u \in Threads \ {t} :
           /\ pc'[u] = pc[u] /\ op'[u] = op[u] /\ obj'[u] = obj[u]
           /\ delta'[u] = delta[u]
      /\ \A u \in Threads : obj[u] # o
      /\ pc' \in [Threads -> Places] /\ op' \in [Threads -> Handlers]
  BY <1>1 DEF Enter, Free, TypeOK, HandlerOf
<1> QED
  BY <1>2 DEF Alone, Empties

LEMMA HandlersStep ==
    ASSUME TypeOK, Requests, HandlersInv, NEW t \in Threads, Step(t)
    PROVE  HandlersInv'
<1>0. /\ \A u \in Threads : HandlerOf(u) /\ Alone(u)
      /\ \A o \in Objects : Clean(o)
  BY HandlersParts
<1>1. ASSUME NEW o \in Objects, NEW n \in 1 .. MaxRequest, BeginWrite(t, o, n)
      PROVE  HandlersInv'
  <2>1. Enter(t, "write", o, n, "working") /\ kind' = kind /\ kind[o] = "file"
    BY <1>1 DEF BeginWrite
  <2>2. HandlerOf(t)'
    BY <2>1, HandlersEnter DEF HandlerOf, Handlers, Places
  <2>3. \A x \in Objects : Clean(x)'
    BY <1>0, <2>1, HandlersEnter DEF Clean, Handlers, Places
  <2> QED
    BY <2>1, <2>2, <2>3, HandlersEnter, HandlersFrame DEF Handlers, Places
<1>2. ASSUME NEW o \in Objects, BeginMkdir(t, o)
      PROVE  HandlersInv'
  <2>1. Enter(t, "make", o, DirSize, "working") /\ kind' = kind /\ kind[o] = "none"
    BY <1>2 DEF BeginMkdir
  <2>2. HandlerOf(t)'
    BY <2>1, HandlersEnter DEF HandlerOf, Handlers, Places
  <2>3. \A x \in Objects : Clean(x)'
    <3>1. \A u \in Threads : ~Empties(u, o)
      BY <2>1, HandlersEnter DEF Handlers, Places
    <3> QED
      BY <1>0, <2>1, <3>1, HandlersEnter DEF Clean, Handlers, Places
  <2> QED
    BY <2>1, <2>2, <2>3, HandlersEnter, HandlersFrame DEF Handlers, Places
<1>3. ASSUME NEW o \in Objects, Create(t, o)
      PROVE  HandlersInv'
  <2>1. /\ kind' = [kind EXCEPT ![o] = "file"] /\ kind[o] = "none"
        /\ UNCHANGED <<size, pc, op, obj, delta>>
        /\ \A u \in Threads : obj[u] # o
    BY <1>3 DEF Create, threads, Free
  <2>2. kind'[o] = "file" /\ \A x \in Objects \ {o} : kind'[x] = kind[x]
    BY <2>1 DEF TypeOK
  <2>3. ASSUME NEW u \in Threads PROVE HandlerOf(u)' /\ Alone(u)'
    <3>1. op[u] # "none" => obj[u] \in Objects \ {o}
      BY <1>0, <2>1 DEF HandlerOf, TypeOK
    <3> QED
      BY <1>0, <2>1, <2>2, <3>1 DEF HandlerOf, Alone
  <2>4. \A x \in Objects : Clean(x)'
    BY <1>0, <2>1, <2>2 DEF Clean, Empties
  <2> QED
    BY <2>3, <2>4, HandlersParts
<1>4. ASSUME NEW o \in Objects, BeginTruncate(t, o)
      PROVE  HandlersInv'
  <2>1. /\ Enter(t, "truncate", o, -size[o], "account") /\ kind' = kind
        /\ kind[o] = "file"
    BY <1>4 DEF BeginTruncate
  <2>2. HandlerOf(t)'
    BY <2>1, HandlersEnter DEF HandlerOf, Handlers, Places
  <2>3. \A x \in Objects : Clean(x)'
    BY <1>0, <2>1, HandlersEnter DEF Clean, Handlers, Places
  <2> QED
    BY <2>1, <2>2, <2>3, HandlersEnter, HandlersFrame DEF Handlers, Places
<1>5. ASSUME NEW o \in Objects, BeginRemove(t, o)
      PROVE  HandlersInv'
  <2>1. /\ \E n : Enter(t, "remove", o, n, "account")
        /\ kind' = [kind EXCEPT ![o] = "none"]
    BY <1>5 DEF BeginRemove
  <2>2. kind'[o] = "none" /\ \A x \in Objects \ {o} : kind'[x] = kind[x]
    BY <2>1 DEF TypeOK
  <2>3. HandlerOf(t)'
    BY <2>1, <2>2, HandlersEnter DEF HandlerOf, Handlers, Places
  <2>4. \A x \in Objects : Clean(x)'
    <3>1. Empties(t, o)'
      BY <2>1, HandlersEnter DEF Empties, Handlers, Places
    <3> QED
      BY <1>0, <2>1, <2>2, <3>1, HandlersEnter DEF Clean, Handlers, Places
  <2> QED
    BY <2>1, <2>2, <2>3, <2>4, HandlersEnter, HandlersFrame DEF Handlers, Places
<1>6. CASE FinishWork(t)
  <2>1. /\ pc[t] = "working" /\ op[t] \in {"write", "make"} /\ obj[t] \in Objects
        /\ pc' = [pc EXCEPT ![t] = "account"] /\ UNCHANGED <<op, obj, delta>>
        /\ \A u \in Threads \ {t} : obj[u] # obj[t]
    BY <1>0, <1>6, ObjectsAssumption DEF FinishWork, HandlerOf, Alone, TypeOK
  <2>2. /\ pc'[t] = "account" /\ \A u \in Threads \ {t} : pc'[u] = pc[u]
    BY <2>1 DEF TypeOK
  <2>3. \A x \in Objects : \A u \in Threads : Empties(u, x)' <=> Empties(u, x)
    BY <2>1 DEF Empties
  <2>4. CASE op[t] = "write"
    <3>1. /\ kind' = kind /\ kind[obj[t]] = "file"
          /\ \A x \in Objects \ {obj[t]} : size'[x] = size[x]
      BY <1>0, <1>6, <2>4 DEF FinishWork, TypeOK, HandlerOf
    <3>2. HandlerOf(t)'
      BY <2>1, <2>2, <2>4, <3>1 DEF HandlerOf
    <3>3. \A x \in Objects : Clean(x)'
      BY <1>0, <2>3, <3>1 DEF Clean
    <3> QED
      BY <1>0, <2>1, <2>2, <3>1, <3>2, <3>3, HandlersFrame DEF Alone
  <2>5. CASE op[t] = "make"
    <3>1. /\ kind[obj[t]] = "none" /\ kind'[obj[t]] = "dir" /\ size' = size
          /\ \A x \in Objects \ {obj[t]} : kind'[x] = kind[x]
      BY <1>0, <1>6, <2>1, <2>5 DEF FinishWork, TypeOK, HandlerOf
    <3>2. HandlerOf(t)'
      BY <2>1, <2>2, <2>5 DEF HandlerOf
    <3>3. size[obj[t]] = 0
      <4>1. \A u \in Threads : ~Empties(u, obj[t])
        BY <2>1, <2>5 DEF Empties
      <4> QED
        BY <1>0, <2>1, <3>1, <4>1 DEF Clean
    <3>4. \A x \in Objects : Clean(x)'
      BY <1>0, <2>3, <3>1, <3>3 DEF Clean
    <3> QED
      BY <1>0, <2>1, <2>2, <3>1, <3>2, <3>4, HandlersFrame DEF Alone
  <2> QED
    BY <2>1, <2>4, <2>5
<1>7. CASE Load(t)
  <2>1. /\ pc[t] = "account" /\ pc'[t] = "store"
        /\ \A u \in Threads \ {t} : pc'[u] = pc[u]
        /\ UNCHANGED <<kind, size, op, obj, delta>>
    BY <1>7 DEF Load, disk, TypeOK
  <2>2. HandlerOf(t)'
    BY <1>0, <2>1 DEF HandlerOf
  <2>3. \A x \in Objects : Clean(x)'
    BY <1>0, <2>1 DEF Clean, Empties
  <2> QED
    BY <1>0, <2>1, <2>2, <2>3, HandlersFrame DEF Alone
<1>8. ASSUME Leave(t), UNCHANGED kind, pc[t] \in {"store", "reset"},
             \A x \in Objects : size'[x] = size[x] \/ size'[x] = 0,
             \A x \in Objects : Empties(t, x) => size'[x] = 0
      PROVE  HandlersInv'
  <2>1. /\ pc'[t] = "idle" /\ op'[t] = "none" /\ obj'[t] = NoObject
        /\ \A u \in Threads \ {t} :
              pc'[u] = pc[u] /\ op'[u] = op[u] /\ obj'[u] = obj[u] /\ delta'[u] = delta[u]
    BY <1>8 DEF Leave, TypeOK
  <2>2. HandlerOf(t)' /\ Alone(t)'
    BY <2>1 DEF HandlerOf, Alone
  <2>3. ASSUME NEW x \in Objects PROVE Clean(x)'
    <3>1. \A u \in Threads \ {t} : Empties(u, x)' <=> Empties(u, x)
      BY <2>1 DEF Empties
    <3> QED
      BY <1>0, <1>8, <3>1 DEF Clean
  <2> QED
    BY <1>8, <2>1, <2>2, <2>3, HandlersFrame
<1>9. CASE Store(t)
  <2>1. pc[t] = "store" /\ UNCHANGED <<kind, size>>
    BY <1>9 DEF Store
  <2>2. CASE op[t] \in {"truncate", "remove"}
    <3>1. /\ pc'[t] = "reset" /\ \A u \in Threads \ {t} : pc'[u] = pc[u]
          /\ UNCHANGED <<op, obj, delta>>
      BY <1>9, <2>2 DEF Store, TypeOK
    <3>2. HandlerOf(t)'
      BY <1>0, <2>1, <2>2, <3>1 DEF HandlerOf
    <3>3. \A x \in Objects : Clean(x)'
      BY <1>0, <2>1, <3>1 DEF Clean, Empties
    <3> QED
      BY <1>0, <2>1, <3>1, <3>2, <3>3, HandlersFrame DEF Alone
  <2>3. CASE op[t] \notin {"truncate", "remove"}
    BY <1>8, <1>9, <2>1, <2>3 DEF Store, Empties
  <2> QED
    BY <2>2, <2>3
<1>10. CASE ResetSize(t)
  <2>1. /\ pc[t] = "reset" /\ Leave(t) /\ UNCHANGED kind
        /\ size' = [size EXCEPT ![obj[t]] = 0]
    BY <1>10 DEF ResetSize
  <2>2. \A x \in Objects : size'[x] = IF x = obj[t] THEN 0 ELSE size[x]
    BY <2>1 DEF TypeOK
  <2> QED
    BY <1>8, <2>1, <2>2 DEF Empties
<1> QED
  BY <1>1, <1>2, <1>3, <1>4, <1>5, <1>6, <1>7, <1>9, <1>10 DEF Step

-----------------------------------------------------------------------------
(***************************************************************************)
(* What the disk holds is what the names on it take.                       *)
(***************************************************************************)
LEMMA CountedType ==
    /\ TypeOK => [o \in Objects |-> Counted(o)] \in [Objects -> Int]
    /\ TypeOK' => [o \in Objects |-> Counted(o)'] \in [Objects -> Int]
BY DEF TypeOK, Counted, Cost

LEMMA CountedStays ==
    ASSUME UsedIsCounted, used' = used, \A x \in Objects : Counted(x)' = Counted(x)
    PROVE  UsedIsCounted'
<1>1. [o \in Objects |-> Counted(o)'] = [o \in Objects |-> Counted(o)]
  OBVIOUS
<1>2. used' = SumFunction([o \in Objects |-> Counted(o)'])
  BY <1>1 DEF UsedIsCounted
<1> QED
  BY <1>2 DEF UsedIsCounted

\* One object takes more, or less, and what the disk holds follows.
LEMMA CountedMoves ==
    ASSUME TypeOK, TypeOK', UsedIsCounted, NEW o \in Objects,
           \A x \in Objects \ {o} : Counted(x)' = Counted(x),
           used' = used - Counted(o) + Counted(o)'
    PROVE  UsedIsCounted'
<1> DEFINE f == [x \in Objects |-> Counted(x)]
           g == [x \in Objects |-> Counted(x)']
<1>1. f \in [Objects -> Int] /\ g \in [Objects -> Int]
  BY CountedType
<1>2. \A x \in Objects \ {o} : g[x] = f[x]
  OBVIOUS
<1>3. f[o] = Counted(o) /\ g[o] = Counted(o)'
  OBVIOUS
<1>4. used = SumFunction(f)
  BY DEF UsedIsCounted
<1> HIDE DEF f, g
<1>5. SumFunction(g) = SumFunction(f) - f[o] + g[o]
  BY <1>1, <1>2, SumChanges, ObjectsAssumption
<1>6. used' = SumFunction(g)
  BY <1>3, <1>4, <1>5
<1> QED
  BY <1>6 DEF UsedIsCounted, g

LEMMA CountedStep ==
    ASSUME TypeOK, Requests, HandlersInv, UsedIsCounted, NEW t \in Threads, Step(t)
    PROVE  UsedIsCounted'
<1>0. /\ \A u \in Threads : HandlerOf(u) /\ Alone(u)
      /\ \A o \in Objects : Clean(o)
      /\ TypeOK'
  BY HandlersParts, TypeStep
<1> USE DEF Handlers, Places
<1>1. ASSUME NEW o \in Objects, kind' = kind, used' = used,
             NEW h \in {"write", "make"}, NEW n, Enter(t, h, o, n, "working")
      PROVE  UsedIsCounted'
  <2>1. \A x \in Objects : \A u \in Threads : Empties(u, x)' <=> Empties(u, x)
    <3>1. \A u \in Threads : ~Empties(u, o)'
      BY <1>1, HandlersEnter DEF Empties
    <3> QED
      BY <1>1, <3>1, HandlersEnter
  <2>2. size' = size
    BY <1>1 DEF Enter
  <2> QED
    BY <1>1, <2>1, <2>2, CountedStays DEF Counted, Cost
<1>2. ASSUME NEW o \in Objects, Create(t, o)
      PROVE  UsedIsCounted'
  <2>1. /\ kind' = [kind EXCEPT ![o] = "file"] /\ kind[o] = "none"
        /\ UNCHANGED <<size, op, obj, used>>
    BY <1>2 DEF Create, threads, ghosts
  <2>2. \A x \in Objects : kind'[x] = "dir" <=> kind[x] = "dir"
    BY <2>1 DEF TypeOK
  <2> QED
    BY <2>1, <2>2, CountedStays DEF Counted, Cost, Empties
<1>3. ASSUME NEW o \in Objects, NEW h \in {"truncate", "remove"}, NEW n \in Int,
             Enter(t, h, o, n, "account"), n = -Cost(o), used' = used + n,
             \A x \in Objects \ {o} : kind'[x] = kind[x]
      PROVE  UsedIsCounted'
  <2>1. Counted(o) = Cost(o) /\ Counted(o)' = 0
    <3>1. Empties(t, o)'
      BY <1>3, HandlersEnter DEF Empties
    <3>2. \A u \in Threads : ~Empties(u, o)
      BY <1>3, HandlersEnter
    <3> QED
      BY <3>1, <3>2 DEF Counted
  <2>2. \A x \in Objects \ {o} : Counted(x)' = Counted(x)
    <3>1. size' = size
      BY <1>3 DEF Enter
    <3> QED
      BY <1>3, <3>1, HandlersEnter DEF Counted, Cost
  <2>3. used' = used - Counted(o) + Counted(o)'
    <3>1. Cost(o) \in Int /\ used \in Int
      BY DEF Cost, TypeOK
    <3> QED
      BY <1>3, <2>1, <3>1
  <2> QED
    BY <1>0, <2>2, <2>3, CountedMoves
<1>4. ASSUME NEW o \in Objects, BeginTruncate(t, o)
      PROVE  UsedIsCounted'
  <2>1. /\ kind[o] = "file" /\ Enter(t, "truncate", o, -size[o], "account")
        /\ used' = used + (-size[o]) /\ kind' = kind
    BY <1>4 DEF BeginTruncate, BeginsUpdate
  <2>2. Cost(o) = size[o] /\ -size[o] \in Int
    BY <2>1 DEF Cost, TypeOK
  <2> QED
    BY <1>3, <2>1, <2>2
<1>5. ASSUME NEW o \in Objects, BeginRemove(t, o)
      PROVE  UsedIsCounted'
  <2>1. /\ Enter(t, "remove", o, -Cost(o), "account")
        /\ used' = used + (-Cost(o)) /\ kind' = [kind EXCEPT ![o] = "none"]
    BY <1>5 DEF BeginRemove, BeginsUpdate, Cost
  <2>2. -Cost(o) \in Int /\ \A x \in Objects \ {o} : kind'[x] = kind[x]
    BY <2>1 DEF Cost, TypeOK
  <2> QED
    BY <1>3, <2>1, <2>2
<1>6. CASE FinishWork(t)
  <2> DEFINE o == obj[t]
  <2>1. /\ pc[t] = "working" /\ op[t] \in {"write", "make"} /\ o \in Objects
        /\ UNCHANGED <<op, obj>> /\ used' = used + delta[t]
        /\ \A u \in Threads \ {t} : obj[u] # o
        /\ delta[t] \in Int
    BY <1>0, <1>6, ObjectsAssumption
    DEF FinishWork, HandlerOf, Alone, TypeOK, BeginsUpdate
  <2>2. \A x \in Objects : \A u \in Threads : Empties(u, x)' <=> Empties(u, x)
    BY <2>1 DEF Empties
  <2>3. \A u \in Threads : ~Empties(u, o)
    BY <2>1 DEF Empties
  <2>4. Counted(o) = Cost(o) /\ Counted(o)' = Cost(o)'
    BY <2>2, <2>3, <2>1 DEF Counted
  <2>5. CASE op[t] = "write"
    <3>1. /\ kind' = kind /\ kind[o] = "file" /\ size'[o] = size[o] + delta[t]
          /\ \A x \in Objects \ {o} : size'[x] = size[x]
      BY <1>0, <1>6, <2>1, <2>5 DEF FinishWork, TypeOK, HandlerOf
    <3>2. Cost(o) = size[o] /\ Cost(o)' = size[o] + delta[t] /\ size[o] \in Int
      BY <2>1, <3>1 DEF Cost, TypeOK
    <3>3. used' = used - Counted(o) + Counted(o)'
      BY <2>1, <2>4, <3>2 DEF TypeOK
    <3>4. \A x \in Objects \ {o} : Counted(x)' = Counted(x)
      BY <2>2, <3>1 DEF Counted, Cost
    <3> QED
      BY <1>0, <2>1, <3>3, <3>4, CountedMoves
  <2>6. CASE op[t] = "make"
    <3>1. /\ kind[o] = "none" /\ kind'[o] = "dir" /\ size' = size
          /\ \A x \in Objects \ {o} : kind'[x] = kind[x]
          /\ delta[t] = DirSize
      BY <1>0, <1>6, <2>1, <2>6 DEF FinishWork, TypeOK, HandlerOf
    <3>2. Cost(o) = 0 /\ Cost(o)' = DirSize
      BY <1>0, <2>1, <2>3, <3>1 DEF Cost, Clean
    <3>3. used' = used - Counted(o) + Counted(o)'
      BY <2>1, <2>4, <3>1, <3>2 DEF TypeOK
    <3>4. \A x \in Objects \ {o} : Counted(x)' = Counted(x)
      BY <2>2, <3>1 DEF Counted, Cost
    <3> QED
      BY <1>0, <2>1, <3>3, <3>4, CountedMoves
  <2> QED
    BY <2>1, <2>5, <2>6
<1>7. CASE Load(t)
  <2>1. UNCHANGED <<kind, size, op, obj, used>>
    BY <1>7 DEF Load, disk, ghosts
  <2> QED
    BY <2>1, CountedStays DEF Counted, Cost, Empties
<1>8. CASE Store(t)
  <2>1. UNCHANGED <<kind, size, used>>
    BY <1>8 DEF Store, ghosts
  <2>2. \A x \in Objects : \A u \in Threads : Empties(u, x)' <=> Empties(u, x)
    <3>1. CASE op[t] \in {"truncate", "remove"}
      BY <1>8, <3>1 DEF Store, Empties
    <3>2. CASE op[t] \notin {"truncate", "remove"}
      <4>1. /\ op'[t] = "none"
            /\ \A u \in Threads \ {t} : op'[u] = op[u] /\ obj'[u] = obj[u]
        BY <1>8, <3>2 DEF Store, Leave, TypeOK
      <4> QED
        BY <3>2, <4>1 DEF Empties
    <3> QED
      BY <3>1, <3>2
  <2> QED
    BY <2>1, <2>2, CountedStays DEF Counted, Cost
<1>9. CASE ResetSize(t)
  <2>1. obj[t] \in Objects
    BY <1>0, <1>9, ObjectsAssumption DEF ResetSize, HandlerOf, TypeOK
  <2>2. PICK o \in Objects : o = obj[t]
    BY <2>1
  <2>3. /\ pc[t] = "reset" /\ UNCHANGED <<kind, used>>
        /\ size' = [size EXCEPT ![obj[t]] = 0]
        /\ op'[t] = "none" /\ obj'[t] = NoObject
        /\ \A u \in Threads \ {t} : op'[u] = op[u] /\ obj'[u] = obj[u]
    BY <1>9 DEF ResetSize, Leave, ghosts, TypeOK
  <2>4. /\ op[t] \in {"truncate", "remove"}
        /\ \A u \in Threads \ {t} : obj[u] # o
        /\ kind[o] # "dir"
    BY <1>0, <2>3, <2>2, ObjectsAssumption DEF HandlerOf, Alone, TypeOK
  <2>5. /\ Counted(o) = 0
    BY <2>4, <2>2 DEF Counted, Empties
  <2>6. Counted(o)' = 0
    <3>1. size'[o] = 0
      BY <2>3, <2>2 DEF TypeOK
    <3> QED
      BY <2>3, <2>4, <2>2, <3>1 DEF Counted, Cost
  <2>7. \A x \in Objects \ {o} : Counted(x)' = Counted(x)
    <3>1. \A x \in Objects \ {o} : size'[x] = size[x]
      BY <2>3, <2>2 DEF TypeOK
    <3>2. \A x \in Objects \ {o} : \A u \in Threads : Empties(u, x)' <=> Empties(u, x)
      BY <2>3, <2>4, <2>2 DEF Empties
    <3> QED
      BY <2>3, <3>1, <3>2 DEF Counted, Cost
  <2> QED
    BY <2>3, <2>5, <2>6, <2>7, CountedStays
<1>10. CASE \E o \in Objects : \/ \E n \in 1 .. MaxRequest : BeginWrite(t, o, n)
                               \/ BeginMkdir(t, o)
  BY <1>1, <1>10 DEF BeginWrite, BeginMkdir, ghosts
<1> QED
  BY <1>2, <1>4, <1>5, <1>6, <1>7, <1>8, <1>9, <1>10 DEF Step

-----------------------------------------------------------------------------
(***************************************************************************)
(* How far the disk gets beyond its limit.                                 *)
(***************************************************************************)
LEMMA TimesMonotone ==
    ASSUME NEW m \in Int, NEW n \in Int, NEW k \in Nat, m <= n
    PROVE  m * k <= n * k
<1>1. (n - m) * k >= 0
  OBVIOUS
<1>2. (n - m) * k = n * k - m * k
  OBVIOUS
<1> QED
  BY <1>1, <1>2

\* The threads past the check, and their number.
LEMMA PassedCount ==
    ASSUME NEW S \in SUBSET Threads
    PROVE  /\ IsFiniteSet(S) /\ Cardinality(S) \in Nat
           /\ Cardinality(S) <= Cardinality(Threads)
           /\ Cardinality(Threads) \in Nat \ {0}
           /\ S # {} => Cardinality(S) >= 1
           /\ \A u \in S : Cardinality(S \ {u}) = Cardinality(S) - 1
           /\ \A u \in Threads \ S :
                /\ Cardinality(S \cup {u}) = Cardinality(S) + 1
                /\ Cardinality(S) + 1 <= Cardinality(Threads)
<1>1. /\ IsFiniteSet(S) /\ Cardinality(S) \in Nat
      /\ Cardinality(S) <= Cardinality(Threads)
      /\ Cardinality(Threads) \in Nat
  BY FS_Subset, FS_CardinalityType
<1>2. S # {} => Cardinality(S) >= 1
  BY <1>1, FS_EmptySet
<1>3. Cardinality(Threads) # 0
  BY FS_EmptySet
<1>4. \A u \in S : Cardinality(S \ {u}) = Cardinality(S) - 1
  BY <1>1, FS_RemoveElement
<1>5. ASSUME NEW u \in Threads \ S
      PROVE  /\ Cardinality(S \cup {u}) = Cardinality(S) + 1
             /\ Cardinality(S) + 1 <= Cardinality(Threads)
  <2>1. Cardinality(S \cup {u}) = Cardinality(S) + 1
    BY <1>1, FS_AddElement
  <2>2. Cardinality(S \cup {u}) <= Cardinality(Threads)
    BY FS_Subset
  <2> QED
    BY <2>1, <2>2
<1> QED
  BY <1>1, <1>2, <1>3, <1>4, <1>5

LEMMA RoomStep ==
    ASSUME TypeOK, Requests, races = 0 => OneUpdates /\ AccountLags /\ RoomLeft,
           NEW t \in Threads, Step(t), races' = 0
    PROVE  RoomLeft'
<1> DEFINE N == Cardinality(Threads)
           Extra(k) == (k - 1) * MaxRequest
           S == Cardinality(Passed)
<1>1. TypeOK' /\ delta'[t] \in Int /\ Requests'
  BY TypeStep, RequestsStep DEF TypeOK
<1>2. /\ Passed \in SUBSET Threads /\ Passed' \in SUBSET Threads
      /\ IsFiniteSet(Passed) /\ S \in Nat /\ N \in Nat \ {0} /\ S <= N
  BY PassedCount DEF Passed
<1>3. /\ \A k \in Int : Extra(k) \in Int /\ Extra(k + 1) = Extra(k) + MaxRequest
      /\ \A j, k \in Int : j <= k => Extra(j) <= Extra(k)
      /\ Extra(1) = 0
  <2>1. ASSUME NEW j \in Int, NEW k \in Int, j <= k
        PROVE  Extra(j) <= Extra(k)
    BY <2>1, TimesMonotone
  <2> QED
    BY <2>1
<1>4. /\ Beyond(N) = MaxSize + Extra(N)
      /\ Beyond(N) \in Int
  BY <1>2, <1>3 DEF Beyond
<1>5. CASE /\ pc[t] = "idle" /\ pc' = [pc EXCEPT ![t] = "working"]
           /\ delta' = [delta EXCEPT ![t] = delta'[t]]
           /\ delta'[t] \in 1 .. MaxRequest /\ Fits(delta'[t])
           /\ UNCHANGED <<current_size, used, register, races>>
  <2>1. Passed' = Passed \cup {t} /\ t \notin Passed
    BY <1>5 DEF Passed, TypeOK
  <2>2. Cardinality(Passed') = S + 1 /\ S + 1 <= N
    BY <1>2, <2>1, PassedCount
  <2>3. CASE \A u \in Threads : ~Updating(u)
    <3>1. current_size = used
      BY <1>5, <2>3 DEF AccountLags
    <3>2. used + delta'[t] <= MaxSize
      BY <1>5, <3>1 DEF Fits
    <3>3. Extra(S + 1) <= Extra(N)
      BY <1>2, <1>3, <2>2
    <3>4. used' + delta'[t] + Extra(S + 1) <= Beyond(N)
      <4> HIDE DEF Extra, N, S
      <4> QED
        BY <1>1, <1>2, <1>3, <1>4, <1>5, <3>2, <3>3 DEF TypeOK
    <3> QED
      BY <2>1, <2>2, <3>4 DEF RoomLeft
  <2>4. CASE \E u \in Threads : Updating(u)
    <3>1. PICK u \in Threads : Updating(u)
      BY <2>4
    <3>2. u \notin Passed' /\ current_size = used - delta[u] /\ delta[u] <= MaxRequest
      BY <1>5, <2>1, <3>1 DEF AccountLags, Requests, Updating, Passed, TypeOK
    <3>3. S + 2 <= N
      <4>1. Cardinality(Passed') + 1 <= N
        BY <1>2, <3>1, <3>2, PassedCount
      <4> QED
        BY <1>2, <2>2, <4>1
    <3>4. used + delta'[t] <= MaxSize + MaxRequest
      BY <1>5, <3>1, <3>2 DEF Fits, TypeOK
    <3>5. Extra(S + 1) + MaxRequest <= Extra(N)
      <4>1. Extra(S + 2) <= Extra(N)
        BY <1>2, <1>3, <3>3
      <4>2. Extra((S + 1) + 1) = Extra(S + 1) + MaxRequest /\ (S + 1) + 1 = S + 2
        BY <1>2, <1>3
      <4> HIDE DEF Extra, N, S
      <4> QED
        BY <4>1, <4>2
    <3>6. used' + delta'[t] + Extra(S + 1) <= Beyond(N)
      <4> HIDE DEF Extra, N, S
      <4> QED
        BY <1>1, <1>2, <1>3, <1>4, <1>5, <3>4, <3>5 DEF TypeOK
    <3> QED
      BY <2>1, <2>2, <3>6 DEF RoomLeft
  <2> QED
    BY <2>3, <2>4
<1>6. CASE /\ pc[t] = "working" /\ delta'[t] = delta[t]
           /\ pc' = [pc EXCEPT ![t] = "account"]
           /\ delta' = [delta EXCEPT ![t] = delta'[t]]
           /\ BeginsUpdate(t, delta'[t])
  <2>1. races = 0 /\ used' = used + delta[t] /\ delta' = delta
    BY <1>1, <1>6, AloneWhenExact DEF TypeOK
  <2>2. Passed' = Passed \ {t} /\ t \in Passed
    BY <1>6 DEF Passed, TypeOK
  <2>3. Cardinality(Passed') = S - 1
    BY <1>2, <2>2, PassedCount
  <2>4. PICK s \in Passed : used + delta[s] + Extra(S) <= Beyond(N)
    BY <2>1, <2>2 DEF RoomLeft
  <2>5. \A u \in Passed : delta[u] \in 1 .. MaxRequest
    BY DEF Requests, Passed
  <2>6. CASE Passed' = {}
    <3>1. s = t
      BY <2>2, <2>4, <2>6
    <3>2. S = 1
      BY <1>2, <2>3, <2>6, FS_EmptySet
    <3>3. used' <= Beyond(N)
      BY <1>3, <2>1, <2>4, <3>1, <3>2 DEF TypeOK
    <3> QED
      BY <2>6, <3>3 DEF RoomLeft
  <2>7. CASE Passed' # {}
    <3>0. /\ Extra(S) \in Int /\ Extra(S - 1) \in Int
          /\ used \in Int /\ MaxRequest \in Int
      BY <1>2, <1>3 DEF TypeOK
    <3>1. Extra(S) = Extra(S - 1) + MaxRequest
      <4>1. Extra((S - 1) + 1) = Extra(S - 1) + MaxRequest /\ (S - 1) + 1 = S
        BY <1>2, <1>3
      <4> QED
        BY <4>1
    <3>2. \E r \in Passed' : used' + delta'[r] + Extra(S - 1) <= Beyond(N)
      <4>1. CASE s = t
        <5>1. PICK r \in Passed' : TRUE
          BY <2>7
        <5>2. delta[r] <= MaxRequest /\ delta[r] \in Int /\ delta[t] \in Int
          BY <2>2, <2>5, <5>1
        <5>3. used' + delta'[r] + Extra(S - 1) <= Beyond(N)
          <6> HIDE DEF Extra, N, S
          <6> QED
            BY <1>4, <2>1, <2>4, <3>0, <3>1, <4>1, <5>2
        <5> QED
          BY <5>1, <5>3
      <4>2. CASE s # t
        <5>1. s \in Passed' /\ delta[t] <= MaxRequest /\ delta[t] \in Int /\ delta[s] \in Int
          BY <2>2, <2>4, <2>5, <4>2
        <5>2. used' + delta'[s] + Extra(S - 1) <= Beyond(N)
          <6> HIDE DEF Extra, N, S
          <6> QED
            BY <1>4, <2>1, <2>4, <3>0, <3>1, <5>1
        <5> QED
          BY <5>1, <5>2
      <4> QED
        BY <4>1, <4>2
    <3> QED
      BY <2>3, <2>7, <3>2 DEF RoomLeft
  <2> QED
    BY <2>6, <2>7
<1>7. CASE /\ Passed' = Passed /\ \A u \in Passed : delta'[u] = delta[u]
           /\ used' <= used /\ races = 0
  <2>1. used' \in Int /\ used \in Int /\ \A u \in Passed : delta[u] \in Int
    BY <1>1 DEF TypeOK, Passed
  <2>2. CASE Passed = {}
    BY <1>4, <1>7, <2>1, <2>2 DEF RoomLeft
  <2>3. CASE Passed # {}
    <3>1. PICK s \in Passed : used + delta[s] + Extra(S) <= Beyond(N)
      BY <1>7, <2>3 DEF RoomLeft
    <3>2. /\ delta'[s] = delta[s] /\ delta[s] \in Int
          /\ Extra(S) \in Int
      BY <1>2, <1>3, <1>7, <2>1, <3>1
    <3>3. used' + delta'[s] + Extra(S) <= Beyond(N)
      <4> HIDE DEF Extra, N, S
      <4> QED
        BY <1>4, <1>7, <2>1, <3>1, <3>2
    <3> QED
      BY <1>7, <2>3, <3>1, <3>3 DEF RoomLeft
  <2> QED
    BY <2>2, <2>3
<1>8. CASE /\ pc[t] = "idle" /\ delta'[t] <= 0
           /\ pc' = [pc EXCEPT ![t] = "account"]
           /\ delta' = [delta EXCEPT ![t] = delta'[t]]
           /\ BeginsUpdate(t, delta'[t])
  <2>1. races = 0 /\ used' = used + delta'[t]
    BY <1>1, <1>8, AloneWhenExact
  <2>2. used' <= used
    BY <1>1, <1>8, <2>1 DEF TypeOK
  <2>3. Passed' = Passed /\ \A u \in Passed : delta'[u] = delta[u]
    BY <1>8 DEF Passed, TypeOK
  <2> QED
    BY <1>7, <2>1, <2>2, <2>3
<1>9. CASE /\ pc[t] \in {"account", "store", "reset"}
           /\ pc'[t] \in {"store", "reset", "idle"}
           /\ pc' = [pc EXCEPT ![t] = pc'[t]]
           /\ \A u \in Threads \ {t} : delta'[u] = delta[u]
           /\ UNCHANGED <<used, races>>
  <2>1. Passed' = Passed /\ \A u \in Passed : delta'[u] = delta[u]
    BY <1>9 DEF Passed, TypeOK
  <2> QED
    BY <1>7, <1>9, <2>1 DEF TypeOK
<1>10. CASE pc' = pc /\ delta' = delta /\ UNCHANGED <<used, races>>
  <2>1. Passed' = Passed
    BY <1>10 DEF Passed
  <2> QED
    BY <1>7, <1>10, <2>1 DEF TypeOK
<1>11. \/ /\ pc[t] = "account" /\ pc' = [pc EXCEPT ![t] = "store"]
          /\ UNCHANGED <<used, delta, races>>
       \/ /\ pc[t] = "store" /\ pc'[t] \in {"reset", "idle"}
          /\ pc' = [pc EXCEPT ![t] = pc'[t]]
          /\ delta' = [delta EXCEPT ![t] = delta'[t]]
          /\ UNCHANGED <<used, races>>
       \/ /\ pc[t] = "reset" /\ pc' = [pc EXCEPT ![t] = "idle"]
          /\ delta' = [delta EXCEPT ![t] = 0]
          /\ UNCHANGED <<used, races>>
       => RoomLeft'
  BY <1>1, <1>9 DEF TypeOK
<1> QED
  BY StepKinds, <1>5, <1>6, <1>8, <1>10, <1>11

-----------------------------------------------------------------------------
(***************************************************************************)
(* The theorems.                                                           *)
(***************************************************************************)
\* A step of the specification is a step of a thread, or a stutter.
LEMMA NextIsStep ==
    ASSUME [Next]_vars
    PROVE  (\E t \in Threads : Step(t)) \/ UNCHANGED vars
BY DEF Next, Step

LEMMA InvInit == Init => IInv
<1> SUFFICES ASSUME Init PROVE IInv
  OBVIOUS
<1>1. TypeOK
  BY TypeInit
<1>2. Requests /\ OneUpdates /\ AccountLags
  BY DEF Init, Requests, OneUpdates, AccountLags, Updating
<1>3. RoomLeft
  <2>1. Passed = {}
    BY DEF Init, Passed
  <2>2. Cardinality(Threads) \in Nat \ {0}
    BY PassedCount, {} \in SUBSET Threads
  <2>3. 0 <= (Cardinality(Threads) - 1) * MaxRequest
    BY <2>2, TimesMonotone
  <2>4. used <= Beyond(Cardinality(Threads))
    BY <2>2, <2>3 DEF Init, Beyond
  <2> QED
    BY <2>1, <2>4 DEF RoomLeft
<1>4. HandlersInv
  BY DEF Init, HandlersInv
<1>5. UsedIsCounted
  <2> DEFINE f == [o \in Objects |-> Counted(o)]
  <2>1. DOMAIN f = Objects /\ \A o \in Objects : f[o] = 0
    BY DEF Init, Counted, Cost
  <2> HIDE DEF f
  <2>2. SumFunction(f) = 0
    BY <2>1, SumOfZeros, ObjectsAssumption DEF SumFunction
  <2> QED
    BY <2>2 DEF Init, UsedIsCounted, f
<1>6. races = 0
  BY DEF Init
<1> QED
  BY <1>1, <1>2, <1>3, <1>4, <1>5, <1>6 DEF IInv

LEMMA InvStep == IInv /\ [Next]_vars => IInv'
<1> SUFFICES ASSUME IInv, [Next]_vars PROVE IInv'
  OBVIOUS
<1>1. ASSUME NEW t \in Threads, Step(t) PROVE IInv'
  <2> USE DEF IInv
  <2>1. TypeOK' /\ Requests' /\ HandlersInv' /\ UsedIsCounted'
    BY <1>1, TypeStep, RequestsStep, HandlersStep, CountedStep
  <2>2. races' = 0 => OneUpdates' /\ AccountLags' /\ RoomLeft'
    BY <1>1, AccountStep, RoomStep
  <2>3. races' = 1 => TwoUpdate' /\ AccountLosesOne'
    BY <1>1, LosesStep
  <2> QED
    BY <2>1, <2>2, <2>3
<1>2. CASE UNCHANGED vars
  <2> USE <1>2 DEF vars, disk, threads, ghosts
  <2>1. TypeOK'
    BY DEF IInv, TypeOK
  <2>2. Requests' /\ (OneUpdates <=> OneUpdates') /\ (AccountLags <=> AccountLags')
    BY DEF IInv, Requests, OneUpdates, AccountLags, Updating
  <2>3. Passed' = Passed
    BY DEF Passed
  <2>4. RoomLeft <=> RoomLeft'
    BY <2>3 DEF RoomLeft
  <2>5. HandlersInv'
    BY DEF IInv, HandlersInv, Empties
  <2>6. UsedIsCounted'
    BY CountedStays DEF IInv, Counted, Cost, Empties
  <2>7. races = 1 => TwoUpdate' /\ AccountLosesOne'
    BY LosesFrame DEF IInv, Updating, Base
  <2> QED
    BY <2>1, <2>2, <2>4, <2>5, <2>6, <2>7 DEF IInv
<1> QED
  BY <1>1, <1>2, NextIsStep

\* The inductive invariant: what the disk holds is what its names take, but for
\* what is being emptied; the account is behind by the one update under way, or
\* short by the one that was lost; and one of those past the check knows the room
\* but for the others' requests.
THEOREM InductiveInvariant == Spec => []IInv
BY InvInit, InvStep, PTL DEF Spec

\* Whatever the threads do, the variables keep their types: no file has a
\* negative size, whichever of its writes and truncations come between.
THEOREM TypeCorrect == Spec => []TypeOK
<1>1. IInv => TypeOK
  BY DEF IInv
<1> QED
  BY <1>1, InductiveInvariant, PTL

\* Without a lock, current_size is right at rest after any run in which no two
\* updates of it overlapped.
THEOREM AccountRight == Spec => []AccountIsUsed
<1>1. IInv => AccountIsUsed
  BY DEF IInv, AccountIsUsed, AccountLags, Idle, Updating
<1> QED
  BY <1>1, InductiveInvariant, PTL

\* check_ramdisk_capacity is late: n threads may together write n - 1 requests
\* more than the disk holds, and no more.
THEOREM OverrunBounded == Spec => []OverrunIsBounded
<1>1. IInv => OverrunIsBounded
  <2> SUFFICES ASSUME IInv, races = 0 PROVE used <= Beyond(Cardinality(Threads))
    BY DEF OverrunIsBounded
  <2>1. CASE Passed = {}
    BY <2>1 DEF IInv, RoomLeft
  <2>2. CASE Passed # {}
    <3> DEFINE S == Cardinality(Passed)
    <3>1. PICK s \in Passed :
             used + delta[s] + (S - 1) * MaxRequest <= Beyond(Cardinality(Threads))
      BY <2>2 DEF IInv, RoomLeft
    <3>2. delta[s] \in Nat
      BY DEF IInv, Requests, Passed
    <3>3. S \in Nat /\ S >= 1 /\ Cardinality(Threads) \in Nat
      BY <2>2, PassedCount DEF Passed
    <3>4. 0 <= (S - 1) * MaxRequest
      BY <3>3, TimesMonotone
    <3>5. Beyond(Cardinality(Threads)) \in Int /\ used \in Int
      BY <3>3 DEF Beyond, IInv, TypeOK
    <3> QED
      BY <3>1, <3>2, <3>3, <3>4, <3>5
  <2> QED
    BY <2>1, <2>2
<1> QED
  BY <1>1, InductiveInvariant, PTL

\* At rest the account is what the files and directories on the disk take, and
\* after one overlap of two updates it is off by one of the two, or by nothing
\* (load and store of current_size in the five handlers that change it).
THEOREM AccountExact == Spec => []AccountIsExact
<1>1. IInv => AccountIsExact
  <2> SUFFICES ASSUME IInv, Idle
               PROVE  /\ used = SumFunction([o \in Objects |-> Cost(o)])
                      /\ races <= 1 => used - current_size \in {0} \cup overlapped
    BY DEF AccountIsExact
  <2>1. \A u \in Threads : ~Updating(u) /\ op[u] = "none"
    BY DEF Idle, Updating, IInv, HandlersInv
  <2>2. [o \in Objects |-> Counted(o)] = [o \in Objects |-> Cost(o)]
    <3>1. \A o \in Objects : Counted(o) = Cost(o)
      BY <2>1 DEF Counted, Empties
    <3> QED
      BY <3>1
  <2>3. used = SumFunction([o \in Objects |-> Cost(o)])
    BY <2>2 DEF IInv, UsedIsCounted
  <2>4. CASE races = 0
    <3>1. current_size = used /\ used \in Int
      BY <2>1, <2>4 DEF IInv, AccountLags, TypeOK
    <3> QED
      BY <2>3, <3>1
  <2>5. CASE races = 1
    BY <2>1, <2>3, <2>5 DEF IInv, AccountLosesOne
  <2>6. races \in Nat
    BY DEF IInv, TypeOK
  <2>7. races <= 1 => races = 0 \/ races = 1
    BY <2>6
  <2> QED
    BY <2>3, <2>4, <2>5, <2>7
<1> QED
  BY <1>1, InductiveInvariant, PTL
=============================================================================
