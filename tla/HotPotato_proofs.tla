--------------------------- MODULE HotPotato_proofs ---------------------------
(***************************************************************************)
(* Proofs about HotPotato, for every ring: any number of processes, any    *)
(* arguments, any bound on what fails.                                     *)
(***************************************************************************)
EXTENDS HotPotato, CommonFacts, FiniteSetTheorems

USE ArgumentsAssumption

-----------------------------------------------------------------------------
(***************************************************************************)
(* Queues of connections, position by position.                            *)
(***************************************************************************)
\* A new connection goes behind the others.
LEMMA AppendAt ==
    ASSUME NEW S, NEW q \in Seq(S), NEW x \in S
    PROVE  /\ Append(q, x) \in Seq(S)
           /\ Append(q, x) # <<>>
           /\ Len(q) + 1 \notin DOMAIN q
           /\ DOMAIN Append(q, x) = DOMAIN q \cup {Len(q) + 1}
           /\ \A k \in DOMAIN q : Append(q, x)[k] = q[k]
           /\ Append(q, x)[Len(q) + 1] = x
           /\ q # <<>> => Head(Append(q, x)) = Head(q)
           /\ q = <<>> => Head(Append(q, x)) = x
<1>1. /\ Append(q, x) \in Seq(S)
      /\ Len(Append(q, x)) = Len(q) + 1 /\ Len(q) \in Nat
      /\ DOMAIN q = 1 .. Len(q)
      /\ DOMAIN Append(q, x) = 1 .. Len(q) + 1
      /\ \A k \in 1 .. Len(q) : Append(q, x)[k] = q[k]
      /\ Append(q, x)[Len(q) + 1] = x
  OBVIOUS
<1>2. Append(q, x) # <<>>
  BY Enqueued
<1>3. Head(Append(q, x)) = Append(q, x)[1]
  BY <1>1, <1>2
<1>4. q # <<>> => Len(q) > 0 /\ Head(q) = q[1]
  OBVIOUS
<1>5. q = <<>> => Len(q) = 0
  OBVIOUS
<1> QED
  BY <1>1, <1>2, <1>3, <1>4, <1>5

\* accept() takes the connection in front.
LEMMA TailAt ==
    ASSUME NEW S, NEW q \in Seq(S), q # <<>>
    PROVE  /\ Head(q) \in S
           /\ 1 \in DOMAIN q /\ Head(q) = q[1]
           /\ Tail(q) \in Seq(S)
           /\ \A k \in DOMAIN Tail(q) : /\ k \in Nat /\ k >= 1
                                        /\ k + 1 \in DOMAIN q
                                        /\ Tail(q)[k] = q[k + 1]
<1>1. /\ Head(q) \in S /\ Head(q) = q[1] /\ Tail(q) \in Seq(S)
      /\ Len(q) \in Nat /\ Len(q) > 0 /\ Len(Tail(q)) = Len(q) - 1
      /\ DOMAIN q = 1 .. Len(q) /\ DOMAIN Tail(q) = 1 .. Len(q) - 1
      /\ \A k \in 1 .. Len(q) - 1 : Tail(q)[k] = q[k + 1]
  OBVIOUS
<1> QED
  BY <1>1

-----------------------------------------------------------------------------
(***************************************************************************)
(* Types.                                                                  *)
(***************************************************************************)
\* The neighbours of an index are other indexes.
LEMMA Neighbours ==
    ASSUME NEW k \in Indexes
    PROVE  /\ LeftOf(k) \in Indexes /\ LeftOf(k) = (k - 1) % N
           /\ RightOf(k) \in Indexes /\ RightOf(k) = (k + 1) % N
BY DEF Indexes, LeftOf, RightOf

\* The messages are what the queues are made of.
LEMMA MessageTypes ==
    /\ \A p \in Procs : Hello(p) \in ToMaster
    /\ Exit \in ToPlayer
    /\ \A l, r \in Indexes : Neighbors(l, r) \in ToPlayer
    /\ \A h, n \in Nat : \A s \in Int : \A t \in Seq(Int) : \A w \in Seq(Indexes) :
          /\ Potato("SEND_P", h, n, s, t, w) \in ToPlayer
          /\ Potato("REPORT_P", h, n, s, t, w) \in PotatoOf("REPORT_P")
          /\ Potato("REPORT_P", h, n, s, t, w) \in ToMaster
BY DEF Hello, Exit, Neighbors, Potato, ToMaster, ToPlayer, PotatoOf

\* A pass of the master's loops over the players.
LEMMA NextPlayerTypes ==
    ASSUME NEW phase, i \in Indexes, NextPlayer(phase)
    PROVE  /\ i' \in Indexes /\ tries' = 0
           /\ mphase' = mphase \/ mphase' = phase
BY DEF NextPlayer, Indexes

\* What recv() delivers is a track of the length that was sent, with entries
\* left out or torn.
LEMMA ReceivedTrack ==
    ASSUME NEW track \in Seq(Int), NEW got \in Received(track)
    PROVE  /\ got \in Seq(Int)
           /\ Len(got) = Len(track)
           /\ \A k \in DOMAIN track : got[k] \in {track[k], 0, Torn}
<1>1. DOMAIN track = 1 .. Len(track) /\ Len(track) \in Nat
  OBVIOUS
<1>2. CASE got = track
  BY <1>2
<1>3. ASSUME NEW k \in Int, got = Cut(track, k)
      PROVE  /\ got \in Seq(Int)
             /\ Len(got) = Len(track)
             /\ \A j \in DOMAIN track : got[j] \in {track[j], 0, Torn}
  <2>1. got = [j \in 1 .. Len(track) |-> IF j <= k THEN track[j] ELSE 0]
    BY <1>1, <1>3 DEF Cut
  <2>2. got \in [1 .. Len(track) -> Int]
    BY <2>1
  <2> QED
    BY <1>1, <2>1, <2>2
<1>4. ASSUME NEW k \in Int, got = Shifted(track, k)
      PROVE  /\ got \in Seq(Int)
             /\ Len(got) = Len(track)
             /\ \A j \in DOMAIN track : got[j] \in {track[j], 0, Torn}
  <2>1. got = [j \in 1 .. Len(track) |->
                 IF j <= k THEN track[j]
                 ELSE IF j = Len(track) \/ track[j + 1] = 0 THEN 0 ELSE Torn]
    BY <1>1, <1>4 DEF Shifted
  <2>2. got \in [1 .. Len(track) -> Int]
    BY <2>1 DEF Torn
  <2>3. \A j \in 1 .. Len(track) : got[j] \in {track[j], 0, Torn}
    BY <2>1
  <2>4. got \in Seq(Int) /\ Len(got) = Len(track)
    BY <1>1, <2>2
  <2> QED
    BY <1>1, <2>3, <2>4
<1>5. got = track \/ \E k \in Int : got = Cut(track, k) \/ got = Shifted(track, k)
  BY <1>1 DEF Received
<1> QED
  BY <1>2, <1>3, <1>4, <1>5

\* What a player passes on has the type the message says.
LEMMA PassedTypes ==
    ASSUME NEW m \in PotatoOf("SEND_P"), NEW got \in Received(m.track),
           NEW k \in Indexes, m.hops > 0
    PROVE  /\ Passed(m, got, k).type = "SEND_P" => Passed(m, got, k) \in ToPlayer
           /\ Passed(m, got, k).type = "REPORT_P" => Passed(m, got, k) \in ToMaster
           /\ Passed(m, got, k).type \in {"SEND_P", "REPORT_P"}
<1>1. /\ m.hops \in Nat /\ m.sent_times \in Nat
      /\ m.track \in Seq(Int) /\ m.walk \in Seq(Indexes)
  BY DEF PotatoOf
<1>2. got \in Seq(Int)
  BY <1>1, ReceivedTrack
<1>3. k \in Int
  BY DEF Indexes
<1>4. Append(got, k) \in Seq(Int) /\ Append(m.walk, k) \in Seq(Indexes)
  BY <1>1, <1>2, <1>3
<1>5. m.hops - 1 \in Nat /\ m.sent_times + 1 \in Nat
  BY <1>1
<1>6. CASE m.hops - 1 # 0
  BY <1>3, <1>4, <1>5, <1>6, MessageTypes DEF Passed, Extended, Potato
<1>7. CASE m.hops - 1 = 0
  BY <1>3, <1>4, <1>5, <1>7, MessageTypes DEF Passed, Extended, Potato
<1> QED
  BY <1>6, <1>7

\* A queue of connections to the master, or to a player, stays one.
LEMMA QueuesTyped ==
    ASSUME TypeOK
    PROVE  /\ backlog \in Seq(ToMaster)
           /\ backlog # <<>> => Head(backlog) \in ToMaster
                               /\ Tail(backlog) \in Seq(ToMaster)
           /\ \A p \in Procs : inbox[p] # <<>> =>
                 /\ Head(inbox[p]) \in ToPlayer
                 /\ [inbox EXCEPT ![p] = Tail(@)] \in [Procs -> Seq(ToPlayer)]
           /\ \A p \in Procs : [inbox EXCEPT ![p] = <<>>] \in [Procs -> Seq(ToPlayer)]
           /\ \A m \in ToMaster : Append(backlog, m) \in Seq(ToMaster)
<1>1. backlog \in Seq(ToMaster) /\ inbox \in [Procs -> Seq(ToPlayer)]
  BY DEF TypeOK
<1>2. ASSUME NEW p \in Procs, inbox[p] # <<>>
      PROVE  /\ Head(inbox[p]) \in ToPlayer
             /\ [inbox EXCEPT ![p] = Tail(@)] \in [Procs -> Seq(ToPlayer)]
  <2>1. inbox[p] \in Seq(ToPlayer)
    BY <1>1
  <2>2. Head(inbox[p]) \in ToPlayer /\ Tail(inbox[p]) \in Seq(ToPlayer)
    BY <1>2, <2>1, TailAt
  <2> QED
    BY <1>1, <2>2
<1>3. <<>> \in Seq(ToPlayer)
  OBVIOUS
<1>4. \A p \in Procs : [inbox EXCEPT ![p] = <<>>] \in [Procs -> Seq(ToPlayer)]
  BY <1>1, <1>3
<1>5. backlog # <<>> => Head(backlog) \in ToMaster
                               /\ Tail(backlog) \in Seq(ToMaster)
  BY <1>1, TailAt
<1>6. \A m \in ToMaster : Append(backlog, m) \in Seq(ToMaster)
  BY <1>1, AppendAt
<1> QED
  BY <1>1, <1>2, <1>4, <1>5, <1>6

\* A message that a server accepts is queued behind what its owner has.
LEMMA SendToTypes ==
    ASSUME NEW box \in [Procs -> Seq(ToPlayer)], NEW q \in Procs,
           NEW m \in ToPlayer
    PROVE  [box EXCEPT ![q] = Append(@, m)] \in [Procs -> Seq(ToPlayer)]
<1>1. Append(box[q], m) \in Seq(ToPlayer)
  BY AppendAt
<1> QED
  BY <1>1

\* The connection in front of the master's queue, if it is a hello: whoever
\* sent it waits, and has sent no other.
LEMMA FrontHello ==
    ASSUME IInv, backlog # <<>>, Head(backlog).type = "HELLO"
    PROVE  LET p == Head(backlog).from
           IN  /\ p \in Procs /\ Head(backlog) = Hello(p)
               /\ pstate[p] = "waiting" /\ index[p] = NoIndex /\ inbox[p] = <<>>
               /\ \A k \in DOMAIN Tail(backlog) : Tail(backlog)[k] # Head(backlog)
<1>1. /\ TypeOK /\ PlayersInv /\ HellosInv
  BY DEF IInv
<1>2. backlog \in Seq(ToMaster)
  BY <1>1 DEF TypeOK
<1>3. /\ Head(backlog) \in ToMaster
      /\ 1 \in DOMAIN backlog /\ Head(backlog) = backlog[1]
      /\ \A k \in DOMAIN Tail(backlog) : /\ k \in Nat /\ k >= 1
                                         /\ k + 1 \in DOMAIN backlog
                                         /\ Tail(backlog)[k] = backlog[k + 1]
  BY <1>2, TailAt
<1>4. Head(backlog).from \in Procs /\ Head(backlog) = Hello(Head(backlog).from)
  BY <1>3 DEF ToMaster, PotatoOf, Hello
<1>5. /\ pstate[Head(backlog).from] = "waiting"
      /\ \A k \in DOMAIN backlog : backlog[k] = Head(backlog) => k = 1
  BY <1>1, <1>3 DEF HellosInv
<1>6. \A k \in DOMAIN Tail(backlog) : Tail(backlog)[k] # Head(backlog)
  BY <1>3, <1>5
<1> QED
  BY <1>1, <1>4, <1>5, <1>6 DEF PlayersInv, Listens

\* Whoever connects to the master before the potato is under way says hello.
LEMMA InitHello ==
    ASSUME IInv, backlog # <<>>, mphase \notin {"report", "stuck"}
    PROVE  Head(backlog).type = "HELLO"
<1>1. backlog \in Seq(ToMaster)
  BY DEF IInv, TypeOK
<1>2. Head(backlog) \in ToMaster /\ 1 \in DOMAIN backlog /\ Head(backlog) = backlog[1]
  BY <1>1, TailAt
<1>3. ~IsPotato(Head(backlog))
  BY <1>2 DEF IInv, PhasesInv, NoPotato, Free
<1> QED
  BY <1>2, <1>3 DEF ToMaster, PotatoOf, IsPotato

\* A message is delivered to a player that listens and has the index.
LEMMA Delivered ==
    ASSUME NEW k, NEW msg, SendTo(k, msg)
    PROVE  \E q \in Procs : /\ index[q] = k /\ Listens(q) /\ k \in Indexes
                            /\ inbox' = [inbox EXCEPT ![q] = Append(@, msg)]
BY DEF SendTo, Owners

\* p's queue without the connection it accepts.
Accepted(p) == [inbox EXCEPT ![p] = Tail(@)]

\* What PassPotato does: the potato goes to the player that listens at one of
\* the neighbours' indexes, or to the master, or is lost.
LEMMA PassFacts ==
    ASSUME IInv, NEW p \in Procs, PassPotato(p)
    PROVE  LET h == Head(inbox[p]) IN
           /\ pstate[p] = "ring" /\ index[p] \in Indexes /\ inbox[p] # <<>>
           /\ h \in PotatoOf("SEND_P") /\ h.hops > 0 /\ h = inbox[p][1]
           /\ 1 \in DOMAIN inbox[p]
           /\ \E got \in Received(h.track) : LET m == Passed(h, got, index[p]) IN
                 /\ Receives(h.track, got)
                 /\ \/ inbox' = Accepted(p) /\ UNCHANGED backlog
                    \/ /\ m.type = "SEND_P" /\ m \in ToPlayer
                       /\ \E k \in {left[p], right[p]} : \E q \in Procs :
                             /\ index[q] = k /\ Listens(q) /\ k \in Indexes
                             /\ inbox' = [Accepted(p) EXCEPT ![q] = Append(@, m)]
                       /\ UNCHANGED backlog
                    \/ /\ m.type = "REPORT_P" /\ m \in ToMaster
                       /\ inbox' = Accepted(p)
                       /\ backlog' = Append(backlog, m)
<1> DEFINE h == Head(inbox[p])
<1>0. TypeOK /\ PlayersInv /\ TracksInv
  BY DEF IInv
<1>1. /\ inbox[p] # <<>> /\ h.type = "SEND_P" /\ pstate[p] = "ring"
  BY DEF PassPotato
<1>2. inbox[p] \in Seq(ToPlayer)
  BY <1>0 DEF TypeOK
<1>3. h \in ToPlayer /\ 1 \in DOMAIN inbox[p] /\ h = inbox[p][1]
  BY <1>1, <1>2, TailAt
<1>4. h \in PotatoOf("SEND_P")
  BY <1>1, <1>3 DEF ToPlayer
<1>5. index[p] \in Indexes
  BY <1>0, <1>1 DEF PlayersInv
<1>6. h.hops > 0
  BY <1>0, <1>1, <1>3 DEF TracksInv, IsPotato, TracksItsWalk
<1>7. PICK got \in Received(h.track) :
         LET m == Passed(h, got, index[p]) IN
         /\ Receives(h.track, got)
         /\ \/ /\ m.type = "SEND_P"
               /\ \E k \in {left[p], right[p]} :
                     \/ \E q \in Owners(k) :
                           inbox' = [Accepted(p) EXCEPT ![q] = Append(@, m)]
                     \/ Owners(k) = {} /\ inbox' = Accepted(p)
               /\ UNCHANGED backlog
            \/ /\ m.type = "REPORT_P"
               /\ inbox' = Accepted(p)
               /\ \/ MasterListens /\ backlog' = Append(backlog, m)
                  \/ ~MasterListens /\ UNCHANGED backlog
  BY DEF PassPotato, Accepted
<1> DEFINE m == Passed(h, got, index[p])
<1>8. /\ m.type = "SEND_P" => m \in ToPlayer
      /\ m.type = "REPORT_P" => m \in ToMaster
  BY <1>4, <1>5, <1>6, PassedTypes
<1> HIDE DEF h
<1>9. \/ inbox' = Accepted(p) /\ UNCHANGED backlog
      \/ /\ m.type = "SEND_P" /\ m \in ToPlayer
         /\ \E k \in {left[p], right[p]} : \E q \in Procs :
               /\ index[q] = k /\ Listens(q) /\ k \in Indexes
               /\ inbox' = [Accepted(p) EXCEPT ![q] = Append(@, m)]
         /\ UNCHANGED backlog
      \/ /\ m.type = "REPORT_P" /\ m \in ToMaster
         /\ inbox' = Accepted(p)
         /\ backlog' = Append(backlog, m)
  BY <1>7, <1>8 DEF Owners
<1>10. \E g \in Received(h.track) : LET n == Passed(h, g, index[p]) IN
         /\ Receives(h.track, g)
         /\ \/ inbox' = Accepted(p) /\ UNCHANGED backlog
            \/ /\ n.type = "SEND_P" /\ n \in ToPlayer
               /\ \E k \in {left[p], right[p]} : \E q \in Procs :
                     /\ index[q] = k /\ Listens(q) /\ k \in Indexes
                     /\ inbox' = [Accepted(p) EXCEPT ![q] = Append(@, n)]
               /\ UNCHANGED backlog
            \/ /\ n.type = "REPORT_P" /\ n \in ToMaster
               /\ inbox' = Accepted(p)
               /\ backlog' = Append(backlog, n)
  BY <1>7, <1>9
<1> QED
  BY <1>1, <1>3, <1>4, <1>5, <1>6, <1>10 DEF h

\* The same, for what does not depend on the potato's track.
LEMMA PassQueues ==
    ASSUME IInv, NEW p \in Procs, PassPotato(p)
    PROVE  \/ inbox' = Accepted(p) /\ UNCHANGED backlog
           \/ \E q \in Procs : \E m \in ToPlayer :
                 /\ Listens(q) /\ index[q] \in Indexes /\ m.type = "SEND_P"
                 /\ inbox' = [Accepted(p) EXCEPT ![q] = Append(@, m)]
                 /\ UNCHANGED backlog
           \/ \E m \in ToMaster :
                 /\ m.type = "REPORT_P"
                 /\ inbox' = Accepted(p)
                 /\ backlog' = Append(backlog, m)
<1> DEFINE h == Head(inbox[p])
<1>1. PICK got \in Received(h.track) : LET m == Passed(h, got, index[p]) IN
         \/ inbox' = Accepted(p) /\ UNCHANGED backlog
         \/ /\ m.type = "SEND_P" /\ m \in ToPlayer
            /\ \E k \in {left[p], right[p]} : \E q \in Procs :
                  /\ index[q] = k /\ Listens(q) /\ k \in Indexes
                  /\ inbox' = [Accepted(p) EXCEPT ![q] = Append(@, m)]
            /\ UNCHANGED backlog
         \/ /\ m.type = "REPORT_P" /\ m \in ToMaster
            /\ inbox' = Accepted(p)
            /\ backlog' = Append(backlog, m)
  <2> HIDE DEF h
  <2> QED
    BY PassFacts DEF h
<1> DEFINE m == Passed(h, got, index[p])
<1> HIDE DEF m, h
<1> QED
  BY <1>1 DEF m

\* Those who are left without an answer were waiting for it; the others do not
\* notice.
LEMMA Orphans ==
    ASSUME IInv, NEW ps \in SUBSET Procs, Orphan(ps)
    PROVE  /\ index' \in [Procs -> Indexes \cup {NoIndex, Garbage}]
           /\ pstate' \in [Procs -> {"connecting", "waiting", "assigned",
                                    "neighbors", "ring", "exited"}]
           /\ \A p \in ps : index'[p] \in Unreceived /\ pstate'[p] = "assigned"
           /\ \A p \in Procs \ ps : index'[p] = index[p] /\ pstate'[p] = pstate[p]
BY DEF Orphan, Unreceived, IInv, TypeOK

LEMMA OrphanInFront ==
    ASSUME IInv, backlog # <<>>, Head(backlog).type = "HELLO"
    PROVE  /\ {Head(backlog).from} \in SUBSET Procs
           /\ \A p \in {Head(backlog).from} :
                 pstate[p] = "waiting" /\ index[p] = NoIndex /\ inbox[p] = <<>>
BY FrontHello

LEMMA OrphansAtExit ==
    ASSUME IInv
    PROVE  /\ Waiting \in SUBSET Procs
           /\ \A p \in Waiting :
                 pstate[p] = "waiting" /\ index[p] = NoIndex /\ inbox[p] = <<>>
BY DEF IInv, HellosInv, PlayersInv, Listens, Waiting, Hello

\* Every step keeps the types.
LEMMA TypesKept ==
    ASSUME IInv, Next
    PROVE  TypeOK'
<1> USE DEF mvars, pvars
<1>0. TypeOK /\ PlayersInv /\ TracksInv /\ IndexesInv
  BY DEF IInv
<1>1. CASE MasterListen
  BY <1>0, <1>1 DEF MasterListen, TypeOK
<1>2. CASE AcceptPlayer
  <2>1. i \in Indexes /\ backlog' \in Seq(ToMaster)
    BY <1>0, <1>2, QueuesTyped DEF AcceptPlayer, TypeOK
  <2>2. /\ i' \in Indexes /\ tries' = 0
        /\ mphase' = mphase \/ mphase' = "notify"
    BY <1>2, <2>1, NextPlayerTypes DEF AcceptPlayer
  <2>3. /\ index' \in [Procs -> Indexes \cup {NoIndex, Garbage}]
        /\ pstate' \in [Procs -> {"connecting", "waiting", "assigned",
                                 "neighbors", "ring", "exited"}]
    BY <1>0, <1>2, <2>1 DEF AcceptPlayer, TypeOK
  <2>4. member' \in [Indexes -> SUBSET Procs]
    <3>1. {Head(backlog).from} \in SUBSET Procs
      BY <1>2, InitHello, OrphanInFront DEF AcceptPlayer
    <3>2. member \in [Indexes -> SUBSET Procs] /\ i \in Indexes
      BY <1>0 DEF TypeOK
    <3>3. member' = [member EXCEPT ![i] = {Head(backlog).from}]
      BY <1>2 DEF AcceptPlayer
    <3> QED
      BY <3>1, <3>2, <3>3
  <2> QED
    BY <1>0, <1>2, <2>1, <2>2, <2>3, <2>4 DEF AcceptPlayer, TypeOK
<1>3. CASE AcceptPlayerFails
  <2>1. i \in Indexes /\ backlog' \in Seq(ToMaster)
    BY <1>0, <1>3, QueuesTyped DEF AcceptPlayerFails, TypeOK
  <2>2. /\ i' \in Indexes /\ tries' = 0
        /\ mphase' = mphase \/ mphase' = "notify"
    BY <1>3, <2>1, NextPlayerTypes DEF AcceptPlayerFails
  <2>3. /\ index' \in [Procs -> Indexes \cup {NoIndex, Garbage}]
        /\ pstate' \in [Procs -> {"connecting", "waiting", "assigned",
                                 "neighbors", "ring", "exited"}]
    <3>1. CASE UNCHANGED <<pstate, index>>
      BY <1>0, <3>1 DEF TypeOK
    <3>2. CASE backlog # <<>> /\ Orphan({Head(backlog).from})
      BY <1>3, <3>2, InitHello, OrphanInFront, Orphans DEF AcceptPlayerFails
    <3> QED
      BY <1>3, <3>1, <3>2 DEF AcceptPlayerFails
  <2> QED
    BY <1>0, <1>3, <2>1, <2>2, <2>3, FaultsAssumption
    DEF AcceptPlayerFails, TypeOK
<1>4. CASE Notify
  <2>1. i \in Indexes /\ inbox \in [Procs -> Seq(ToPlayer)]
    BY <1>0 DEF TypeOK
  <2>2. Neighbors(LeftOf(i), RightOf(i)) \in ToPlayer
    BY <2>1, Neighbours, MessageTypes
  <2>3. inbox' \in [Procs -> Seq(ToPlayer)]
    BY <1>4, <2>1, <2>2, SendToTypes DEF Notify, SendTo, Owners
  <2> QED
    BY <1>0, <1>4, <2>3, NextPlayerTypes DEF Notify, TypeOK
<1>5. CASE ChooseFirst
  BY <1>0, <1>5, AddrlenAssumption DEF ChooseFirst, TypeOK
<1>6. CASE SendFirst
  <2>1. inbox \in [Procs -> Seq(ToPlayer)] /\ hops \in Nat
    BY <1>0 DEF TypeOK
  <2>2. Potato("SEND_P", hops, 0, -1, <<>>, <<>>) \in ToPlayer
    <3>1. 0 \in Nat /\ -1 \in Int /\ <<>> \in Seq(Int) /\ <<>> \in Seq(Indexes)
      OBVIOUS
    <3> QED
      BY <2>1, <3>1, MessageTypes
  <2>3. inbox' \in [Procs -> Seq(ToPlayer)]
    BY <1>6, <2>1, <2>2, SendToTypes DEF SendFirst, SendTo, Owners
  <2> QED
    BY <1>0, <1>6, <2>3 DEF SendFirst, AfterSend, TypeOK
<1>7. CASE Retry
  BY <1>0, <1>7 DEF Retry, TypeOK
<1>8. CASE GiveUp
  BY <1>0, <1>8 DEF GiveUp, TypeOK, Indexes
<1>9. CASE AcceptReport
  <2>1. backlog' \in Seq(ToMaster) /\ Head(backlog) \in ToMaster
    BY <1>0, <1>9, QueuesTyped DEF AcceptReport
  <2>2. CASE Head(backlog).type = "REPORT_P"
    <3>1. Head(backlog) \in PotatoOf("REPORT_P")
      BY <2>1, <2>2 DEF ToMaster
    <3>2. PICK got \in Received(Head(backlog).track) :
             /\ Receives(Head(backlog).track, got)
             /\ report' = [Head(backlog) EXCEPT !.track = got]
      BY <1>9, <2>2 DEF AcceptReport
    <3>3. got \in Seq(Int)
      BY <3>1, <3>2, ReceivedTrack DEF PotatoOf
    <3>4. report' \in PotatoOf("REPORT_P")
      BY <3>1, <3>2, <3>3 DEF PotatoOf
    <3>5. faults' \in 0 .. MaxFaults
      BY <1>0, <3>2, FaultsAssumption DEF Receives, TypeOK
    <3>6. /\ i' = 0 /\ mphase' = "shutdown"
          /\ UNCHANGED <<hops, member, tries, maddr, pvars>>
      BY <1>9, <2>2 DEF AcceptReport
    <3> QED
      BY <1>0, <2>1, <3>4, <3>5, <3>6 DEF TypeOK, Indexes
  <2>3. CASE Head(backlog).type = "HELLO"
    <3>1. /\ mphase' = "stuck" /\ i' = i /\ report' = report /\ faults' = faults
          /\ UNCHANGED <<hops, member, tries, maddr, pvars>>
      BY <1>9, <2>3 DEF AcceptReport
    <3> QED
      BY <1>0, <2>1, <3>1 DEF TypeOK
  <2> QED
    BY <1>9, <2>2, <2>3 DEF AcceptReport
<1>10. CASE DropReport
  <2>1. /\ index' \in [Procs -> Indexes \cup {NoIndex, Garbage}]
        /\ pstate' \in [Procs -> {"connecting", "waiting", "assigned",
                                 "neighbors", "ring", "exited"}]
    <3>1. CASE UNCHANGED <<pstate, index>>
      BY <1>0, <3>1 DEF TypeOK
    <3>2. CASE Head(backlog).type = "HELLO" /\ Orphan({Head(backlog).from})
      BY <1>10, <3>2, OrphanInFront, Orphans DEF DropReport
    <3> QED
      BY <1>10, <3>1, <3>2 DEF DropReport
  <2> QED
    BY <1>0, <1>10, <2>1, QueuesTyped DEF DropReport, TypeOK
<1>11. CASE Shutdown
  <2>1. inbox \in [Procs -> Seq(ToPlayer)]
    BY <1>0 DEF TypeOK
  <2>2. inbox' \in [Procs -> Seq(ToPlayer)]
    <3>1. Exit \in ToPlayer
      BY MessageTypes
    <3>2. CASE UNCHANGED inbox
      BY <2>1, <3>2
    <3>3. ASSUME NEW q \in Procs, inbox' = [inbox EXCEPT ![q] = Append(@, Exit)]
          PROVE  inbox' \in [Procs -> Seq(ToPlayer)]
      BY <2>1, <3>1, <3>3, SendToTypes
    <3> QED
      BY <1>11, <3>2, <3>3 DEF Shutdown, SendTo, Owners
  <2> QED
    BY <1>0, <1>11, <2>2, NextPlayerTypes DEF Shutdown, TypeOK
<1>12. CASE MasterExit
  <2>1. <<>> \in Seq(ToMaster)
    OBVIOUS
  <2>2. /\ index' \in [Procs -> Indexes \cup {NoIndex, Garbage}]
        /\ pstate' \in [Procs -> {"connecting", "waiting", "assigned",
                                 "neighbors", "ring", "exited"}]
    BY <1>12, OrphansAtExit, Orphans DEF MasterExit
  <2> QED
    BY <1>0, <1>12, <2>1, <2>2 DEF MasterExit, TypeOK
<1>13. ASSUME NEW p \in Procs, SayHello(p) PROVE TypeOK'
  BY <1>0, <1>13, QueuesTyped, MessageTypes DEF SayHello, TypeOK
<1>14. ASSUME NEW p \in Procs, RetryHello(p) PROVE TypeOK'
  <2>1. CASE /\ ptries[p] < MaxTry
             /\ ptries' = [ptries EXCEPT ![p] = @ + 1]
             /\ UNCHANGED pstate
    <3>1. ptries' \in [Procs -> 0 .. MaxTry]
      BY <1>0, <2>1 DEF TypeOK
    <3> QED
      BY <1>0, <1>14, <2>1, <3>1 DEF RetryHello, TypeOK
  <2>2. CASE pstate' = [pstate EXCEPT ![p] = "exited"] /\ UNCHANGED ptries
    <3>1. pstate' \in [Procs -> {"connecting", "waiting", "assigned", "neighbors",
                                "ring", "exited"}]
      BY <1>0, <2>2 DEF TypeOK
    <3> QED
      BY <1>0, <1>14, <2>2, <3>1 DEF RetryHello, TypeOK
  <2> QED
    BY <1>14, <2>1, <2>2 DEF RetryHello
<1>15. ASSUME NEW p \in Procs, OpenListener(p) PROVE TypeOK'
  BY <1>0, <1>15, AddrlenAssumption DEF OpenListener, TypeOK
<1>16. ASSUME NEW p \in Procs, OpenListenerFails(p) \/ OpenListenerRefused(p)
       PROVE  TypeOK'
  BY <1>0, <1>16, FaultsAssumption DEF OpenListenerFails, OpenListenerRefused, TypeOK
<1>17. ASSUME NEW p \in Procs, GetNeighbors(p) PROVE TypeOK'
  <2>1. inbox' \in [Procs -> Seq(ToPlayer)] /\ Head(inbox[p]) \in ToPlayer
    BY <1>0, <1>17, QueuesTyped DEF GetNeighbors
  <2>2. Head(inbox[p]).type = "NEIGHBORS" =>
           Head(inbox[p]).left \in Indexes /\ Head(inbox[p]).right \in Indexes
    BY <2>1 DEF ToPlayer, PotatoOf
  <2>3. /\ left' \in [Procs -> Indexes \cup {NoIndex, Nowhere}]
        /\ right' \in [Procs -> Indexes \cup {NoIndex, Nowhere}]
        /\ faults' \in 0 .. MaxFaults
    <3> DEFINE m == Head(inbox[p])
               sent == IF m.type = "NEIGHBORS" THEN m
                       ELSE Neighbors(Nowhere, Nowhere)
    <3>1. PICK info \in Told(sent) :
             /\ left' = [left EXCEPT ![p] = info.left]
             /\ right' = [right EXCEPT ![p] = info.right]
             /\ faults' = faults + (IF info = sent THEN 0 ELSE 1)
             /\ faults' <= MaxFaults
      BY <1>17 DEF GetNeighbors
    <3>2. sent.left \in Indexes \cup {Nowhere} /\ sent.right \in Indexes \cup {Nowhere}
      BY <2>2 DEF Neighbors
    <3>3. info.left \in Indexes \cup {Nowhere} /\ info.right \in Indexes \cup {Nowhere}
      <4> HIDE DEF sent
      <4> QED
        BY <3>2 DEF Told, Neighbors
    <3>4. faults \in Nat
      BY <1>0, FaultsAssumption DEF TypeOK
    <3>5. faults' \in 0 .. MaxFaults
      <4> HIDE DEF sent
      <4> QED
        BY <3>1, <3>4, FaultsAssumption
    <3> HIDE DEF sent, m
    <3> QED
      BY <1>0, <3>1, <3>3, <3>5 DEF TypeOK
  <2>4. paddr' \in [Procs -> BOOLEAN]
    BY <1>0, <1>17, AddrlenAssumption DEF GetNeighbors, TypeOK
  <2> QED
    BY <1>0, <1>17, <2>1, <2>3, <2>4 DEF GetNeighbors, TypeOK
<1>18. ASSUME NEW p \in Procs, GetNeighborsFails(p) PROVE TypeOK'
  BY <1>0, <1>18, QueuesTyped DEF GetNeighborsFails, PlayerExits, TypeOK
<1>19. ASSUME NEW p \in Procs, PassPotato(p) PROVE TypeOK'
  <2> DEFINE h == Head(inbox[p])
  <2>1. PICK got \in Received(h.track) : LET m == Passed(h, got, index[p]) IN
           /\ Receives(h.track, got)
           /\ \/ inbox' = Accepted(p) /\ UNCHANGED backlog
              \/ /\ m \in ToPlayer
                 /\ \E q \in Procs :
                       inbox' = [Accepted(p) EXCEPT ![q] = Append(@, m)]
                 /\ UNCHANGED backlog
              \/ /\ m \in ToMaster
                 /\ inbox' = Accepted(p)
                 /\ backlog' = Append(backlog, m)
    <3> HIDE DEF h
    <3> QED
      BY <1>19, PassFacts DEF h
  <2> DEFINE m == Passed(h, got, index[p])
  <2>2. inbox[p] # <<>> /\ Accepted(p) \in [Procs -> Seq(ToPlayer)]
    BY <1>0, <1>19, QueuesTyped DEF PassPotato, Accepted
  <2>3. faults' \in 0 .. MaxFaults
    BY <1>0, <2>1, FaultsAssumption DEF Receives, TypeOK
  <2> HIDE DEF h, m
  <2>4. inbox' \in [Procs -> Seq(ToPlayer)]
    <3>1. CASE inbox' = Accepted(p)
      BY <2>2, <3>1
    <3>2. ASSUME NEW q \in Procs, m \in ToPlayer,
                 inbox' = [Accepted(p) EXCEPT ![q] = Append(@, m)]
          PROVE  inbox' \in [Procs -> Seq(ToPlayer)]
      BY <2>2, <3>2, SendToTypes
    <3> QED
      BY <2>1, <3>1, <3>2 DEF m
  <2>5. backlog' \in Seq(ToMaster)
    BY <1>0, <2>1, QueuesTyped DEF m
  <2> QED
    BY <1>0, <1>19, <2>3, <2>4, <2>5 DEF PassPotato, TypeOK
<1>20. ASSUME NEW p \in Procs, Leave(p) PROVE TypeOK'
  BY <1>0, <1>20, QueuesTyped DEF Leave, PlayerExits, TypeOK
<1>21. ASSUME NEW p \in Procs, DropMessage(p) PROVE TypeOK'
  BY <1>0, <1>21, QueuesTyped DEF DropMessage, TypeOK
<1> QED
  BY <1>1, <1>2, <1>3, <1>4, <1>5, <1>6, <1>7, <1>8, <1>9, <1>10, <1>11, <1>12,
     <1>13, <1>14, <1>15, <1>16, <1>17, <1>18, <1>19, <1>20, <1>21
  DEF Next, MasterStep, PlayerStep, Fault

-----------------------------------------------------------------------------
(***************************************************************************)
(* Players, hellos and indexes.                                            *)
(***************************************************************************)
\* A step that only delivers to players that listen.
LEMMA PlayersDelivered ==
    ASSUME IInv, NEW q \in Procs, Listens(q), index[q] \in Indexes, NEW msg,
           inbox' = [inbox EXCEPT ![q] = Append(@, msg)],
           UNCHANGED <<pstate, index>>
    PROVE  PlayersInv'
<1>1. inbox \in [Procs -> Seq(ToPlayer)] /\ PlayersInv
  BY DEF IInv, TypeOK
<1>2. \A r \in Procs : r # q => inbox'[r] = inbox[r]
  BY <1>1
<1> QED
  BY <1>1, <1>2 DEF PlayersInv, Listens

\* Every step keeps the players in order.
LEMMA PlayersKept ==
    ASSUME IInv, Next
    PROVE  PlayersInv'
<1> USE DEF mvars, pvars
<1>0. PlayersInv /\ TypeOK
  BY DEF IInv
<1>1. CASE UNCHANGED <<pstate, index, inbox>>
  BY <1>0, <1>1 DEF PlayersInv, Listens
<1>2. CASE AcceptPlayer
  <2> DEFINE q == Head(backlog).from
  <2>1. q \in Procs /\ inbox[q] = <<>>
    BY <1>2, InitHello, FrontHello DEF AcceptPlayer
  <2>2. /\ index' = [index EXCEPT ![q] = i]
        /\ pstate' = [pstate EXCEPT ![q] = "assigned"]
        /\ i \in Indexes /\ inbox' = inbox
    BY <1>0, <1>2 DEF AcceptPlayer, TypeOK
  <2> HIDE DEF q
  <2> QED
    BY <1>0, <2>1, <2>2 DEF PlayersInv, Listens, Unreceived, TypeOK
<1>3. ASSUME NEW ps \in SUBSET Procs, \A p \in ps : inbox[p] = <<>>,
             Orphan(ps), UNCHANGED inbox
      PROVE  PlayersInv'
  <2>1. /\ \A p \in ps : index'[p] \in Unreceived /\ pstate'[p] = "assigned"
        /\ \A p \in Procs \ ps : index'[p] = index[p] /\ pstate'[p] = pstate[p]
    BY <1>3, Orphans
  <2> QED
    BY <1>0, <1>3, <2>1 DEF PlayersInv, Listens
<1>4. CASE AcceptPlayerFails
  BY <1>1, <1>3, <1>4, InitHello, OrphanInFront DEF AcceptPlayerFails
<1>5. CASE DropReport
  BY <1>1, <1>3, <1>5, OrphanInFront DEF DropReport
<1>6. CASE Notify
  BY <1>6, Delivered, PlayersDelivered DEF Notify
<1>7. CASE SendFirst
  BY <1>7, Delivered, PlayersDelivered DEF SendFirst
<1>8. CASE Shutdown
  BY <1>1, <1>8, Delivered, PlayersDelivered DEF Shutdown
<1>9. CASE MasterExit
  BY <1>3, <1>9, OrphansAtExit DEF MasterExit
<1>10. ASSUME NEW p \in Procs, SayHello(p) PROVE PlayersInv'
  BY <1>0, <1>10 DEF SayHello, PlayersInv, Listens, TypeOK
<1>11. ASSUME NEW p \in Procs, RetryHello(p) PROVE PlayersInv'
  <2>1. /\ \/ pstate' = [pstate EXCEPT ![p] = "exited"]
           \/ pstate' = pstate
        /\ pstate[p] = "connecting" /\ UNCHANGED <<index, inbox>>
    BY <1>11 DEF RetryHello
  <2> QED
    BY <1>0, <2>1 DEF PlayersInv, Listens, TypeOK
<1>12. ASSUME NEW p \in Procs, OpenListener(p) PROVE PlayersInv'
  BY <1>0, <1>12 DEF OpenListener, PlayersInv, Listens, TypeOK
<1>13. ASSUME NEW p \in Procs, OpenListenerFails(p) \/ OpenListenerRefused(p)
       PROVE  PlayersInv'
  BY <1>0, <1>13
  DEF OpenListenerFails, OpenListenerRefused, PlayersInv, Listens, TypeOK
<1>14. ASSUME NEW p \in Procs, GetNeighbors(p) PROVE PlayersInv'
  <2>1. /\ pstate[p] = "neighbors" /\ pstate' = [pstate EXCEPT ![p] = "ring"]
        /\ inbox' = [inbox EXCEPT ![p] = Tail(@)] /\ index' = index
        /\ inbox[p] # <<>>
    BY <1>14 DEF GetNeighbors
  <2>2. index[p] \in Indexes /\ index[p] \in Unreceived
    BY <1>0, <2>1 DEF PlayersInv
  <2>3. \A r \in Procs \ {p} : /\ pstate'[r] = pstate[r] /\ inbox'[r] = inbox[r]
                               /\ index'[r] = index[r]
    BY <1>0, <2>1 DEF TypeOK
  <2>4. pstate'[p] = "ring" /\ index'[p] = index[p]
    BY <1>0, <2>1 DEF TypeOK
  <2> QED
    BY <1>0, <2>2, <2>3, <2>4 DEF PlayersInv, Listens
<1>15. ASSUME NEW p \in Procs, PlayerExits(p), UNCHANGED index PROVE PlayersInv'
  BY <1>0, <1>15 DEF PlayerExits, PlayersInv, Listens, TypeOK
<1>16. ASSUME NEW p \in Procs, GetNeighborsFails(p) PROVE PlayersInv'
  BY <1>15, <1>16 DEF GetNeighborsFails
<1>17. ASSUME NEW p \in Procs, Leave(p) PROVE PlayersInv'
  BY <1>15, <1>17 DEF Leave
<1>18. ASSUME NEW p \in Procs, DropMessage(p) PROVE PlayersInv'
  BY <1>0, <1>18 DEF DropMessage, PlayersInv, Listens, TypeOK
<1>19. ASSUME NEW p \in Procs, PassPotato(p) PROVE PlayersInv'
  <2>1. /\ pstate[p] = "ring" /\ UNCHANGED <<pstate, index>>
        /\ \/ inbox' = Accepted(p)
           \/ \E q \in Procs : \E m \in ToPlayer :
                 /\ Listens(q) /\ index[q] \in Indexes
                 /\ inbox' = [Accepted(p) EXCEPT ![q] = Append(@, m)]
    BY <1>19, PassQueues DEF PassPotato
  <2>2. \A r \in Procs : r # p => Accepted(p)[r] = inbox[r]
    BY <1>0 DEF Accepted, TypeOK
  <2>3. \A r \in Procs : ~Listens(r) => inbox'[r] = inbox[r]
    BY <1>0, <2>1, <2>2 DEF Listens, Accepted, TypeOK
  <2>4. \A r \in Procs : index[r] \notin Indexes => inbox'[r] = inbox[r]
    <3>1. index[p] \in Indexes
      BY <1>0, <2>1 DEF PlayersInv
    <3> QED
      BY <1>0, <2>1, <2>2, <3>1 DEF Accepted, TypeOK
  <2> QED
    BY <1>0, <2>1, <2>3, <2>4 DEF PlayersInv, Listens
<1>20. CASE MasterListen \/ ChooseFirst \/ Retry \/ GiveUp \/ AcceptReport
  BY <1>1, <1>20 DEF MasterListen, ChooseFirst, Retry, GiveUp, AcceptReport
<1> QED
  BY <1>2, <1>4, <1>5, <1>6, <1>7, <1>8, <1>9, <1>10, <1>11, <1>12, <1>13,
     <1>14, <1>16, <1>17, <1>18, <1>19, <1>20
  DEF Next, MasterStep, PlayerStep, Fault

\* A queue of hellos that loses its front, or from whose senders nobody moves.
LEMMA HellosFrame ==
    ASSUME HellosInv,
           \A k \in DOMAIN backlog : backlog[k].type = "HELLO" =>
              pstate'[backlog[k].from] = pstate[backlog[k].from],
           UNCHANGED backlog
    PROVE  HellosInv'
BY DEF HellosInv

LEMMA HellosTail ==
    ASSUME IInv, backlog # <<>>, backlog' = Tail(backlog),
           \A k \in DOMAIN backlog' : backlog'[k].type = "HELLO" =>
              pstate'[backlog'[k].from] = pstate[backlog'[k].from]
    PROVE  HellosInv'
<1>1. backlog \in Seq(ToMaster)
  BY DEF IInv, TypeOK
<1>2. \A k \in DOMAIN backlog' : /\ k \in Nat /\ k >= 1
                                 /\ k + 1 \in DOMAIN backlog
                                 /\ backlog'[k] = backlog[k + 1]
  BY <1>1, TailAt
<1> QED
  BY <1>2 DEF IInv, HellosInv

\* Every step leaves those who said hello waiting.
LEMMA HellosKept ==
    ASSUME IInv, Next
    PROVE  HellosInv'
<1> USE DEF mvars, pvars
<1>0. HellosInv /\ TypeOK /\ PlayersInv
  BY DEF IInv
<1>1. CASE UNCHANGED <<backlog, pstate>>
  BY <1>0, <1>1, HellosFrame
<1>2. ASSUME backlog # <<>>, Head(backlog).type = "HELLO", backlog' = Tail(backlog),
             \A p \in Procs \ {Head(backlog).from} : pstate'[p] = pstate[p]
      PROVE  HellosInv'
  <2> DEFINE q == Head(backlog).from
  <2>1. /\ q \in Procs /\ Head(backlog) = Hello(q)
        /\ \A k \in DOMAIN Tail(backlog) : Tail(backlog)[k] # Head(backlog)
    BY <1>2, FrontHello
  <2>2. \A k \in DOMAIN Tail(backlog) : Tail(backlog)[k] \in ToMaster
    BY <1>0, <1>2, TailAt DEF TypeOK
  <2>3. \A k \in DOMAIN Tail(backlog) : Tail(backlog)[k].type = "HELLO" =>
           Tail(backlog)[k].from # q /\ Tail(backlog)[k].from \in Procs
    BY <2>1, <2>2 DEF ToMaster, PotatoOf, Hello
  <2>4. \A k \in DOMAIN backlog' : backlog'[k].type = "HELLO" =>
           pstate'[backlog'[k].from] = pstate[backlog'[k].from]
    BY <1>0, <1>2, <2>3 DEF TypeOK
  <2> QED
    BY <1>2, <2>4, HellosTail
<1>3. CASE backlog # <<>> /\ backlog' = Tail(backlog) /\ UNCHANGED pstate
  BY <1>3, HellosTail
<1>4. CASE AcceptPlayer
  <2>1. \A p \in Procs \ {Head(backlog).from} : pstate'[p] = pstate[p]
    BY <1>0, <1>4 DEF AcceptPlayer, TypeOK
  <2> QED
    BY <1>2, <1>4, <2>1, InitHello DEF AcceptPlayer
<1>5. CASE AcceptPlayerFails
  BY <1>1, <1>2, <1>5, InitHello, OrphanInFront, Orphans DEF AcceptPlayerFails
<1>6. CASE DropReport
  BY <1>2, <1>3, <1>6, OrphanInFront, Orphans DEF DropReport
<1>7. CASE AcceptReport
  BY <1>3, <1>7 DEF AcceptReport
<1>8. CASE MasterExit
  BY <1>8 DEF MasterExit, HellosInv
<1>9. ASSUME NEW p \in Procs, pstate[p] # "waiting", UNCHANGED backlog,
             NEW s, pstate' = [pstate EXCEPT ![p] = s]
      PROVE  HellosInv'
  BY <1>0, <1>9, HellosFrame DEF HellosInv, TypeOK
<1>10. ASSUME NEW p \in Procs, SayHello(p) PROVE HellosInv'
  <2>1. /\ backlog' = Append(backlog, Hello(p)) /\ pstate[p] = "connecting"
        /\ pstate' = [pstate EXCEPT ![p] = "waiting"]
    BY <1>10 DEF SayHello
  <2>2. backlog \in Seq(ToMaster) /\ Hello(p) \in ToMaster
    BY <1>0, MessageTypes DEF TypeOK
  <2>3. /\ Len(backlog) + 1 \notin DOMAIN backlog
        /\ DOMAIN backlog' = DOMAIN backlog \cup {Len(backlog) + 1}
        /\ \A k \in DOMAIN backlog : backlog'[k] = backlog[k]
        /\ backlog'[Len(backlog) + 1] = Hello(p)
    BY <2>1, <2>2, AppendAt
  <2>4. Hello(p).type = "HELLO" /\ Hello(p).from = p
    BY DEF Hello
  <2>5. \A k \in DOMAIN backlog : backlog[k].type = "HELLO" =>
           backlog[k].from # p /\ backlog[k] # Hello(p)
    BY <1>0, <2>1, <2>4 DEF HellosInv
  <2>6. /\ pstate'[p] = "waiting"
        /\ \A r \in Procs : pstate[r] = "waiting" => pstate'[r] = "waiting"
    BY <1>0, <2>1 DEF TypeOK
  <2>7. \A k \in DOMAIN backlog : backlog[k].type = "HELLO" => backlog[k].from \in Procs
    BY <2>2 DEF ToMaster, PotatoOf
  <2> SUFFICES ASSUME NEW j \in DOMAIN backlog', backlog'[j].type = "HELLO"
               PROVE  /\ pstate'[backlog'[j].from] = "waiting"
                      /\ \A k \in DOMAIN backlog' : backlog'[k] = backlog'[j] => k = j
    BY DEF HellosInv
  <2>8. CASE j \in DOMAIN backlog
    <3>1. pstate[backlog[j].from] = "waiting"
      BY <1>0, <2>3, <2>8 DEF HellosInv
    <3>2. \A k \in DOMAIN backlog : backlog[k] = backlog[j] => k = j
      BY <1>0, <2>3, <2>8 DEF HellosInv
    <3> QED
      BY <2>3, <2>5, <2>6, <2>7, <2>8, <3>1, <3>2
  <2>9. CASE j = Len(backlog) + 1
    BY <2>3, <2>4, <2>5, <2>6, <2>9
  <2> QED
    BY <2>3, <2>8, <2>9
<1>11. ASSUME NEW p \in Procs, RetryHello(p) PROVE HellosInv'
  BY <1>1, <1>9, <1>11 DEF RetryHello
<1>12. ASSUME NEW p \in Procs,
              OpenListener(p) \/ OpenListenerFails(p) \/ OpenListenerRefused(p)
       PROVE  HellosInv'
  BY <1>9, <1>12 DEF OpenListener, OpenListenerFails, OpenListenerRefused
<1>13. ASSUME NEW p \in Procs, GetNeighbors(p) PROVE HellosInv'
  BY <1>9, <1>13 DEF GetNeighbors
<1>14. ASSUME NEW p \in Procs, GetNeighborsFails(p) \/ Leave(p) PROVE HellosInv'
  BY <1>9, <1>14 DEF GetNeighborsFails, Leave, PlayerExits
<1>15. ASSUME NEW p \in Procs, DropMessage(p) PROVE HellosInv'
  BY <1>1, <1>15 DEF DropMessage
<1>16. ASSUME NEW p \in Procs, PassPotato(p) PROVE HellosInv'
  <2>1. pstate' = pstate /\ pstate[p] = "ring"
    BY <1>16 DEF PassPotato
  <2>2. CASE UNCHANGED backlog
    BY <1>1, <2>1, <2>2
  <2>3. ASSUME NEW m \in ToMaster, m.type = "REPORT_P",
               backlog' = Append(backlog, m)
        PROVE  HellosInv'
    <3>1. backlog \in Seq(ToMaster)
      BY <1>0 DEF TypeOK
    <3>2. /\ Len(backlog) + 1 \notin DOMAIN backlog
          /\ DOMAIN backlog' = DOMAIN backlog \cup {Len(backlog) + 1}
          /\ \A k \in DOMAIN backlog : backlog'[k] = backlog[k]
          /\ backlog'[Len(backlog) + 1] = m
      BY <2>3, <3>1, AppendAt
    <3>3. \A k \in DOMAIN backlog : backlog[k].type = "HELLO" => backlog[k] # m
      BY <2>3
    <3> QED
      BY <1>0, <2>1, <2>3, <3>2, <3>3 DEF HellosInv
  <2> QED
    BY <1>16, <2>2, <2>3, PassQueues
<1>17. CASE MasterListen \/ ChooseFirst \/ Retry \/ GiveUp \/ Notify \/ SendFirst
              \/ Shutdown
  BY <1>1, <1>17
  DEF MasterListen, ChooseFirst, Retry, GiveUp, Notify, SendFirst, Shutdown
<1> QED
  BY <1>4, <1>5, <1>6, <1>7, <1>8, <1>10, <1>11, <1>12, <1>13, <1>14, <1>15,
     <1>16, <1>17
  DEF Next, MasterStep, PlayerStep, Fault

\* What no step takes back: an index once it is there, the hops asked for, and
\* the failures so far.
LEMMA WhatStays ==
    ASSUME IInv, Next
    PROVE  /\ \A p \in Procs : index[p] # NoIndex => index'[p] = index[p]
           /\ \A p \in Procs : Listens(p) => index'[p] = index[p]
           /\ hops' = hops
           /\ faults \in Nat /\ faults' \in Nat /\ faults' >= faults
<1> USE DEF mvars, pvars
<1>0. /\ index \in [Procs -> Indexes \cup {NoIndex, Garbage}]
      /\ faults \in Nat
  BY FaultsAssumption DEF IInv, TypeOK
<1>1. faults' \in Nat
  BY TypesKept, FaultsAssumption DEF TypeOK
<1>2. /\ hops' = hops
      /\ faults' >= faults
  <2>1. \A track, got : Receives(track, got) => faults' >= faults
    BY <1>0 DEF Receives
  <2>2. CASE MasterStep
    BY <1>0, <2>1, <2>2
    DEF MasterStep, MasterListen, AcceptPlayer, Notify, ChooseFirst, SendFirst,
        Retry, GiveUp, AcceptReport, DropReport, Shutdown, MasterExit
  <2>3. ASSUME NEW p \in Procs, PlayerStep(p) PROVE hops' = hops /\ faults' >= faults
    <3>1. CASE SayHello(p) \/ RetryHello(p) \/ OpenListener(p)
                  \/ OpenListenerRefused(p) \/ GetNeighbors(p)
      BY <1>0, <3>1
      DEF SayHello, RetryHello, OpenListener, OpenListenerRefused, GetNeighbors
    <3>2. CASE GetNeighborsFails(p) \/ PassPotato(p) \/ Leave(p) \/ DropMessage(p)
      BY <1>0, <2>1, <3>2 DEF GetNeighborsFails, PassPotato, Leave, DropMessage
    <3> QED
      BY <2>3, <3>1, <3>2 DEF PlayerStep
  <2>4. CASE Fault
    BY <1>0, <2>4 DEF Fault, AcceptPlayerFails, OpenListenerFails
  <2> QED
    BY <2>2, <2>3, <2>4 DEF Next
<1>3. ASSUME NEW p \in Procs, index[p] # NoIndex PROVE index'[p] = index[p]
  <2>1. CASE UNCHANGED index
    BY <2>1
  <2>2. CASE AcceptPlayer
    <3>1. Head(backlog).from # p
      BY <1>3, <2>2, InitHello, FrontHello DEF AcceptPlayer
    <3> QED
      BY <1>0, <2>2, <3>1 DEF AcceptPlayer
  <2>3. CASE AcceptPlayerFails \/ DropReport
    BY <1>3, <2>1, <2>3, InitHello, OrphanInFront, Orphans
    DEF AcceptPlayerFails, DropReport
  <2>4. CASE MasterExit
    BY <1>3, <2>4, OrphansAtExit, Orphans DEF MasterExit
  <2>5. CASE MasterListen \/ Notify \/ ChooseFirst \/ SendFirst \/ Retry \/ GiveUp
               \/ AcceptReport \/ Shutdown
    BY <2>1, <2>5 DEF MasterListen, Notify, ChooseFirst, SendFirst, Retry, GiveUp,
                      AcceptReport, Shutdown
  <2>6. ASSUME NEW r \in Procs, PlayerStep(r) \/ OpenListenerFails(r)
        PROVE  index'[p] = index[p]
    BY <2>1, <2>6
    DEF PlayerStep, SayHello, RetryHello, OpenListener, OpenListenerRefused,
        GetNeighbors, GetNeighborsFails, PassPotato, Leave, DropMessage,
        OpenListenerFails
  <2> QED
    BY <2>2, <2>3, <2>4, <2>5, <2>6 DEF Next, MasterStep, Fault
<1>4. \A p \in Procs : Listens(p) => index[p] # NoIndex
  BY DEF IInv, PlayersInv, Listens, Unreceived, Indexes, NoIndex, Garbage
<1> QED
  BY <1>0, <1>1, <1>2, <1>3, <1>4

\* Only init_master notes a host, that of a player that was waiting.
LEMMA WhoIsNoted ==
    ASSUME IInv, Next
    PROVE  \/ /\ UNCHANGED member
              /\ mphase' \in {"start", "init"} => mphase \in {"start", "init"}
                                                 /\ i' \in Int /\ i' >= i
           \/ \E q \in Procs : /\ mphase = "init" /\ index[q] = NoIndex
                               /\ index' = [index EXCEPT ![q] = i]
                               /\ member' = [member EXCEPT ![i] = {q}]
                               /\ \/ mphase' = "init" /\ i' = i + 1
                                  \/ mphase' = "notify"
                               /\ UNCHANGED <<faults, maddr>>
<1> USE DEF mvars, pvars
<1>0. i \in Int
  BY DEF IInv, TypeOK, Indexes
<1>1. CASE AcceptPlayer
  BY <1>1, InitHello, FrontHello DEF AcceptPlayer, NextPlayer
<1>2. CASE MasterListen \/ AcceptPlayerFails
  BY <1>0, <1>2 DEF MasterListen, AcceptPlayerFails, NextPlayer
<1>3. CASE Notify \/ Shutdown
  BY <1>3 DEF Notify, Shutdown, NextPlayer
<1>4. CASE ChooseFirst \/ SendFirst \/ Retry \/ GiveUp \/ AcceptReport
              \/ DropReport \/ MasterExit
  BY <1>0, <1>4 DEF ChooseFirst, SendFirst, AfterSend, Retry, GiveUp,
                    AcceptReport, DropReport, MasterExit
<1>5. ASSUME NEW p \in Procs, PlayerStep(p) \/ OpenListenerFails(p)
      PROVE  UNCHANGED <<member, mphase, i>>
  BY <1>5
  DEF PlayerStep, SayHello, RetryHello, OpenListener, OpenListenerRefused,
      GetNeighbors, GetNeighborsFails, PassPotato, Leave, DropMessage,
      OpenListenerFails
<1> QED
  BY <1>0, <1>1, <1>2, <1>3, <1>4, <1>5 DEF Next, MasterStep, Fault

\* A process that has taken an index it was not given never gets it.
LEMMA GuessedStays ==
    ASSUME IInv, Next
    PROVE  Guessed \subseteq Guessed'
<1>1. /\ \A p \in Procs : index[p] # NoIndex => index'[p] = index[p]
      /\ member \in [Indexes -> SUBSET Procs] /\ i \in Indexes
  BY WhatStays DEF IInv, TypeOK
<1>2. NoIndex \notin Unreceived
  BY DEF Unreceived, Indexes, NoIndex, Garbage
<1>3. ASSUME NEW p \in Guessed, index'[p] \in Indexes, member'[index'[p]] = {p}
      PROVE  FALSE
  <2>1. p \in Procs /\ index[p] \in Unreceived /\ index'[p] = index[p]
    BY <1>1, <1>2 DEF Guessed
  <2>2. member[index[p]] # {p}
    BY <1>3, <2>1 DEF Guessed
  <2>3. PICK q \in Procs : index[q] = NoIndex /\ member' = [member EXCEPT ![i] = {q}]
    BY <1>3, <2>1, <2>2, WhoIsNoted
  <2>4. p = q
    BY <1>1, <1>3, <2>1, <2>2, <2>3
  <2> QED
    BY <1>2, <2>1, <2>3, <2>4
<1>4. \A p \in Guessed : p \in Procs /\ index'[p] \in Unreceived
  BY <1>1, <1>2 DEF Guessed
<1> QED
  BY <1>3, <1>4 DEF Guessed

\* Nobody guesses an index unless a call fails, an unusable addrlen drops a
\* hello, or the master leaves.
LEMMA WhoGuesses ==
    ASSUME IInv, Next
    PROVE  \/ Guessed' \subseteq Guessed
           \/ faults' # 0 \/ ~maddr' \/ mphase' = "exited"
<1> USE DEF mvars, pvars
<1>0. /\ index \in [Procs -> Indexes \cup {NoIndex, Garbage}]
      /\ member \in [Indexes -> SUBSET Procs] /\ i \in Indexes /\ i \in Int
      /\ faults \in Nat /\ faults' \in Nat /\ faults' >= faults
      /\ maddr \in BOOLEAN
  BY WhatStays DEF IInv, TypeOK, Indexes
<1>1. CASE UNCHANGED <<index, member>>
  BY <1>1 DEF Guessed
<1>2. CASE AcceptPlayer
  <2> DEFINE q == Head(backlog).from
  <2>1. q \in Procs /\ index[q] = NoIndex
    BY <1>2, InitHello, FrontHello DEF AcceptPlayer
  <2>2. /\ index' = [index EXCEPT ![q] = i] /\ member' = [member EXCEPT ![i] = {q}]
        /\ mphase = "init"
    BY <1>2 DEF AcceptPlayer
  <2> HIDE DEF q
  <2>3. member[i] = {}
    BY <1>0, <2>2 DEF IInv, IndexesInv
  <2>4. ASSUME NEW p \in Guessed' PROVE p \in Guessed
    <3>1. p # q
      BY <1>0, <2>1, <2>2, <2>4 DEF Guessed
    <3>2. p \in Procs /\ index'[p] = index[p]
      BY <1>0, <2>2, <2>4, <3>1 DEF Guessed
    <3>3. index[p] \in Indexes => member[index[p]] # {p}
      <4>1. CASE index[p] = i
        BY <2>3, <4>1
      <4>2. CASE index[p] # i
        BY <1>0, <2>2, <2>4, <3>2, <4>2 DEF Guessed
      <4> QED
        BY <4>1, <4>2
    <3> QED
      BY <2>4, <3>2, <3>3 DEF Guessed
  <2> QED
    BY <2>4
<1>3. CASE AcceptPlayerFails
  BY <1>0, <1>3 DEF AcceptPlayerFails
<1>4. CASE DropReport
  BY <1>4 DEF DropReport
<1>5. CASE MasterExit
  BY <1>5 DEF MasterExit
<1>6. CASE MasterListen \/ Notify \/ ChooseFirst \/ SendFirst \/ Retry \/ GiveUp
             \/ AcceptReport \/ Shutdown
  BY <1>1, <1>6 DEF MasterListen, Notify, ChooseFirst, SendFirst, Retry, GiveUp,
                    AcceptReport, Shutdown
<1>7. ASSUME NEW r \in Procs, PlayerStep(r) \/ OpenListenerFails(r)
      PROVE  UNCHANGED <<index, member>>
  BY <1>7
  DEF PlayerStep, SayHello, RetryHello, OpenListener, OpenListenerRefused,
      GetNeighbors, GetNeighborsFails, PassPotato, Leave, DropMessage,
      OpenListenerFails
<1> QED
  BY <1>1, <1>2, <1>3, <1>4, <1>5, <1>6, <1>7 DEF Next, MasterStep, Fault

\* The value process_potato finds in addrlen is the one it keeps.
LEMMA AddrlenKept ==
    ASSUME IInv, Next
    PROVE  /\ mphase' \in {"start", "init", "notify", "choose"} => maddr'
           /\ maddr' /\ ~maddr => FALSE
           /\ mphase = "exited" => mphase' = "exited"
<1> USE DEF mvars, pvars
<1>0. IndexesInv /\ TypeOK
  BY DEF IInv
<1>1. CASE MasterListen \/ ChooseFirst \/ SendFirst \/ Retry \/ GiveUp
             \/ AcceptReport \/ DropReport \/ MasterExit
  BY <1>0, <1>1 DEF MasterListen, ChooseFirst, SendFirst, AfterSend, Retry, GiveUp,
             AcceptReport, DropReport, MasterExit, IndexesInv
<1>2. CASE AcceptPlayer \/ AcceptPlayerFails \/ Notify \/ Shutdown
  BY <1>0, <1>2
  DEF AcceptPlayer, AcceptPlayerFails, Notify, Shutdown, NextPlayer, IndexesInv
<1>3. ASSUME NEW r \in Procs, PlayerStep(r) \/ OpenListenerFails(r)
      PROVE  UNCHANGED <<mphase, maddr>>
  BY <1>3
  DEF PlayerStep, SayHello, RetryHello, OpenListener, OpenListenerRefused,
      GetNeighbors, GetNeighborsFails, PassPotato, Leave, DropMessage,
      OpenListenerFails
<1> QED
  BY <1>0, <1>1, <1>2, <1>3 DEF Next, MasterStep, Fault, IndexesInv

\* A process that opens its listener, and nobody else, becomes one that listens.
LEMMA WhoListens ==
    ASSUME IInv, Next
    PROVE  \/ \A p \in Procs : Listens(p)' => Listens(p)
           \/ \E q \in Procs : /\ OpenListener(q)
                               /\ \A p \in Procs \ {q} : Listens(p)' => Listens(p)
<1> USE DEF mvars, pvars
<1>0. TypeOK
  BY DEF IInv
<1>1. CASE UNCHANGED pstate
  BY <1>1 DEF Listens
<1>2. ASSUME NEW q \in Procs, NEW st \in {"waiting", "assigned", "exited"},
             pstate' = [pstate EXCEPT ![q] = st]
      PROVE  \A p \in Procs : Listens(p)' => Listens(p)
  BY <1>0, <1>2 DEF Listens, TypeOK
<1>3. ASSUME NEW ps \in SUBSET Procs, Orphan(ps)
      PROVE  \A p \in Procs : Listens(p)' => Listens(p)
  BY <1>3, Orphans DEF Listens
<1>4. CASE AcceptPlayer
  BY <1>2, <1>4, InitHello, FrontHello DEF AcceptPlayer
<1>5. CASE AcceptPlayerFails \/ DropReport \/ MasterExit
  BY <1>1, <1>3, <1>5, InitHello, OrphanInFront, OrphansAtExit
  DEF AcceptPlayerFails, DropReport, MasterExit
<1>6. CASE MasterListen \/ Notify \/ ChooseFirst \/ SendFirst \/ Retry \/ GiveUp
             \/ AcceptReport \/ Shutdown
  BY <1>1, <1>6 DEF MasterListen, Notify, ChooseFirst, SendFirst, Retry, GiveUp,
                    AcceptReport, Shutdown
<1>7. ASSUME NEW r \in Procs,
             \/ SayHello(r) \/ RetryHello(r) \/ OpenListenerRefused(r)
             \/ OpenListenerFails(r) \/ GetNeighborsFails(r) \/ Leave(r)
             \/ PassPotato(r) \/ DropMessage(r)
      PROVE  \A p \in Procs : Listens(p)' => Listens(p)
  <2>1. \/ pstate' = pstate
        \/ \E st \in {"waiting", "assigned", "exited"} :
              pstate' = [pstate EXCEPT ![r] = st]
    <3>1. CASE SayHello(r)
      BY <3>1 DEF SayHello
    <3>2. CASE RetryHello(r)
      BY <3>2 DEF RetryHello
    <3>3. CASE \/ OpenListenerRefused(r) \/ OpenListenerFails(r)
               \/ GetNeighborsFails(r) \/ Leave(r)
      BY <3>3 DEF OpenListenerRefused, OpenListenerFails, GetNeighborsFails, Leave,
                  PlayerExits
    <3>4. CASE PassPotato(r) \/ DropMessage(r)
      BY <3>4 DEF PassPotato, DropMessage
    <3> QED
      BY <1>7, <3>1, <3>2, <3>3, <3>4
  <2>2. CASE pstate' = pstate
    BY <2>2 DEF Listens
  <2>3. ASSUME NEW st \in {"waiting", "assigned", "exited"},
               pstate' = [pstate EXCEPT ![r] = st]
        PROVE  \A p \in Procs : Listens(p)' => Listens(p)
    BY <1>2, <2>3
  <2> QED
    BY <2>1, <2>2, <2>3
<1>8. ASSUME NEW r \in Procs, GetNeighbors(r)
      PROVE  \A p \in Procs : Listens(p)' => Listens(p)
  BY <1>0, <1>8 DEF GetNeighbors, Listens, TypeOK
<1>9. ASSUME NEW r \in Procs, OpenListener(r)
      PROVE  \A p \in Procs \ {r} : Listens(p)' => Listens(p)
  BY <1>0, <1>9 DEF OpenListener, Listens, TypeOK
<1> QED
  BY <1>4, <1>5, <1>6, <1>7, <1>8, <1>9 DEF Next, MasterStep, PlayerStep, Fault

\* Every step keeps the indexes as they were given.
LEMMA IndexesKept ==
    ASSUME IInv, Next
    PROVE  IndexesInv'
<1>0. /\ IndexesInv /\ i \in Indexes /\ i \in Int /\ i >= 0
      /\ member \in [Indexes -> SUBSET Procs]
      /\ index \in [Procs -> Indexes \cup {NoIndex, Garbage}]
  BY DEF IInv, TypeOK, Indexes
<1>1. /\ \A p \in Procs : index[p] # NoIndex => index'[p] = index[p]
      /\ \A p \in Procs : Listens(p) => index'[p] = index[p]
      /\ faults \in Nat /\ faults' \in Nat /\ faults' >= faults
  BY WhatStays
<1>2. NoIndex \notin Indexes /\ \A k \in Indexes : k \in Int
  BY DEF Indexes, NoIndex
<1>3. \A k \in Indexes : \A p \in member[k] :
         p \in Procs /\ index[p] = k /\ member[k] = {p} /\ index'[p] = k
  BY <1>0, <1>1, <1>2 DEF IndexesInv, IndexesAreGiven
<1>4. \A k \in Indexes : \A p \in member'[k] : index'[p] = k /\ member'[k] = {p}
  <2>1. CASE UNCHANGED member
    BY <1>3, <2>1
  <2>2. ASSUME NEW q \in Procs, index' = [index EXCEPT ![q] = i],
               member' = [member EXCEPT ![i] = {q}]
        PROVE  \A k \in Indexes : \A p \in member'[k] :
                  index'[p] = k /\ member'[k] = {p}
    BY <1>0, <1>3, <2>2
  <2> QED
    BY <2>1, <2>2, WhoIsNoted
<1>5. faults' = 0 /\ maddr' /\ mphase' # "exited" => Guessed' = {}
  BY <1>0, <1>1, WhoGuesses, AddrlenKept DEF IndexesInv, IndexesAreGiven
<1>6. mphase' \in {"start", "init"} => \A k \in Indexes : member'[k] # {} => k < i'
  <2> SUFFICES ASSUME mphase' \in {"start", "init"}, NEW k \in Indexes,
                      member'[k] # {}
               PROVE  k < i'
    OBVIOUS
  <2>1. CASE UNCHANGED member /\ mphase \in {"start", "init"} /\ i' \in Int /\ i' >= i
    BY <1>0, <1>2, <2>1 DEF IndexesInv
  <2>2. ASSUME NEW q \in Procs, mphase = "init", i' = i + 1,
               member' = [member EXCEPT ![i] = {q}]
        PROVE  k < i'
    BY <1>0, <1>2, <2>2 DEF IndexesInv
  <2> QED
    BY <2>1, <2>2, WhoIsNoted
<1>7. mphase' = "start" => i' = 0
  <2>1. mphase' = "start" => mphase = "start" /\ i' = i
    <3> USE DEF mvars, pvars
    <3>1. CASE MasterStep
      BY <3>1 DEF MasterStep, MasterListen, AcceptPlayer, Notify, ChooseFirst,
                  SendFirst, AfterSend, Retry, GiveUp, AcceptReport, DropReport,
                  Shutdown, MasterExit, NextPlayer
    <3>2. CASE AcceptPlayerFails
      BY <3>2 DEF AcceptPlayerFails, NextPlayer
    <3>3. ASSUME NEW r \in Procs, PlayerStep(r) \/ OpenListenerFails(r)
          PROVE  UNCHANGED <<mphase, i>>
      BY <3>3
      DEF PlayerStep, SayHello, RetryHello, OpenListener, OpenListenerRefused,
          GetNeighbors, GetNeighborsFails, PassPotato, Leave, DropMessage,
          OpenListenerFails
    <3> QED
      BY <3>1, <3>2, <3>3 DEF Next, Fault
  <2> QED
    BY <1>0, <2>1 DEF IndexesInv
<1>8. ASSUME NEW p \in Procs, NEW q \in Procs, Listens(p)', Listens(q)',
             Host[p] = Host[q], index'[p] = index'[q], index'[p] \in Indexes
      PROVE  p = q
  <2>1. CASE Listens(p) /\ Listens(q)
    BY <1>0, <1>1, <1>8, <2>1 DEF IndexesInv
  <2>2. ASSUME NEW r \in Procs, OpenListener(r), NEW o \in Procs \ {r}, Listens(o),
               Host[r] = Host[o], index'[r] = index'[o], index'[r] \in Indexes
        PROVE  FALSE
    BY <2>2 DEF OpenListener, PortTaken, mvars
  <2> QED
    BY <1>8, <2>1, <2>2, WhoListens
<1> QED
  BY <1>4, <1>5, <1>6, <1>7, <1>8, AddrlenKept DEF IndexesInv, IndexesAreGiven

-----------------------------------------------------------------------------
(***************************************************************************)
(* Where the potato is.                                                    *)
(***************************************************************************)
NoExit(q) == \A k \in DOMAIN q : q[k].type # "EXIT"

\* Queue r has no potato and no EXIT that queue q does not have.
NothingNew(q, r) ==
    /\ Free(q) => Free(r)
    /\ One(q) => One(r)
    /\ NoExit(q) => NoExit(r)

LEMMA NothingNewSame == \A q : NothingNew(q, q)
BY DEF NothingNew

LEMMA NothingNewEmpty == \A q : NothingNew(q, <<>>) /\ Free(<<>>)
<1>1. DOMAIN <<>> = {}
  OBVIOUS
<1> QED
  BY <1>1 DEF NothingNew, Free, One, NoExit

\* accept() leaves a queue with what it had, but for its front.
LEMMA NothingNewTail ==
    ASSUME NEW S, NEW q \in Seq(S), q # <<>>
    PROVE  /\ NothingNew(q, Tail(q))
           /\ One(q) /\ IsPotato(Head(q)) => Free(Tail(q))
<1>1. /\ 1 \in DOMAIN q /\ Head(q) = q[1]
      /\ \A k \in DOMAIN Tail(q) : /\ k \in Nat /\ k >= 1
                                   /\ k + 1 \in DOMAIN q
                                   /\ Tail(q)[k] = q[k + 1]
  BY TailAt
<1>2. Free(q) => Free(Tail(q))
  BY <1>1 DEF Free
<1>3. One(q) => One(Tail(q))
  BY <1>1 DEF One
<1>4. NoExit(q) => NoExit(Tail(q))
  BY <1>1 DEF NoExit
<1>5. One(q) /\ IsPotato(Head(q)) => Free(Tail(q))
  BY <1>1 DEF One, Free
<1> QED
  BY <1>2, <1>3, <1>4, <1>5 DEF NothingNew

\* A new connection brings what it brings.
LEMMA NothingNewAppend ==
    ASSUME NEW S, NEW q \in Seq(S), NEW x \in S
    PROVE  /\ ~IsPotato(x) /\ x.type # "EXIT" => NothingNew(q, Append(q, x))
           /\ ~IsPotato(x) /\ Free(q) => Free(Append(q, x))
           /\ Free(q) => One(Append(q, x))
           /\ x.type # "EXIT" /\ NoExit(q) => NoExit(Append(q, x))
<1>1. /\ Len(q) + 1 \notin DOMAIN q
      /\ DOMAIN Append(q, x) = DOMAIN q \cup {Len(q) + 1}
      /\ \A k \in DOMAIN q : Append(q, x)[k] = q[k]
      /\ Append(q, x)[Len(q) + 1] = x
  BY AppendAt
<1>2. ~IsPotato(x) /\ Free(q) => Free(Append(q, x))
  BY <1>1 DEF Free
<1>3. ~IsPotato(x) /\ One(q) => One(Append(q, x))
  BY <1>1 DEF One
<1>4. x.type # "EXIT" /\ NoExit(q) => NoExit(Append(q, x))
  BY <1>1 DEF NoExit
<1>5. Free(q) => One(Append(q, x))
  BY <1>1 DEF Free, One
<1> QED
  BY <1>2, <1>3, <1>4, <1>5 DEF NothingNew

LEMMA FreeIsOne == \A q : Free(q) => One(q)
BY DEF Free, One

\* Where nothing new is queued, and the master does not stop waiting for the
\* potato, the phases stay right.
LEMMA PhasesFrame ==
    ASSUME PhasesInv,
           NothingNew(backlog, backlog'),
           \A p \in Procs : NothingNew(inbox[p], inbox'[p]),
           UNCHANGED <<hops, report>>,
           mphase \in {"report", "stuck"} => mphase' \in {"report", "stuck"},
           mphase \in {"shutdown", "closing", "exited"} =>
              mphase' \in {"shutdown", "closing", "exited"},
           mphase' \in {"choose", "send", "report", "stuck"} => hops > 0
    PROVE  PhasesInv'
<1>1. NoPotato => NoPotato'
  BY DEF NoPotato, NothingNew
<1>2. OnePotatoAtMost'
  <2>1. CASE One(backlog) /\ \A p \in Procs : Free(inbox[p])
    BY <2>1 DEF OnePotatoAtMost, NothingNew
  <2>2. ASSUME Free(backlog), NEW p \in Procs, One(inbox[p]),
               \A r \in Procs \ {p} : Free(inbox[r])
        PROVE  OnePotatoAtMost'
    BY <2>2 DEF OnePotatoAtMost, NothingNew
  <2> QED
    BY <2>1, <2>2 DEF PhasesInv, OnePotatoAtMost
<1>3. \A p \in Procs : NoExit(inbox[p]) => NoExit(inbox'[p])
  BY DEF NothingNew
<1> QED
  BY <1>1, <1>2, <1>3 DEF PhasesInv, NoExit

\* Every step keeps the potato where the phases say.
LEMMA PhasesKept ==
    ASSUME IInv, Next
    PROVE  PhasesInv'
<1> USE DEF mvars, pvars
<1>0. /\ PhasesInv /\ backlog \in Seq(ToMaster) /\ hops \in Nat
      /\ inbox \in [Procs -> Seq(ToPlayer)]
  BY DEF IInv, TypeOK
<1>1. backlog # <<>> => NothingNew(backlog, Tail(backlog))
  BY <1>0, NothingNewTail
<1>2. \A p \in Procs : NothingNew(inbox[p], inbox[p])
  BY NothingNewSame
<1>3. ASSUME NEW p \in Procs, inbox[p] # <<>>, inbox' = Accepted(p)
      PROVE  \A r \in Procs : NothingNew(inbox[r], inbox'[r])
  <2>1. inbox'[p] = Tail(inbox[p]) /\ \A r \in Procs \ {p} : inbox'[r] = inbox[r]
    BY <1>0, <1>3 DEF Accepted
  <2>2. NothingNew(inbox[p], Tail(inbox[p]))
    <3>1. inbox[p] \in Seq(ToPlayer)
      BY <1>0
    <3> QED
      BY <1>3, <3>1, NothingNewTail
  <2> QED
    BY <2>1, <2>2, NothingNewSame
<1>4. ASSUME NEW p \in Procs, PlayerExits(p)
      PROVE  \A r \in Procs : NothingNew(inbox[r], inbox'[r])
  BY <1>0, <1>4, NothingNewSame, NothingNewEmpty DEF PlayerExits
<1>5. ASSUME NEW q \in Procs, NEW m \in ToPlayer, ~IsPotato(m), m.type # "EXIT",
             inbox' = [inbox EXCEPT ![q] = Append(@, m)]
      PROVE  \A r \in Procs : NothingNew(inbox[r], inbox'[r])
  <2>1. /\ inbox'[q] = Append(inbox[q], m) /\ inbox[q] \in Seq(ToPlayer)
        /\ \A r \in Procs \ {q} : inbox'[r] = inbox[r]
    BY <1>0, <1>5
  <2>2. NothingNew(inbox[q], Append(inbox[q], m))
    BY <1>5, <2>1, NothingNewAppend
  <2> QED
    BY <2>1, <2>2, NothingNewSame
<1>6. CASE MasterListen \/ Retry \/ GiveUp \/ ChooseFirst
  <2>1. UNCHANGED <<backlog, inbox, hops, report>>
    BY <1>6 DEF MasterListen, Retry, GiveUp, ChooseFirst
  <2>2. /\ mphase \notin {"report", "stuck", "shutdown", "closing", "exited"}
        /\ mphase' \in {"choose", "send", "report", "stuck"} => hops > 0
    BY <1>0, <1>6 DEF MasterListen, Retry, GiveUp, ChooseFirst, PhasesInv
  <2> QED
    BY <1>0, <2>1, <2>2, NothingNewSame, PhasesFrame
<1>7. CASE AcceptPlayer \/ AcceptPlayerFails
  <2>1. NothingNew(backlog, backlog') /\ UNCHANGED <<inbox, hops, report>>
    BY <1>1, <1>7, NothingNewSame DEF AcceptPlayer, AcceptPlayerFails
  <2>2. mphase = "init" /\ mphase' \in {"init", "notify"}
    BY <1>7 DEF AcceptPlayer, AcceptPlayerFails, NextPlayer
  <2> QED
    BY <1>0, <1>2, <2>1, <2>2, PhasesFrame
<1>8. CASE Notify
  <2>1. LeftOf(i) \in Indexes /\ RightOf(i) \in Indexes
    BY Neighbours DEF IInv, TypeOK
  <2> DEFINE m == Neighbors(LeftOf(i), RightOf(i))
  <2>2. m \in ToPlayer /\ m.type = "NEIGHBORS"
    BY <2>1, MessageTypes DEF Neighbors
  <2>3. PICK q \in Procs : inbox' = [inbox EXCEPT ![q] = Append(@, m)]
    BY <1>8, Delivered DEF Notify
  <2>4. \A r \in Procs : NothingNew(inbox[r], inbox'[r])
    <3> HIDE DEF m
    <3> QED
      BY <1>5, <2>2, <2>3 DEF IsPotato
  <2>5. /\ mphase = "notify" /\ UNCHANGED <<backlog, hops, report>>
        /\ mphase' = "notify" \/ mphase' = IF hops = 0 THEN "shutdown" ELSE "choose"
    BY <1>8 DEF Notify, NextPlayer
  <2> QED
    BY <1>0, <2>4, <2>5, NothingNewSame, PhasesFrame
<1>9. CASE SendFirst
  <2> DEFINE m == Potato("SEND_P", hops, 0, -1, <<>>, <<>>)
  <2>1. /\ mphase = "send" /\ mphase' = "report"
        /\ UNCHANGED <<backlog, hops, report>>
    BY <1>9 DEF SendFirst, AfterSend
  <2>2. PICK q \in Procs : inbox' = [inbox EXCEPT ![q] = Append(@, m)]
    BY <1>9, Delivered DEF SendFirst
  <2>3. m.type = "SEND_P" /\ m \in ToPlayer
    <3>1. 0 \in Nat /\ -1 \in Int /\ <<>> \in Seq(Int) /\ <<>> \in Seq(Indexes)
      OBVIOUS
    <3> QED
      BY <1>0, <3>1, MessageTypes DEF Potato
  <2> HIDE DEF m
  <2>4. /\ inbox'[q] = Append(inbox[q], m) /\ inbox[q] \in Seq(ToPlayer)
        /\ \A r \in Procs \ {q} : inbox'[r] = inbox[r]
    BY <1>0, <2>2
  <2>5. /\ Free(inbox[q]) => One(inbox'[q])
        /\ NoExit(inbox[q]) => NoExit(inbox'[q])
    BY <2>3, <2>4, NothingNewAppend
  <2>6. NoPotato
    BY <1>0, <2>1 DEF PhasesInv
  <2>7. OnePotatoAtMost'
    BY <2>1, <2>4, <2>5, <2>6 DEF NoPotato, OnePotatoAtMost
  <2>8. /\ report = NoReport /\ hops > 0
        /\ \A r \in Procs : NoExit(inbox[r])
    BY <1>0, <2>1 DEF PhasesInv, NoExit
  <2>9. \A r \in Procs : NoExit(inbox'[r])
    BY <2>4, <2>5, <2>8
  <2> QED
    BY <2>1, <2>7, <2>8, <2>9 DEF PhasesInv, NoExit
<1>10. CASE AcceptReport
  <2>1. backlog # <<>> /\ backlog' = Tail(backlog) /\ UNCHANGED <<hops, inbox>>
    BY <1>10 DEF AcceptReport
  <2>2. CASE Head(backlog).type = "REPORT_P"
    <3>1. mphase' = "shutdown"
      BY <1>10, <2>2 DEF AcceptReport
    <3>2. 1 \in DOMAIN backlog /\ Head(backlog) = backlog[1] /\ IsPotato(Head(backlog))
      BY <1>0, <2>1, <2>2, TailAt DEF IsPotato
    <3>3. One(backlog) /\ \A p \in Procs : Free(inbox[p])
      BY <1>0, <3>2 DEF PhasesInv, OnePotatoAtMost, Free
    <3>4. NoPotato'
      BY <1>0, <2>1, <3>2, <3>3, NothingNewTail DEF NoPotato
    <3> QED
      BY <3>1, <3>4, FreeIsOne DEF PhasesInv, NoPotato, OnePotatoAtMost
  <2>3. CASE Head(backlog).type = "HELLO"
    <3>1. mphase = "report" /\ mphase' = "stuck" /\ UNCHANGED report
      BY <1>10, <2>3 DEF AcceptReport
    <3>2. hops > 0
      BY <1>0, <3>1 DEF PhasesInv
    <3> QED
      BY <1>0, <1>1, <1>2, <2>1, <3>1, <3>2, PhasesFrame
  <2> QED
    BY <1>10, <2>2, <2>3 DEF AcceptReport
<1>11. CASE DropReport
  <2>1. /\ mphase = "report" /\ UNCHANGED <<mphase, hops, report, inbox>>
        /\ NothingNew(backlog, backlog')
    BY <1>1, <1>11 DEF DropReport
  <2>2. hops > 0
    BY <1>0, <2>1 DEF PhasesInv
  <2> QED
    BY <1>0, <1>2, <2>1, <2>2, PhasesFrame
<1>12. CASE Shutdown
  <2>1. /\ mphase = "shutdown" /\ mphase' \in {"shutdown", "closing"}
        /\ UNCHANGED backlog
    BY <1>12 DEF Shutdown, NextPlayer
  <2>2. NoPotato
    BY <1>0, <2>1 DEF PhasesInv
  <2>3. \A r \in Procs : Free(inbox'[r])
    <3>1. CASE UNCHANGED inbox
      BY <2>2, <3>1 DEF NoPotato
    <3>2. ASSUME NEW q \in Procs, inbox' = [inbox EXCEPT ![q] = Append(@, Exit)]
          PROVE  \A r \in Procs : Free(inbox'[r])
      <4>1. /\ inbox'[q] = Append(inbox[q], Exit) /\ inbox[q] \in Seq(ToPlayer)
            /\ \A r \in Procs \ {q} : inbox'[r] = inbox[r]
        BY <1>0, <3>2
      <4>2. Exit \in ToPlayer /\ ~IsPotato(Exit)
        BY MessageTypes DEF Exit, IsPotato
      <4>3. Free(inbox'[q])
        BY <2>2, <4>1, <4>2, NothingNewAppend DEF NoPotato
      <4> QED
        BY <2>2, <4>1, <4>3 DEF NoPotato
    <3> QED
      BY <1>12, <3>1, <3>2, Delivered DEF Shutdown
  <2>4. NoPotato'
    BY <2>1, <2>2, <2>3 DEF NoPotato
  <2> QED
    BY <2>1, <2>4, FreeIsOne DEF PhasesInv, NoPotato, OnePotatoAtMost
<1>13. CASE MasterExit
  <2>1. /\ mphase = "closing" /\ mphase' = "exited" /\ backlog' = <<>>
        /\ UNCHANGED <<hops, report, inbox>>
    BY <1>13 DEF MasterExit
  <2> QED
    BY <1>0, <1>2, <2>1, NothingNewEmpty, PhasesFrame
<1>14. ASSUME UNCHANGED <<mphase, hops, report>>, NothingNew(backlog, backlog'),
              \A p \in Procs : NothingNew(inbox[p], inbox'[p])
       PROVE  PhasesInv'
  <2>1. mphase \in {"choose", "send", "report", "stuck"} => hops > 0
    BY <1>0 DEF PhasesInv
  <2> QED
    BY <1>0, <1>14, <2>1, PhasesFrame
<1>15. ASSUME NEW p \in Procs, SayHello(p) PROVE PhasesInv'
  <2>1. Hello(p) \in ToMaster /\ ~IsPotato(Hello(p)) /\ Hello(p).type # "EXIT"
    BY MessageTypes DEF Hello, IsPotato
  <2>2. NothingNew(backlog, Append(backlog, Hello(p)))
    BY <1>0, <2>1, NothingNewAppend
  <2> QED
    BY <1>2, <1>14, <1>15, <2>2 DEF SayHello
<1>16. ASSUME NEW p \in Procs,
              \/ RetryHello(p) \/ OpenListener(p)
              \/ OpenListenerFails(p) \/ OpenListenerRefused(p)
       PROVE  PhasesInv'
  <2>1. UNCHANGED <<mphase, hops, report, backlog, inbox>>
    BY <1>16 DEF RetryHello, OpenListener, OpenListenerFails, OpenListenerRefused
  <2> QED
    BY <1>14, <2>1, NothingNewSame
<1>17. ASSUME NEW p \in Procs, GetNeighbors(p) \/ DropMessage(p) PROVE PhasesInv'
  <2>1. /\ UNCHANGED <<mphase, hops, report, backlog>>
        /\ inbox[p] # <<>> /\ inbox' = Accepted(p)
    BY <1>17 DEF GetNeighbors, DropMessage, Accepted
  <2> QED
    BY <1>3, <1>14, <2>1, NothingNewSame
<1>18. ASSUME NEW p \in Procs, GetNeighborsFails(p) \/ Leave(p) PROVE PhasesInv'
  <2>1. UNCHANGED <<mphase, hops, report, backlog>> /\ PlayerExits(p)
    BY <1>18 DEF GetNeighborsFails, Leave
  <2> QED
    BY <1>4, <1>14, <2>1, NothingNewSame
<1>19. ASSUME NEW p \in Procs, PassPotato(p) PROVE PhasesInv'
  <2> DEFINE box == Accepted(p)
  <2>1. UNCHANGED <<mphase, hops, report>> /\ inbox[p] # <<>> /\ inbox[p] \in Seq(ToPlayer)
    BY <1>0, <1>19 DEF PassPotato
  <2>2. 1 \in DOMAIN inbox[p] /\ Head(inbox[p]) = inbox[p][1] /\ IsPotato(Head(inbox[p]))
    BY <1>19, <2>1, TailAt DEF PassPotato, IsPotato
  <2>3. /\ mphase \in {"report", "stuck"} /\ ~Free(inbox[p])
    BY <1>0, <2>2 DEF PhasesInv, NoPotato, Free
  <2>4. Free(backlog) /\ One(inbox[p]) /\ \A r \in Procs \ {p} : Free(inbox[r])
    BY <1>0, <2>3 DEF PhasesInv, OnePotatoAtMost
  <2>5. /\ box \in [Procs -> Seq(ToPlayer)]
        /\ box[p] = Tail(inbox[p]) /\ \A r \in Procs \ {p} : box[r] = inbox[r]
    BY <1>0, <2>1, QueuesTyped DEF Accepted, IInv
  <2>6. \A r \in Procs : Free(box[r])
    BY <2>1, <2>2, <2>4, <2>5, NothingNewTail
  <2>7. \A r \in Procs : NoExit(box[r])
    <3>1. \A r \in Procs : NoExit(inbox[r])
      BY <1>0, <2>3 DEF PhasesInv, NoExit
    <3>2. NoExit(Tail(inbox[p]))
      BY <2>1, <3>1, NothingNewTail DEF NothingNew
    <3> QED
      BY <2>5, <3>1, <3>2
  <2> HIDE DEF box
  <2>8. OnePotatoAtMost' /\ \A r \in Procs : NoExit(inbox'[r])
    <3>1. CASE inbox' = box /\ UNCHANGED backlog
      BY <2>4, <2>6, <2>7, <3>1, FreeIsOne DEF OnePotatoAtMost
    <3>2. ASSUME NEW q \in Procs, NEW m \in ToPlayer, m.type = "SEND_P",
                 inbox' = [box EXCEPT ![q] = Append(@, m)], UNCHANGED backlog
          PROVE  OnePotatoAtMost' /\ \A r \in Procs : NoExit(inbox'[r])
      <4>1. /\ inbox'[q] = Append(box[q], m) /\ box[q] \in Seq(ToPlayer)
            /\ \A r \in Procs \ {q} : inbox'[r] = box[r]
        BY <2>5, <3>2
      <4>2. One(inbox'[q]) /\ NoExit(inbox'[q])
        BY <2>6, <2>7, <3>2, <4>1, NothingNewAppend
      <4> QED
        BY <2>4, <2>6, <2>7, <3>2, <4>1, <4>2 DEF OnePotatoAtMost
    <3>3. ASSUME NEW m \in ToMaster, inbox' = box, backlog' = Append(backlog, m)
          PROVE  OnePotatoAtMost' /\ \A r \in Procs : NoExit(inbox'[r])
      <4>1. One(backlog')
        BY <1>0, <2>4, <3>3, NothingNewAppend
      <4> QED
        BY <2>6, <2>7, <3>3, <4>1 DEF OnePotatoAtMost
    <3> QED
      BY <1>19, <3>1, <3>2, <3>3, PassQueues DEF box
  <2>9. report = NoReport /\ hops > 0
    BY <1>0, <2>3 DEF PhasesInv
  <2> QED
    BY <2>1, <2>3, <2>8, <2>9 DEF PhasesInv, NoExit
<1> QED
  BY <1>6, <1>7, <1>8, <1>9, <1>10, <1>11, <1>12, <1>13, <1>15, <1>16, <1>17,
     <1>18, <1>19
  DEF Next, MasterStep, PlayerStep, Fault

-----------------------------------------------------------------------------
(***************************************************************************)
(* Who knows its neighbours.                                               *)
(***************************************************************************)
\* What NeighborsKnown says of player p.
Known(p) ==
    /\ \A k \in DOMAIN inbox[p] : inbox[p][k].type = "NEIGHBORS" =>
          inbox[p][k] = Neighbors(LeftOf(index[p]), RightOf(index[p]))
    /\ pstate[p] = "ring" =>
          /\ left[p] \in {LeftOf(index[p]), Nowhere}
          /\ right[p] \in {RightOf(index[p]), Nowhere}

\* Every neighbours message of queue r was in queue q.
NoNewNeighbors(q, r) ==
    \A k \in DOMAIN r : r[k].type = "NEIGHBORS" => \E j \in DOMAIN q : r[k] = q[j]

LEMMA KnownFrame ==
    ASSUME NEW p \in Procs, Known(p), index'[p] = index[p],
           NoNewNeighbors(inbox[p], inbox'[p]),
           pstate'[p] = "ring" => /\ pstate[p] = "ring"
                                  /\ left'[p] = left[p] /\ right'[p] = right[p]
    PROVE  Known(p)'
BY DEF Known, NoNewNeighbors, LeftOf, RightOf

LEMMA NoNewNeighborsSame == \A q : NoNewNeighbors(q, q)
BY DEF NoNewNeighbors

LEMMA NoNewNeighborsEmpty == \A q : NoNewNeighbors(q, <<>>)
<1>1. DOMAIN <<>> = {}
  OBVIOUS
<1> QED
  BY <1>1 DEF NoNewNeighbors

LEMMA NoNewNeighborsTail ==
    ASSUME NEW S, NEW q \in Seq(S), q # <<>>
    PROVE  NoNewNeighbors(q, Tail(q))
BY TailAt DEF NoNewNeighbors

LEMMA NoNewNeighborsAppend ==
    ASSUME NEW S, NEW q \in Seq(S), NEW x \in S, x.type # "NEIGHBORS"
    PROVE  NoNewNeighbors(q, Append(q, x))
BY AppendAt DEF NoNewNeighbors

\* Every step keeps what players know of their neighbours right.
LEMMA KnownKept ==
    ASSUME IInv, Next
    PROVE  NeighborsKnown'
<1> USE DEF mvars, pvars
<1> SUFFICES ASSUME NEW p \in Procs PROVE Known(p)'
  BY DEF NeighborsKnown, Known, LeftOf, RightOf
<1>0. /\ TypeOK /\ PlayersInv
      /\ \A q \in Procs : Known(q)
      /\ inbox \in [Procs -> Seq(ToPlayer)] /\ i \in Indexes
  BY DEF IInv, TypeOK, NeighborsKnown, Known
<1>1. \A q \in Procs : Listens(q) => index'[q] = index[q]
  BY WhatStays
<1>2. DOMAIN <<>> = {}
  OBVIOUS
<1>3. CASE ~Listens(p) /\ inbox'[p] = <<>> /\ pstate'[p] # "ring"
  BY <1>2, <1>3 DEF Known
<1>4. CASE /\ NoNewNeighbors(inbox[p], inbox'[p])
           /\ pstate'[p] = pstate[p]
           /\ left'[p] = left[p] /\ right'[p] = right[p]
  <2>1. CASE Listens(p)
    BY <1>0, <1>1, <1>4, <2>1, KnownFrame
  <2>2. CASE ~Listens(p)
    <3>1. inbox[p] = <<>>
      BY <1>0, <2>2 DEF PlayersInv
    <3> QED
      BY <1>2, <1>4, <2>2, <3>1 DEF Known, NoNewNeighbors, Listens
  <2> QED
    BY <2>1, <2>2
<1>5. CASE UNCHANGED <<pstate, inbox, left, right>>
  BY <1>4, <1>5, NoNewNeighborsSame
<1>6. ASSUME NEW ps \in SUBSET Procs, Orphan(ps), UNCHANGED <<inbox, left, right>>,
             \A r \in ps : pstate[r] = "waiting" /\ inbox[r] = <<>>
      PROVE  Known(p)'
  <2>1. /\ \A r \in ps : pstate'[r] = "assigned"
        /\ \A r \in Procs \ ps : pstate'[r] = pstate[r]
    BY <1>6, Orphans
  <2>2. CASE p \in ps
    BY <1>3, <1>6, <2>1, <2>2 DEF Listens
  <2>3. CASE p \notin ps
    BY <1>4, <1>6, <2>1, <2>3, NoNewNeighborsSame
  <2> QED
    BY <2>2, <2>3
<1>7. CASE AcceptPlayer
  <2> DEFINE q == Head(backlog).from
  <2>1. q \in Procs /\ pstate[q] = "waiting" /\ inbox[q] = <<>>
    BY <1>7, InitHello, FrontHello DEF AcceptPlayer
  <2>2. /\ pstate' = [pstate EXCEPT ![q] = "assigned"]
        /\ UNCHANGED <<inbox, left, right>>
    BY <1>7 DEF AcceptPlayer
  <2> HIDE DEF q
  <2>3. CASE p = q
    BY <1>0, <1>3, <2>1, <2>2, <2>3 DEF Listens, TypeOK
  <2>4. CASE p # q
    BY <1>0, <1>4, <2>2, <2>4, NoNewNeighborsSame DEF TypeOK
  <2> QED
    BY <2>3, <2>4
<1>8. CASE AcceptPlayerFails \/ DropReport \/ MasterExit
  BY <1>5, <1>6, <1>8, InitHello, OrphanInFront, OrphansAtExit
  DEF AcceptPlayerFails, DropReport, MasterExit
<1>9. ASSUME NEW q \in Procs, NEW m \in ToPlayer, m.type # "NEIGHBORS",
             inbox' = [inbox EXCEPT ![q] = Append(@, m)],
             UNCHANGED <<pstate, left, right>>
      PROVE  Known(p)'
  <2>1. CASE p = q
    <3>1. inbox'[p] = Append(inbox[p], m) /\ inbox[p] \in Seq(ToPlayer)
      BY <1>0, <1>9, <2>1
    <3>2. NoNewNeighbors(inbox[p], Append(inbox[p], m))
      BY <1>9, <3>1, NoNewNeighborsAppend
    <3> QED
      BY <1>4, <1>9, <3>1, <3>2
  <2>2. CASE p # q
    BY <1>0, <1>4, <1>9, <2>2, NoNewNeighborsSame
  <2> QED
    BY <2>1, <2>2
<1>10. CASE Notify
  <2> DEFINE m == Neighbors(LeftOf(i), RightOf(i))
  <2>1. PICK q \in Procs : /\ index[q] = i /\ Listens(q)
                           /\ inbox' = [inbox EXCEPT ![q] = Append(@, m)]
    BY <1>10, Delivered DEF Notify
  <2>2. UNCHANGED <<pstate, left, right, index>>
    BY <1>10 DEF Notify
  <2>3. m \in ToPlayer
    BY <1>0, Neighbours, MessageTypes
  <2>4. CASE p = q
    <3>1. inbox'[p] = Append(inbox[p], m) /\ inbox[p] \in Seq(ToPlayer)
      BY <1>0, <2>1, <2>4
    <3>2. \A k \in DOMAIN inbox'[p] :
             \/ k \in DOMAIN inbox[p] /\ inbox'[p][k] = inbox[p][k]
             \/ inbox'[p][k] = m
      <4> HIDE DEF m
      <4> QED
        BY <2>3, <3>1, AppendAt
    <3>3. m = Neighbors(LeftOf(index[p]), RightOf(index[p]))
      BY <2>1, <2>4
    <3> HIDE DEF m
    <3> QED
      BY <1>0, <2>2, <3>2, <3>3 DEF Known, LeftOf, RightOf
  <2>5. CASE p # q
    <3>1. inbox'[p] = inbox[p]
      BY <1>0, <2>1, <2>5
    <3> QED
      BY <1>4, <2>2, <3>1, NoNewNeighborsSame
  <2> QED
    BY <2>4, <2>5
<1>11. CASE SendFirst
  <2> DEFINE m == Potato("SEND_P", hops, 0, -1, <<>>, <<>>)
  <2>1. m \in ToPlayer /\ m.type # "NEIGHBORS"
    <3>1. 0 \in Nat /\ -1 \in Int /\ <<>> \in Seq(Int) /\ <<>> \in Seq(Indexes)
      OBVIOUS
    <3>2. hops \in Nat
      BY <1>0 DEF TypeOK
    <3> QED
      BY <3>1, <3>2, MessageTypes DEF Potato
  <2>2. PICK q \in Procs : inbox' = [inbox EXCEPT ![q] = Append(@, m)]
    BY <1>11, Delivered DEF SendFirst
  <2>3. UNCHANGED <<pstate, left, right>>
    BY <1>11 DEF SendFirst
  <2> HIDE DEF m
  <2> QED
    BY <1>9, <2>1, <2>2, <2>3
<1>12. CASE Shutdown
  <2>1. Exit \in ToPlayer /\ Exit.type # "NEIGHBORS"
    BY MessageTypes DEF Exit
  <2> QED
    BY <1>5, <1>9, <1>12, <2>1, Delivered DEF Shutdown
<1>13. CASE MasterListen \/ ChooseFirst \/ Retry \/ GiveUp \/ AcceptReport
  BY <1>5, <1>13 DEF MasterListen, ChooseFirst, Retry, GiveUp, AcceptReport
<1>14. ASSUME NEW r \in Procs, r # p, pstate'[p] = pstate[p], inbox'[p] = inbox[p],
              left'[p] = left[p], right'[p] = right[p]
       PROVE  Known(p)'
  BY <1>4, <1>14, NoNewNeighborsSame
<1>15. ASSUME NEW r \in Procs,
              \/ SayHello(r) \/ RetryHello(r) \/ OpenListener(r)
              \/ OpenListenerRefused(r) \/ OpenListenerFails(r)
       PROVE  Known(p)'
  <2>1. UNCHANGED <<inbox, left, right>>
    BY <1>15
    DEF SayHello, RetryHello, OpenListener, OpenListenerRefused, OpenListenerFails
  <2>2. CASE r = p
    <3>1. ~Listens(p) /\ pstate'[p] # "ring"
      BY <1>0, <1>15, <2>2
      DEF SayHello, RetryHello, OpenListener, OpenListenerRefused,
          OpenListenerFails, Listens, TypeOK
    <3>2. inbox[p] = <<>>
      BY <1>0, <3>1 DEF PlayersInv
    <3> QED
      BY <1>3, <2>1, <3>1, <3>2
  <2>3. CASE r # p
    <3>1. pstate'[p] = pstate[p]
      BY <1>0, <1>15, <2>3
      DEF SayHello, RetryHello, OpenListener, OpenListenerRefused,
          OpenListenerFails, TypeOK
    <3> QED
      BY <1>14, <2>1, <2>3, <3>1
  <2> QED
    BY <2>2, <2>3
<1>16. ASSUME NEW r \in Procs, GetNeighbors(r) PROVE Known(p)'
  <2>1. CASE r = p
    <3> DEFINE m == Head(inbox[p])
               sent == IF m.type = "NEIGHBORS" THEN m
                       ELSE Neighbors(Nowhere, Nowhere)
    <3>1. PICK info \in Told(sent) :
             /\ left' = [left EXCEPT ![p] = info.left]
             /\ right' = [right EXCEPT ![p] = info.right]
      BY <1>16, <2>1 DEF GetNeighbors
    <3>2. /\ inbox[p] # <<>> /\ inbox' = [inbox EXCEPT ![p] = Tail(@)]
          /\ index' = index
          /\ inbox[p] \in Seq(ToPlayer)
      BY <1>0, <1>16, <2>1 DEF GetNeighbors
    <3>3. 1 \in DOMAIN inbox[p] /\ m = inbox[p][1]
      BY <3>2, TailAt
    <3>4. \A a, b : Neighbors(a, b).left = a /\ Neighbors(a, b).right = b
      BY DEF Neighbors
    <3>5. /\ sent.left \in {LeftOf(index[p]), Nowhere}
          /\ sent.right \in {RightOf(index[p]), Nowhere}
      BY <1>0, <3>3, <3>4 DEF Known
    <3>6. /\ info.left \in {LeftOf(index[p]), Nowhere}
          /\ info.right \in {RightOf(index[p]), Nowhere}
      <4> HIDE DEF sent
      <4> QED
        BY <3>4, <3>5 DEF Told
    <3>7. NoNewNeighbors(inbox[p], inbox'[p])
      <4>1. NoNewNeighbors(inbox[p], Tail(inbox[p]))
        BY <3>2, NoNewNeighborsTail
      <4> QED
        BY <1>0, <3>2, <4>1
    <3>8. left'[p] = info.left /\ right'[p] = info.right
      <4> HIDE DEF sent
      <4> QED
        BY <1>0, <3>1 DEF TypeOK
    <3> HIDE DEF sent, m
    <3> QED
      BY <1>0, <3>2, <3>6, <3>7, <3>8 DEF Known, NoNewNeighbors, LeftOf, RightOf
  <2>2. CASE r # p
    BY <1>0, <1>14, <1>16, <2>2 DEF GetNeighbors, TypeOK
  <2> QED
    BY <2>1, <2>2
<1>17. ASSUME NEW r \in Procs, PlayerExits(r), UNCHANGED <<left, right>>
       PROVE  Known(p)'
  <2>1. CASE r = p
    BY <1>0, <1>2, <1>17, <2>1 DEF PlayerExits, Known, TypeOK
  <2>2. CASE r # p
    BY <1>0, <1>14, <1>17, <2>2 DEF PlayerExits, TypeOK
  <2> QED
    BY <2>1, <2>2
<1>18. ASSUME NEW r \in Procs, GetNeighborsFails(r) \/ Leave(r) PROVE Known(p)'
  BY <1>17, <1>18 DEF GetNeighborsFails, Leave
<1>19. ASSUME NEW r \in Procs, inbox[r] # <<>>
       PROVE  /\ NoNewNeighbors(inbox[p], Accepted(r)[p])
              /\ Accepted(r)[p] \in Seq(ToPlayer)
  <2>1. Accepted(r) \in [Procs -> Seq(ToPlayer)]
    BY <1>0, <1>19, QueuesTyped DEF Accepted
  <2>2. CASE r = p
    <3>1. Accepted(r)[p] = Tail(inbox[p]) /\ inbox[p] \in Seq(ToPlayer)
      BY <1>0, <2>2 DEF Accepted
    <3>2. NoNewNeighbors(inbox[p], Tail(inbox[p]))
      BY <1>19, <2>2, <3>1, NoNewNeighborsTail
    <3> QED
      BY <2>1, <3>1, <3>2
  <2>3. CASE r # p
    BY <1>0, <2>1, <2>3, NoNewNeighborsSame DEF Accepted
  <2> QED
    BY <2>2, <2>3
<1>20. ASSUME NEW r \in Procs, DropMessage(r) PROVE Known(p)'
  BY <1>4, <1>19, <1>20 DEF DropMessage, Accepted
<1>21. ASSUME NEW r \in Procs, PassPotato(r) PROVE Known(p)'
  <2>1. UNCHANGED <<pstate, left, right>> /\ inbox[r] # <<>>
    BY <1>21 DEF PassPotato
  <2>2. Accepted(r) \in [Procs -> Seq(ToPlayer)]
    BY <1>0, <2>1, QueuesTyped DEF Accepted
  <2>3. \/ inbox'[p] = Accepted(r)[p]
        \/ \E m \in ToPlayer : /\ m.type = "SEND_P"
                               /\ inbox'[p] = Append(Accepted(r)[p], m)
    BY <1>21, <2>2, PassQueues
  <2>4. ASSUME NEW m \in ToPlayer, m.type = "SEND_P"
        PROVE  NoNewNeighbors(inbox[p], Append(Accepted(r)[p], m))
    <3>1. NoNewNeighbors(Accepted(r)[p], Append(Accepted(r)[p], m))
      BY <1>19, <2>1, <2>4, NoNewNeighborsAppend
    <3> QED
      BY <1>19, <2>1, <3>1 DEF NoNewNeighbors
  <2> QED
    BY <1>4, <1>19, <2>1, <2>3, <2>4
<1> QED
  BY <1>7, <1>8, <1>10, <1>11, <1>12, <1>13, <1>15, <1>16, <1>18, <1>20, <1>21
  DEF Next, MasterStep, PlayerStep, Fault

\* What NeighborsInv says of player p if nobody else has taken its index.
Informed(p) ==
    /\ pstate[p] = "assigned" => ~Notified(index[p])
    /\ Listens(p) /\ NothingSent(index[p]) =>
          pstate[p] = "neighbors" /\ inbox[p] = <<>>
    /\ Listens(p) /\ Notified(index[p]) =>
          \/ /\ pstate[p] = "neighbors"
             /\ inbox[p] # <<>>
             /\ Head(inbox[p]).type = "NEIGHBORS"
          \/ /\ pstate[p] = "ring"
             /\ faults = 0 => Nowhere \notin {left[p], right[p]}

LEMMA EveryoneInformed ==
    NeighborsInv <=> \A p \in Procs : Alone(p) => Informed(p)
BY DEF NeighborsInv, Informed

\* Who has its index to itself had it before, or gets it with this step.
LEMMA AloneBefore ==
    ASSUME IInv, Next, NEW p \in Procs, Alone(p)', index[p] # NoIndex
    PROVE  Alone(p) /\ index'[p] = index[p]
<1>1. /\ \A q \in Procs : index[q] # NoIndex => index'[q] = index[q]
      /\ Guessed \subseteq Guessed'
  BY WhatStays, GuessedStays
<1>2. \A q \in Guessed : q \in Procs /\ index[q] # NoIndex
  BY DEF Guessed, Unreceived, Indexes, NoIndex, Garbage
<1> QED
  BY <1>1, <1>2 DEF Alone

\* Of two that have one index, one has guessed it.
LEMMA AloneOwner ==
    ASSUME NEW p \in Procs, NEW q \in Procs, Alone(p), index[q] = index[p]
    PROVE  p = q
<1>1. p \notin Guessed /\ q \notin Guessed
  BY DEF Alone
<1>2. member[index[p]] = {p} /\ member[index[p]] = {q}
  BY <1>1 DEF Alone, Guessed, Unreceived
<1> QED
  BY <1>2

\* Whoever is left without an answer does not have its index to itself.
LEMMA OrphanNotAlone ==
    ASSUME IInv, NEW p \in Procs, index[p] = NoIndex, UNCHANGED member,
           index'[p] \in Unreceived
    PROVE  ~Alone(p)'
<1>1. \A k \in Indexes : p \notin member[k]
  BY DEF IInv, IndexesInv, IndexesAreGiven, Indexes, NoIndex
<1>2. p \in Guessed'
  BY <1>1 DEF Guessed, Unreceived
<1> QED
  BY <1>2 DEF Alone

\* A player that does not move, while the master sends no neighbours.
LEMMA InformedFrame ==
    ASSUME NEW p \in Procs, Informed(p),
           pstate'[p] = pstate[p], index'[p] = index[p], inbox'[p] = inbox[p],
           left'[p] = left[p], right'[p] = right[p],
           Notified(index[p])' = Notified(index[p]),
           NothingSent(index[p])' = NothingSent(index[p]),
           faults' = 0 => faults = 0
    PROVE  Informed(p)'
BY DEF Informed, Listens, Notified, NothingSent

\* A player that is not about to listen, or has exited.
LEMMA NotInRing ==
    ASSUME NEW p \in Procs, pstate'[p] \notin {"assigned", "neighbors", "ring"}
    PROVE  Informed(p)'
BY DEF Informed, Listens

\* Once the ring is shut down nobody has to be informed.
LEMMA NotInService ==
    ASSUME NEW p \in Procs, mphase' \in {"shutdown", "closing", "exited"}
    PROVE  Informed(p)'
BY DEF Informed, Listens, Notified, NothingSent

\* A player gets one more message, after what it has.
LEMMA InformedDelivered ==
    ASSUME NEW p \in Procs, Informed(p), NEW box \in Seq(ToPlayer),
           box = inbox[p],
           NEW m \in ToPlayer, inbox'[p] = Append(box, m),
           pstate'[p] = pstate[p], index'[p] = index[p],
           left'[p] = left[p], right'[p] = right[p],
           Notified(index[p]), Notified(index[p])', ~NothingSent(index[p])',
           faults' = 0 => faults = 0
    PROVE  Informed(p)'
<1>1. box # <<>> => Head(inbox'[p]) = Head(box) /\ inbox'[p] # <<>>
  BY AppendAt
<1> QED
  BY <1>1 DEF Informed, Listens, Notified, NothingSent

\* Every step keeps the notified players informed.
LEMMA NeighborsKept ==
    ASSUME IInv, Next
    PROVE  NeighborsInv'
<1> USE DEF mvars, pvars
<1> SUFFICES ASSUME NEW p \in Procs, Alone(p)' PROVE Informed(p)'
  BY DEF NeighborsInv, Informed, Notified, NothingSent, Listens, Alone, Guessed
<1>0. /\ TypeOK /\ PlayersInv /\ IndexesInv /\ PhasesInv
      /\ index[p] # NoIndex =>
            Alone(p) /\ Informed(p) /\ index'[p] = index[p]
  BY AloneBefore, EveryoneInformed DEF IInv
<1>f. faults' = 0 => faults = 0
  BY WhatStays
<1>g. /\ pstate[p] \in {"assigned", "neighbors", "ring"} => index[p] # NoIndex
      /\ Listens(p) => index[p] # NoIndex
  BY <1>0 DEF PlayersInv, Listens, Unreceived, Indexes, NoIndex, Garbage
<1>h. CASE pstate'[p] \notin {"assigned", "neighbors", "ring"}
  BY <1>h, NotInRing
<1>1. /\ i \in Indexes /\ index \in [Procs -> Indexes \cup {NoIndex, Garbage}]
      /\ inbox \in [Procs -> Seq(ToPlayer)]
      /\ left \in [Procs -> Indexes \cup {NoIndex, Nowhere}]
      /\ right \in [Procs -> Indexes \cup {NoIndex, Nowhere}]
      /\ pstate \in [Procs -> {"connecting", "waiting", "assigned", "neighbors",
                               "ring", "exited"}]
  BY <1>0 DEF TypeOK
<1>2. pstate[p] \in {"assigned", "neighbors", "ring"} =>
         index[p] \in Indexes /\ index[p] \in Int /\ index[p] >= 0 /\ index[p] < N
  BY <1>0, <1>g DEF Alone, Indexes
<1>3. i \in Int /\ i >= 0 /\ i < N
  BY <1>1 DEF Indexes
<1>k. ASSUME pstate'[p] = pstate[p], inbox'[p] = inbox[p],
             left'[p] = left[p], right'[p] = right[p],
             \A k \in Indexes : /\ Notified(k)' = Notified(k)
                                /\ NothingSent(k)' = NothingSent(k)
      PROVE  Informed(p)'
  <2>1. CASE pstate[p] \in {"assigned", "neighbors", "ring"}
    <3>1. Informed(p) /\ index'[p] = index[p] /\ index[p] \in Indexes
      BY <1>0, <1>g, <1>2, <2>1
    <3>2. /\ Notified(index[p])' = Notified(index[p])
          /\ NothingSent(index[p])' = NothingSent(index[p])
      BY <1>k, <3>1 DEF Notified, NothingSent
    <3> QED
      BY <1>f, <1>k, <3>1, <3>2, InformedFrame
  <2> QED
    BY <1>h, <1>k, <2>1
<1>4. CASE MasterListen
  BY <1>4, <1>k DEF MasterListen, Notified, NothingSent
<1>5. ASSUME mphase = "init", NextPlayer("notify"),
             UNCHANGED <<inbox, left, right>>,
             pstate'[p] = pstate[p] \/ pstate'[p] = "assigned"
      PROVE  Informed(p)'
  <2>0. index'[p] \in Int /\ index'[p] >= 0
    BY DEF Alone, Indexes
  <2>1. \/ mphase' = "init"
        \/ mphase' = "notify" /\ i' = 0
    BY <1>5 DEF NextPlayer
  <2>2. ~Notified(index[p])'
    BY <2>0, <2>1 DEF Notified
  <2>3. CASE pstate'[p] = "assigned"
    BY <2>2, <2>3 DEF Informed, Listens, Notified
  <2>4. CASE pstate'[p] = pstate[p] /\ Listens(p)
    <3>1. pstate[p] = "neighbors" /\ inbox[p] = <<>>
      BY <1>0, <1>g, <1>5, <2>4 DEF Informed, NothingSent
    <3> QED
      BY <1>5, <2>2, <2>4, <3>1 DEF Informed, Listens, Notified
  <2> QED
    BY <1>5, <1>h, <2>3, <2>4 DEF Listens
<1>6. CASE AcceptPlayer
  BY <1>1, <1>5, <1>6 DEF AcceptPlayer
<1>o. ASSUME NEW ps \in SUBSET Procs, Orphan(ps), UNCHANGED member,
             \A r \in ps : index[r] = NoIndex
      PROVE  pstate'[p] = pstate[p]
  <2>1. CASE p \in ps
    BY <1>o, <2>1, Orphans, OrphanNotAlone
  <2>2. CASE p \notin ps
    BY <1>o, <2>2, Orphans
  <2> QED
    BY <2>1, <2>2
<1>7. CASE AcceptPlayerFails
  BY <1>5, <1>7, <1>o, InitHello, OrphanInFront DEF AcceptPlayerFails
<1>8. CASE Notify
  <2> DEFINE m == Neighbors(LeftOf(i), RightOf(i))
  <2>1. PICK q \in Procs : /\ index[q] = i /\ Listens(q)
                           /\ inbox' = [inbox EXCEPT ![q] = Append(@, m)]
    BY <1>8, Delivered DEF Notify
  <2>2. /\ mphase = "notify" /\ UNCHANGED <<pstate, index, left, right>>
        /\ \/ i + 1 < N /\ i' = i + 1 /\ mphase' = "notify"
           \/ i + 1 = N /\ mphase' \in {"choose", "shutdown"}
    BY <1>8 DEF Notify, NextPlayer
  <2>3. m \in ToPlayer
    BY <1>1, Neighbours, MessageTypes
  <2>4. CASE p = q
    <3>1. pstate[p] = "neighbors" /\ inbox[p] = <<>>
      BY <1>0, <1>g, <1>3, <2>1, <2>2, <2>4 DEF Informed, NothingSent
    <3>2. inbox'[p] = Append(inbox[p], m) /\ inbox[p] \in Seq(ToPlayer)
      BY <1>1, <2>1, <2>4
    <3>3. inbox'[p] # <<>> /\ Head(inbox'[p]) = m
      <4> HIDE DEF m
      <4> QED
        BY <2>3, <3>1, <3>2, AppendAt
    <3>4. ~NothingSent(index[p])'
      BY <1>3, <2>1, <2>2, <2>4 DEF NothingSent
    <3>5. m.type = "NEIGHBORS"
      BY DEF Neighbors
    <3> QED
      BY <2>1, <2>2, <2>4, <3>1, <3>3, <3>4, <3>5
      DEF Informed, Listens, NothingSent
  <2>5. CASE p # q
    <3>1. index[p] # i
      <4>1. i # NoIndex
        BY <1>3 DEF NoIndex
      <4>2. index[p] = i => Alone(p) /\ index[q] = index[p]
        BY <1>0, <2>1, <4>1
      <4> QED
        BY <2>5, <4>2, AloneOwner
    <3>2. inbox'[p] = inbox[p]
      BY <1>1, <2>1, <2>5
    <3>3. CASE mphase' = "shutdown"
      BY <3>3, NotInService
    <3>4. CASE pstate[p] \notin {"assigned", "neighbors", "ring"}
      BY <2>2, <3>4, NotInRing
    <3>5. CASE pstate[p] \in {"assigned", "neighbors", "ring"} /\ mphase' # "shutdown"
      <4>1. /\ Notified(index[p])' = Notified(index[p])
            /\ NothingSent(index[p])' = NothingSent(index[p])
        BY <1>2, <1>3, <2>2, <3>1, <3>5 DEF Notified, NothingSent
      <4> QED
        BY <1>0, <1>f, <1>g, <2>2, <3>2, <3>5, <4>1, InformedFrame
    <3> QED
      BY <3>3, <3>4, <3>5
  <2> QED
    BY <2>4, <2>5
<1>9. CASE ChooseFirst
  BY <1>9, <1>k DEF ChooseFirst, Notified, NothingSent
<1>10. CASE SendFirst
  <2> DEFINE m == Potato("SEND_P", hops, 0, -1, <<>>, <<>>)
  <2>1. PICK q \in Procs : Listens(q) /\ inbox' = [inbox EXCEPT ![q] = Append(@, m)]
    BY <1>10, Delivered DEF SendFirst
  <2>2. /\ mphase = "send" /\ mphase' = "report"
        /\ UNCHANGED <<pstate, index, left, right>>
    BY <1>10 DEF SendFirst, AfterSend
  <2>3. m \in ToPlayer
    <3>1. 0 \in Nat /\ -1 \in Int /\ <<>> \in Seq(Int) /\ <<>> \in Seq(Indexes)
      OBVIOUS
    <3>2. hops \in Nat
      BY <1>0 DEF TypeOK
    <3> QED
      BY <3>1, <3>2, MessageTypes
  <2>4. /\ Notified(index[p]) /\ Notified(index[p])'
        /\ ~NothingSent(index[p]) /\ ~NothingSent(index[p])'
    BY <2>2 DEF Notified, NothingSent
  <2> HIDE DEF m
  <2>5. CASE p = q
    <3>1. inbox'[p] = Append(inbox[p], m) /\ inbox[p] \in Seq(ToPlayer)
      BY <1>1, <2>1, <2>5
    <3> QED
      BY <1>0, <1>f, <1>g, <2>1, <2>2, <2>3, <2>4, <2>5, <3>1, InformedDelivered
  <2>6. CASE p # q
    <3>1. inbox'[p] = inbox[p]
      BY <1>1, <2>1, <2>6
    <3>2. \A k \in Indexes : /\ Notified(k)' = Notified(k)
                             /\ NothingSent(k)' = NothingSent(k)
      BY <2>2 DEF Notified, NothingSent
    <3> QED
      BY <1>k, <2>2, <3>1, <3>2
  <2> QED
    BY <2>5, <2>6
<1>11. CASE Retry
  BY <1>11, <1>k DEF Retry, Notified, NothingSent
<1>12. CASE GiveUp
  BY <1>12, NotInService DEF GiveUp
<1>13. CASE AcceptReport
  <2>1. CASE mphase' = "shutdown"
    BY <2>1, NotInService
  <2>2. CASE mphase' = "stuck"
    BY <1>13, <1>k, <2>2 DEF AcceptReport, Notified, NothingSent
  <2> QED
    BY <1>13, <2>1, <2>2 DEF AcceptReport
<1>14. CASE DropReport
  <2>1. mphase' = mphase /\ i' = i /\ UNCHANGED <<inbox, left, right>>
    BY <1>14 DEF DropReport
  <2>2. pstate'[p] = pstate[p]
    BY <1>14, <1>o, OrphanInFront DEF DropReport
  <2> QED
    BY <1>k, <2>1, <2>2 DEF Notified, NothingSent
<1>15. CASE Shutdown
  BY <1>15, NotInService DEF Shutdown, NextPlayer
<1>16. CASE MasterExit
  BY <1>16, NotInService DEF MasterExit
<1>17. ASSUME NEW r \in Procs, r # p, UNCHANGED <<mphase, i>>,
              pstate'[p] = pstate[p], inbox'[p] = inbox[p],
              left'[p] = left[p], right'[p] = right[p]
       PROVE  Informed(p)'
  BY <1>17, <1>k DEF Notified, NothingSent
<1>18. ASSUME NEW r \in Procs, SayHello(r) PROVE Informed(p)'
  <2>1. CASE r = p
    BY <1>1, <1>18, <2>1, NotInRing DEF SayHello
  <2>2. CASE r # p
    BY <1>1, <1>17, <1>18, <2>2 DEF SayHello
  <2> QED
    BY <2>1, <2>2
<1>19. ASSUME NEW r \in Procs, RetryHello(r) PROVE Informed(p)'
  <2>1. CASE r = p
    BY <1>1, <1>19, <2>1, NotInRing DEF RetryHello
  <2>2. CASE r # p
    BY <1>1, <1>17, <1>19, <2>2 DEF RetryHello
  <2> QED
    BY <2>1, <2>2
<1>20. ASSUME NEW r \in Procs, OpenListener(r) PROVE Informed(p)'
  <2>1. CASE r = p
    <3>1. /\ pstate[p] = "assigned" /\ pstate'[p] = "neighbors"
          /\ UNCHANGED <<mphase, i, index, inbox, left, right>>
      BY <1>1, <1>20, <2>1 DEF OpenListener
    <3>2. ~Notified(index[p])' /\ inbox[p] = <<>>
      BY <1>0, <1>g, <3>1 DEF Informed, Notified, PlayersInv, Listens
    <3> QED
      BY <3>1, <3>2 DEF Informed, Listens, Notified
  <2>2. CASE r # p
    BY <1>1, <1>17, <1>20, <2>2 DEF OpenListener
  <2> QED
    BY <2>1, <2>2
<1>21. ASSUME NEW r \in Procs, OpenListenerFails(r) \/ OpenListenerRefused(r)
       PROVE  Informed(p)'
  <2>1. CASE r = p
    BY <1>1, <1>21, <2>1, NotInRing DEF OpenListenerFails, OpenListenerRefused
  <2>2. CASE r # p
    BY <1>1, <1>17, <1>21, <2>2 DEF OpenListenerFails, OpenListenerRefused
  <2> QED
    BY <2>1, <2>2
<1>22. ASSUME NEW r \in Procs, GetNeighbors(r) PROVE Informed(p)'
  <2>1. CASE r = p
    <3> DEFINE m == Head(inbox[p])
               sent == IF m.type = "NEIGHBORS" THEN m
                       ELSE Neighbors(Nowhere, Nowhere)
    <3>1. /\ pstate[p] = "neighbors" /\ pstate'[p] = "ring" /\ inbox[p] # <<>>
          /\ UNCHANGED <<mphase, i, index>>
      BY <1>1, <1>22, <2>1 DEF GetNeighbors
    <3>2. PICK info \in Told(sent) :
             /\ left' = [left EXCEPT ![p] = info.left]
             /\ right' = [right EXCEPT ![p] = info.right]
             /\ faults' = faults + (IF info = sent THEN 0 ELSE 1)
      BY <1>22, <2>1 DEF GetNeighbors
    <3>3. Informed(p) /\ ~NothingSent(index[p])
      BY <1>0, <1>g, <3>1 DEF Informed, Listens
    <3>4. ASSUME Notified(index[p]), faults' = 0
          PROVE  Nowhere \notin {left'[p], right'[p]}
      <4>1. m.type = "NEIGHBORS"
        BY <3>1, <3>3, <3>4 DEF Informed, Listens
      <4>2. m \in ToPlayer
        <5>1. inbox[p] \in Seq(ToPlayer)
          BY <1>1
        <5> QED
          BY <3>1, <5>1, TailAt
      <4>3. m.left \in Indexes /\ m.right \in Indexes
        BY <4>1, <4>2 DEF ToPlayer, PotatoOf
      <4>4. info = m
        <5>1. faults \in Nat
          BY <1>0, FaultsAssumption DEF TypeOK
        <5>2. info = sent
          <6> HIDE DEF sent
          <6> QED
            BY <3>2, <3>4, <5>1
        <5> QED
          BY <4>1, <5>2
      <4>5. left'[p] = info.left /\ right'[p] = info.right
        <5> HIDE DEF sent
        <5> QED
          BY <1>1, <3>2
      <4> HIDE DEF m, sent
      <4> QED
        BY <4>3, <4>4, <4>5 DEF Indexes, Nowhere
    <3> HIDE DEF m, sent
    <3> QED
      BY <3>1, <3>3, <3>4 DEF Informed, Listens, Notified, NothingSent
  <2>2. CASE r # p
    BY <1>1, <1>17, <1>22, <2>2 DEF GetNeighbors
  <2> QED
    BY <2>1, <2>2
<1>23. ASSUME NEW r \in Procs, PlayerExits(r),
              UNCHANGED <<mphase, i, index, left, right>>
       PROVE  Informed(p)'
  <2>1. CASE r = p
    BY <1>1, <1>23, <2>1, NotInRing DEF PlayerExits
  <2>2. CASE r # p
    BY <1>1, <1>17, <1>23, <2>2 DEF PlayerExits
  <2> QED
    BY <2>1, <2>2
<1>24. ASSUME NEW r \in Procs, GetNeighborsFails(r) \/ Leave(r) PROVE Informed(p)'
  BY <1>23, <1>24 DEF GetNeighborsFails, Leave
<1>25. ASSUME NEW r \in Procs, DropMessage(r) PROVE Informed(p)'
  <2>1. CASE r = p
    <3>1. /\ pstate[p] = "ring"
          /\ UNCHANGED <<mphase, i, index, pstate, left, right, faults>>
      BY <1>25, <2>1 DEF DropMessage
    <3> QED
      BY <1>0, <1>g, <3>1 DEF Informed, Listens, Notified, NothingSent
  <2>2. CASE r # p
    BY <1>1, <1>17, <1>25, <2>2 DEF DropMessage
  <2> QED
    BY <2>1, <2>2
<1>26. ASSUME NEW r \in Procs, PassPotato(r) PROVE Informed(p)'
  <2>1. /\ pstate[r] = "ring"
        /\ UNCHANGED <<mphase, i, index, pstate, left, right>>
        /\ inbox[r] # <<>> /\ Head(inbox[r]).type = "SEND_P"
    BY <1>26 DEF PassPotato
  <2>2. mphase \in {"report", "stuck"}
    <3>1. inbox[r] \in Seq(ToPlayer)
      BY <1>1
    <3>2. 1 \in DOMAIN inbox[r] /\ IsPotato(inbox[r][1])
      BY <2>1, <3>1, TailAt DEF IsPotato
    <3> QED
      BY <1>0, <3>2 DEF PhasesInv, NoPotato, Free
  <2>3. CASE r = p
    BY <1>0, <1>f, <1>g, <2>1, <2>2, <2>3
    DEF Informed, Listens, Notified, NothingSent
  <2>4. CASE r # p
    <3>1. Accepted(r)[p] = inbox[p] /\ Accepted(r) \in [Procs -> Seq(ToPlayer)]
      BY <1>0, <1>1, <2>1, <2>4, QueuesTyped DEF Accepted
    <3>2. inbox'[p] = inbox[p]
            \/ \E m \in ToPlayer : inbox'[p] = Append(inbox[p], m)
      BY <1>26, <3>1, PassQueues
    <3>3. CASE inbox'[p] = inbox[p]
      BY <1>17, <2>1, <2>4, <3>3
    <3>4. ASSUME NEW m \in ToPlayer, inbox'[p] = Append(inbox[p], m)
          PROVE  Informed(p)'
      <4>1. /\ Notified(index[p]) /\ Notified(index[p])' /\ ~NothingSent(index[p])'
            /\ inbox[p] \in Seq(ToPlayer)
        BY <1>1, <2>1, <2>2 DEF Notified, NothingSent
      <4>2. CASE pstate[p] \in {"assigned", "neighbors", "ring"}
        BY <1>0, <1>f, <1>g, <2>1, <3>4, <4>1, <4>2, InformedDelivered
      <4> QED
        BY <1>h, <2>1, <4>2
    <3> QED
      BY <3>2, <3>3, <3>4
  <2> QED
    BY <2>3, <2>4
<1> QED
  BY <1>4, <1>6, <1>7, <1>8, <1>9, <1>10, <1>11, <1>12, <1>13, <1>14, <1>15,
     <1>16, <1>18, <1>19, <1>20, <1>21, <1>22, <1>24, <1>25, <1>26
  DEF Next, MasterStep, PlayerStep, Fault

-----------------------------------------------------------------------------
(***************************************************************************)
(* The track and the walk.                                                 *)
(***************************************************************************)
\* Every potato of queue r was in queue q.
NoNewPotato(q, r) ==
    \A k \in DOMAIN r : IsPotato(r[k]) => \E j \in DOMAIN q : r[k] = q[j]

LEMMA NoNewSame == \A q : NoNewPotato(q, q)
BY DEF NoNewPotato

LEMMA NoNewEmpty == \A q : NoNewPotato(q, <<>>)
<1>1. DOMAIN <<>> = {}
  OBVIOUS
<1> QED
  BY <1>1 DEF NoNewPotato

LEMMA NoNewTail ==
    ASSUME NEW S, NEW q \in Seq(S), q # <<>>
    PROVE  NoNewPotato(q, Tail(q))
BY TailAt DEF NoNewPotato

LEMMA NoNewAppend ==
    ASSUME NEW S, NEW q \in Seq(S), NEW x \in S, ~IsPotato(x)
    PROVE  NoNewPotato(q, Append(q, x))
BY AppendAt DEF NoNewPotato

\* Only the master's SendFirst and a player's PassPotato queue a potato.
LEMMA WhoSendsPotatoes ==
    ASSUME IInv, Next, ~SendFirst, \A p \in Procs : ~PassPotato(p)
    PROVE  /\ NoNewPotato(backlog, backlog')
           /\ \A p \in Procs : NoNewPotato(inbox[p], inbox'[p])
<1> USE DEF mvars, pvars
<1> DEFINE Goal == /\ NoNewPotato(backlog, backlog')
                   /\ \A p \in Procs : NoNewPotato(inbox[p], inbox'[p])
<1>0. /\ backlog \in Seq(ToMaster) /\ inbox \in [Procs -> Seq(ToPlayer)]
      /\ i \in Indexes
  BY DEF IInv, TypeOK
<1>1. CASE UNCHANGED <<backlog, inbox>>
  BY <1>1, NoNewSame
<1>2. CASE backlog # <<>> /\ backlog' = Tail(backlog) /\ UNCHANGED inbox
  BY <1>0, <1>2, NoNewSame, NoNewTail
<1>3. ASSUME NEW q \in Procs, NEW m \in ToPlayer, ~IsPotato(m), UNCHANGED backlog,
             inbox' = [inbox EXCEPT ![q] = Append(@, m)]
      PROVE  Goal
  <2>1. /\ inbox'[q] = Append(inbox[q], m) /\ inbox[q] \in Seq(ToPlayer)
        /\ \A r \in Procs \ {q} : inbox'[r] = inbox[r]
    BY <1>0, <1>3
  <2>2. NoNewPotato(inbox[q], Append(inbox[q], m))
    BY <1>3, <2>1, NoNewAppend
  <2> QED
    BY <1>3, <2>1, <2>2, NoNewSame
<1>4. ASSUME NEW p \in Procs, inbox[p] # <<>>, inbox' = Accepted(p), UNCHANGED backlog
      PROVE  Goal
  <2>1. /\ inbox'[p] = Tail(inbox[p]) /\ inbox[p] \in Seq(ToPlayer)
        /\ \A r \in Procs \ {p} : inbox'[r] = inbox[r]
    BY <1>0, <1>4 DEF Accepted
  <2>2. NoNewPotato(inbox[p], Tail(inbox[p]))
    BY <1>4, <2>1, NoNewTail
  <2> QED
    BY <1>4, <2>1, <2>2, NoNewSame
<1>5. ASSUME NEW p \in Procs, PlayerExits(p), UNCHANGED backlog
      PROVE  Goal
  BY <1>0, <1>5, NoNewSame, NoNewEmpty DEF PlayerExits
<1>6. CASE MasterListen \/ ChooseFirst \/ Retry \/ GiveUp
  BY <1>1, <1>6 DEF MasterListen, ChooseFirst, Retry, GiveUp
<1>7. CASE AcceptPlayer \/ AcceptPlayerFails \/ AcceptReport \/ DropReport
  BY <1>1, <1>2, <1>7 DEF AcceptPlayer, AcceptPlayerFails, AcceptReport, DropReport
<1>8. CASE Notify
  <2> DEFINE m == Neighbors(LeftOf(i), RightOf(i))
  <2>1. m \in ToPlayer /\ ~IsPotato(m)
    BY <1>0, Neighbours, MessageTypes DEF Neighbors, IsPotato
  <2>2. PICK q \in Procs : inbox' = [inbox EXCEPT ![q] = Append(@, m)]
    BY <1>8, Delivered DEF Notify
  <2>3. UNCHANGED backlog
    BY <1>8 DEF Notify
  <2> HIDE DEF m
  <2> QED
    BY <1>3, <2>1, <2>2, <2>3
<1>9. CASE Shutdown
  <2>1. Exit \in ToPlayer /\ ~IsPotato(Exit)
    BY MessageTypes DEF Exit, IsPotato
  <2> QED
    BY <1>1, <1>3, <1>9, <2>1, Delivered DEF Shutdown
<1>10. CASE MasterExit
  BY <1>10, NoNewSame, NoNewEmpty DEF MasterExit
<1>11. ASSUME NEW p \in Procs, SayHello(p) PROVE Goal
  <2>1. Hello(p) \in ToMaster /\ ~IsPotato(Hello(p))
    BY MessageTypes DEF Hello, IsPotato
  <2>2. NoNewPotato(backlog, Append(backlog, Hello(p)))
    BY <1>0, <2>1, NoNewAppend
  <2> QED
    BY <1>11, <2>2, NoNewSame DEF SayHello
<1>12. ASSUME NEW p \in Procs,
              \/ RetryHello(p) \/ OpenListener(p)
              \/ OpenListenerFails(p) \/ OpenListenerRefused(p)
       PROVE  Goal
  BY <1>1, <1>12 DEF RetryHello, OpenListener, OpenListenerFails, OpenListenerRefused
<1>13. ASSUME NEW p \in Procs, GetNeighbors(p) \/ DropMessage(p) PROVE Goal
  BY <1>4, <1>13 DEF GetNeighbors, DropMessage, Accepted
<1>14. ASSUME NEW p \in Procs, GetNeighborsFails(p) \/ Leave(p) PROVE Goal
  BY <1>5, <1>14 DEF GetNeighborsFails, Leave
<1> QED
  BY <1>6, <1>7, <1>8, <1>9, <1>10, <1>11, <1>12, <1>13, <1>14
  DEF Next, MasterStep, PlayerStep, Fault

\* A walk goes on to a neighbour of where it ends.
LEMMA WalkOn ==
    ASSUME NEW w \in Seq(Indexes), NEW k \in Indexes, IsWalk(Append(w, k)),
           NEW l \in {LeftOf(k), RightOf(k)}
    PROVE  IsWalk(Append(Append(w, k), l))
<1> DEFINE v == Append(w, k)
           u == Append(v, l)
<1>1. l \in Indexes
  BY Neighbours
<1>2. /\ v \in Seq(Indexes) /\ Len(v) = Len(w) + 1 /\ v[Len(w) + 1] = k
      /\ Len(w) \in Nat
  OBVIOUS
<1>3. /\ Len(u) = Len(v) + 1 /\ u[Len(v) + 1] = l
      /\ \A j \in 1 .. Len(v) : u[j] = v[j]
  <2> HIDE DEF v
  <2> QED
    BY <1>1, <1>2
<1>4. (l - k) % N \in {1, N - 1}
  <2>1. k \in Int /\ k >= 0 /\ k < N
    BY DEF Indexes
  <2>2. CASE l = LeftOf(k)
    <3>1. (l - k) % N = N - 1
      BY <2>1, <2>2 DEF LeftOf
    <3> QED
      BY <3>1
  <2>3. CASE l = RightOf(k)
    <3>1. (l - k) % N = 1
      BY <2>1, <2>3 DEF RightOf
    <3> QED
      BY <3>1
  <2> QED
    BY <2>2, <2>3
<1>5. ASSUME NEW j \in 1 .. Len(u) - 1
      PROVE  (u[j + 1] - u[j]) % N \in {1, N - 1}
  <2> HIDE DEF u, v
  <2>1. CASE j = Len(v)
    BY <1>2, <1>3, <1>4, <2>1
  <2>2. CASE j # Len(v)
    <3>1. j \in 1 .. Len(v) - 1 /\ j + 1 \in 1 .. Len(v) /\ j \in 1 .. Len(v)
      BY <1>2, <1>3, <1>5, <2>2
    <3>2. (v[j + 1] - v[j]) % N \in {1, N - 1}
      BY <3>1 DEF IsWalk, v
    <3> QED
      BY <1>3, <3>1, <3>2
  <2> QED
    BY <2>1, <2>2
<1> QED
  BY <1>5 DEF IsWalk

\* A track that recv() returns agrees with the walk when the one sent did.
LEMMA ReceivedAgrees ==
    ASSUME NEW track \in Seq(Int), NEW walk \in Seq(Indexes), Agrees(track, walk),
           NEW got \in Received(track), Receives(track, got), faults \in Nat
    PROVE  /\ got \in Seq(Int) /\ Len(got) = Len(walk)
           /\ \A k \in DOMAIN walk : got[k] \in {walk[k], 0, Torn}
           /\ faults' = 0 => got = walk
<1>1. /\ got \in Seq(Int) /\ Len(got) = Len(track)
      /\ \A k \in DOMAIN track : got[k] \in {track[k], 0, Torn}
  BY ReceivedTrack
<1>2. /\ Len(track) = Len(walk)
      /\ \A k \in DOMAIN walk : track[k] \in {walk[k], 0, Torn}
      /\ faults = 0 => track = walk
  BY DEF Agrees
<1>3. DOMAIN track = DOMAIN walk
  BY <1>2
<1>4. \A k \in DOMAIN walk : got[k] \in {walk[k], 0, Torn}
  BY <1>1, <1>2, <1>3
<1>5. faults' = 0 => got = track /\ faults = 0
  BY DEF Receives
<1> QED
  BY <1>1, <1>2, <1>4, <1>5

\* TracksItsWalk, for any hops asked for and any number of failures.
WalksAt(m, asked, failed) ==
    /\ m.hops + m.sent_times = asked
    /\ Len(m.walk) = m.sent_times
    /\ IsWalk(m.walk)
    /\ Len(m.track) = Len(m.walk)
    /\ \A k \in DOMAIN m.walk : m.track[k] \in {m.walk[k], 0, Torn}
    /\ failed = 0 => m.track = m.walk
    /\ m.track # <<>> => m.track[Len(m.track)] = m.sender
    /\ m.type = "SEND_P" <=> m.hops > 0

LEMMA WalksNow == \A m : TracksItsWalk(m) <=> WalksAt(m, hops, faults)
BY DEF TracksItsWalk, WalksAt, Agrees

\* TracksInv, now and after a step.
LEMMA TracksParts ==
    /\ TracksInv => /\ \A k \in DOMAIN backlog :
                           IsPotato(backlog[k]) => WalksAt(backlog[k], hops, faults)
                    /\ \A p \in Procs : \A k \in DOMAIN inbox[p] :
                           IsPotato(inbox[p][k]) =>
                              /\ WalksAt(inbox[p][k], hops, faults)
                              /\ IsWalk(Append(inbox[p][k].walk, index[p]))
    /\ /\ \A k \in DOMAIN backlog' :
              IsPotato(backlog'[k]) => WalksAt(backlog'[k], hops', faults')
       /\ \A p \in Procs : \A k \in DOMAIN inbox'[p] :
              IsPotato(inbox'[p][k]) =>
                 /\ WalksAt(inbox'[p][k], hops', faults')
                 /\ IsWalk(Append(inbox'[p][k].walk, index'[p]))
       /\ ReportIsComplete'
       => TracksInv'
BY DEF TracksInv, TracksItsWalk, WalksAt, Agrees

\* More failures do not make a track worse than it may be.
LEMMA StillWalks ==
    ASSUME NEW m, NEW asked, NEW f \in Nat, NEW g \in Nat, g >= f,
           WalksAt(m, asked, f)
    PROVE  WalksAt(m, asked, g)
BY DEF WalksAt

\* A potato that is passed on has made one more step of its walk.
LEMMA PassedWalks ==
    ASSUME NEW h \in PotatoOf("SEND_P"), WalksAt(h, hops, faults), h.hops > 0,
           NEW k \in Indexes, IsWalk(Append(h.walk, k)),
           NEW got \in Received(h.track), Receives(h.track, got), faults \in Nat
    PROVE  /\ WalksAt(Passed(h, got, k), hops, faults')
           /\ Passed(h, got, k).walk = Append(h.walk, k)
<1> DEFINE m == Passed(h, got, k)
<1>1. /\ h.hops \in Nat /\ h.sent_times \in Nat
      /\ h.track \in Seq(Int) /\ h.walk \in Seq(Indexes)
  BY DEF PotatoOf
<1>2. /\ got \in Seq(Int) /\ Len(got) = Len(h.walk)
      /\ \A j \in DOMAIN h.walk : got[j] \in {h.walk[j], 0, Torn}
      /\ faults' = 0 => got = h.walk
  <2>1. Agrees(h.track, h.walk)
    BY DEF WalksAt, Agrees
  <2> QED
    BY <1>1, <2>1, ReceivedAgrees
<1>3. /\ m.hops = h.hops - 1 /\ m.sent_times = h.sent_times + 1 /\ m.sender = k
      /\ m.track = Append(got, k) /\ m.walk = Append(h.walk, k)
      /\ m.type = IF h.hops - 1 # 0 THEN "SEND_P" ELSE "REPORT_P"
  BY DEF Passed, Potato, Extended
<1>4. h.hops + h.sent_times = hops /\ Len(h.walk) = h.sent_times
  BY DEF WalksAt
<1>5. k \in Int
  BY DEF Indexes
<1> HIDE DEF m
<1>6. /\ Len(m.walk) = Len(h.walk) + 1 /\ Len(m.track) = Len(h.walk) + 1
      /\ DOMAIN m.walk = 1 .. Len(h.walk) + 1
      /\ m.track[Len(h.walk) + 1] = k /\ m.walk[Len(h.walk) + 1] = k
      /\ \A j \in 1 .. Len(h.walk) : m.track[j] = got[j] /\ m.walk[j] = h.walk[j]
  BY <1>1, <1>2, <1>3, <1>5
<1>7. \A j \in DOMAIN m.walk : m.track[j] \in {m.walk[j], 0, Torn}
  <2>0. DOMAIN h.walk = 1 .. Len(h.walk)
    BY <1>1
  <2>1. ASSUME NEW j \in 1 .. Len(h.walk)
        PROVE  m.track[j] \in {m.walk[j], 0, Torn}
    <3>1. got[j] \in {h.walk[j], 0, Torn}
      BY <1>2, <2>0
    <3>2. m.track[j] = got[j] /\ m.walk[j] = h.walk[j]
      BY <1>6
    <3> QED
      BY <3>1, <3>2
  <2>2. \A j \in DOMAIN m.walk : j \in 1 .. Len(h.walk) \/ j = Len(h.walk) + 1
    BY <1>1, <1>6
  <2> QED
    BY <1>6, <2>1, <2>2
<1>8. faults' = 0 => m.track = m.walk
  BY <1>2, <1>3
<1>9. m.track[Len(m.track)] = m.sender
  BY <1>3, <1>6
<1>10. m.type = "SEND_P" <=> m.hops > 0
  BY <1>1, <1>3
<1>11. m.hops + m.sent_times = hops
  BY <1>1, <1>3, <1>4
<1>12. Len(m.walk) = m.sent_times /\ Len(m.track) = Len(m.walk)
  BY <1>3, <1>4, <1>6
<1>13. IsWalk(m.walk)
  BY <1>3
<1>14. WalksAt(m, hops, faults')
  BY <1>7, <1>8, <1>9, <1>10, <1>11, <1>12, <1>13 DEF WalksAt
<1> QED
  BY <1>3, <1>14 DEF m

\* Every step keeps potatoes on their walks.
LEMMA TracksKept ==
    ASSUME IInv, Next
    PROVE  TracksInv'
<1> USE DEF mvars, pvars
<1>0. /\ TypeOK /\ PlayersInv /\ PhasesInv /\ TracksInv /\ NeighborsKnown
      /\ backlog \in Seq(ToMaster) /\ inbox \in [Procs -> Seq(ToPlayer)]
      /\ hops \in Nat
  BY DEF IInv, TypeOK
<1>1. /\ \A p \in Procs : Listens(p) => index'[p] = index[p]
      /\ hops' = hops
      /\ faults \in Nat /\ faults' \in Nat /\ faults' >= faults
  BY WhatStays
<1>2. \A m : WalksAt(m, hops, faults) => WalksAt(m, hops', faults')
  BY <1>1, StillWalks
<1>3. ASSUME NoNewPotato(backlog, backlog')
      PROVE  \A k \in DOMAIN backlog' :
                IsPotato(backlog'[k]) => WalksAt(backlog'[k], hops', faults')
  BY <1>0, <1>2, <1>3, TracksParts DEF NoNewPotato
<1>4. ASSUME NEW p \in Procs, NoNewPotato(inbox[p], inbox'[p])
      PROVE  \A k \in DOMAIN inbox'[p] : IsPotato(inbox'[p][k]) =>
                /\ WalksAt(inbox'[p][k], hops', faults')
                /\ IsWalk(Append(inbox'[p][k].walk, index'[p]))
  <2>1. DOMAIN <<>> = {}
    OBVIOUS
  <2>2. DOMAIN inbox[p] # {} => index'[p] = index[p]
    BY <1>0, <1>1, <2>1 DEF PlayersInv
  <2> QED
    BY <1>0, <1>2, <1>4, <2>2, TracksParts DEF NoNewPotato
<1>5. UNCHANGED report => ReportIsComplete'
  BY <1>0, <1>1 DEF TracksInv, ReportIsComplete, Agrees
<1>6. CASE SendFirst
  <2> DEFINE m == Potato("SEND_P", hops, 0, -1, <<>>, <<>>)
  <2>1. PICK q \in Procs : Listens(q) /\ inbox' = [inbox EXCEPT ![q] = Append(@, m)]
    BY <1>6, Delivered DEF SendFirst
  <2>2. mphase = "send" /\ UNCHANGED <<backlog, report, index>>
    BY <1>6 DEF SendFirst
  <2>3. m \in ToPlayer
    <3>1. 0 \in Nat /\ -1 \in Int /\ <<>> \in Seq(Int) /\ <<>> \in Seq(Indexes)
      OBVIOUS
    <3> QED
      BY <1>0, <3>1, MessageTypes
  <2>4. /\ m.type = "SEND_P" /\ m.hops = hops /\ m.sent_times = 0
        /\ m.track = <<>> /\ m.walk = <<>>
    BY DEF Potato
  <2> HIDE DEF m
  <2>5. hops > 0
    BY <1>0, <2>2 DEF PhasesInv
  <2>6. WalksAt(m, hops', faults')
    <3>1. Len(<<>>) = 0 /\ DOMAIN <<>> = {}
      OBVIOUS
    <3>2. IsWalk(<<>>)
      BY <3>1 DEF IsWalk
    <3> QED
      BY <1>0, <1>1, <2>4, <2>5, <3>1, <3>2 DEF WalksAt
  <2>7. IsWalk(Append(m.walk, index'[q]))
    <3>1. Len(Append(<<>>, index'[q])) = 1
      OBVIOUS
    <3> QED
      BY <2>4, <3>1 DEF IsWalk
  <2>8. /\ inbox'[q] = Append(inbox[q], m) /\ inbox[q] \in Seq(ToPlayer)
        /\ \A r \in Procs \ {q} : inbox'[r] = inbox[r]
    BY <1>0, <2>1
  <2>9. /\ DOMAIN inbox'[q] = DOMAIN inbox[q] \cup {Len(inbox[q]) + 1}
        /\ \A k \in DOMAIN inbox[q] : inbox'[q][k] = inbox[q][k]
        /\ inbox'[q][Len(inbox[q]) + 1] = m
    BY <2>3, <2>8, AppendAt
  <2>10. \A k \in DOMAIN inbox'[q] : IsPotato(inbox'[q][k]) =>
            /\ WalksAt(inbox'[q][k], hops', faults')
            /\ IsWalk(Append(inbox'[q][k].walk, index'[q]))
    BY <1>0, <1>2, <2>2, <2>6, <2>7, <2>9, TracksParts
  <2> QED
    BY <1>3, <1>4, <1>5, <2>2, <2>8, <2>10, NoNewSame, TracksParts
<1>7. ASSUME NEW p \in Procs, PassPotato(p) PROVE TracksInv'
  <2> DEFINE h == Head(inbox[p])
  <2>1. /\ pstate[p] = "ring" /\ index[p] \in Indexes /\ inbox[p] # <<>>
        /\ h \in PotatoOf("SEND_P") /\ h.hops > 0 /\ h = inbox[p][1]
        /\ 1 \in DOMAIN inbox[p]
    BY <1>7, PassFacts
  <2>2. PICK got \in Received(h.track) : LET m == Passed(h, got, index[p]) IN
           /\ Receives(h.track, got)
           /\ \/ inbox' = Accepted(p) /\ UNCHANGED backlog
              \/ /\ m.type = "SEND_P" /\ m \in ToPlayer
                 /\ \E k \in {left[p], right[p]} : \E q \in Procs :
                       /\ index[q] = k /\ Listens(q) /\ k \in Indexes
                       /\ inbox' = [Accepted(p) EXCEPT ![q] = Append(@, m)]
                 /\ UNCHANGED backlog
              \/ /\ m.type = "REPORT_P" /\ m \in ToMaster
                 /\ inbox' = Accepted(p)
                 /\ backlog' = Append(backlog, m)
    <3> HIDE DEF h
    <3> QED
      BY <1>7, PassFacts DEF h
  <2> DEFINE m == Passed(h, got, index[p])
  <2>3. UNCHANGED <<index, report, pstate, left, right, mphase>>
    BY <1>7 DEF PassPotato
  <2>4. IsPotato(h)
    BY <2>1 DEF PotatoOf, IsPotato
  <2>5. WalksAt(h, hops, faults) /\ IsWalk(Append(h.walk, index[p]))
    BY <1>0, <2>1, <2>4, TracksParts
  <2>6. WalksAt(m, hops', faults') /\ m.walk = Append(h.walk, index[p])
    <3> HIDE DEF h
    <3> QED
      BY <1>1, <2>1, <2>2, <2>5, PassedWalks
  <2>7. h.walk \in Seq(Indexes)
    BY <2>1 DEF PotatoOf
  <2>8. /\ left[p] \in {LeftOf(index[p]), Nowhere}
        /\ right[p] \in {RightOf(index[p]), Nowhere}
        /\ Nowhere \notin Indexes
    BY <1>0, <2>1 DEF NeighborsKnown, Indexes, Nowhere
  <2> HIDE DEF h, m
  <2>9. /\ Accepted(p) \in [Procs -> Seq(ToPlayer)]
        /\ \A r \in Procs : NoNewPotato(inbox[r], Accepted(p)[r])
    <3>1. /\ Accepted(p)[p] = Tail(inbox[p]) /\ inbox[p] \in Seq(ToPlayer)
          /\ \A r \in Procs \ {p} : Accepted(p)[r] = inbox[r]
      BY <1>0 DEF Accepted
    <3>2. NoNewPotato(inbox[p], Tail(inbox[p]))
      BY <2>1, <3>1, NoNewTail
    <3>3. Accepted(p) \in [Procs -> Seq(ToPlayer)]
      BY <1>0, <2>1, QueuesTyped DEF Accepted
    <3> QED
      BY <3>1, <3>2, <3>3, NoNewSame
  <2>10. CASE inbox' = Accepted(p) /\ UNCHANGED backlog
    BY <1>3, <1>4, <1>5, <2>3, <2>9, <2>10, NoNewSame, TracksParts
  <2>11. ASSUME m \in ToPlayer, NEW q \in Procs, index[q] \in {left[p], right[p]},
                index[q] \in Indexes,
                inbox' = [Accepted(p) EXCEPT ![q] = Append(@, m)], UNCHANGED backlog
         PROVE  TracksInv'
    <3>1. IsWalk(Append(m.walk, index'[q]))
      BY <2>1, <2>3, <2>5, <2>6, <2>7, <2>8, <2>11, WalkOn
    <3>2. /\ inbox'[q] = Append(Accepted(p)[q], m) /\ Accepted(p)[q] \in Seq(ToPlayer)
          /\ \A r \in Procs \ {q} : inbox'[r] = Accepted(p)[r]
      BY <2>9, <2>11
    <3> DEFINE b == Accepted(p)[q]
    <3>3. /\ DOMAIN inbox'[q] = DOMAIN b \cup {Len(b) + 1}
          /\ \A k \in DOMAIN b : inbox'[q][k] = b[k]
          /\ inbox'[q][Len(b) + 1] = m
      BY <2>11, <3>2, AppendAt
    <3>4. \A k \in DOMAIN b : IsPotato(b[k]) =>
             WalksAt(b[k], hops', faults') /\ IsWalk(Append(b[k].walk, index'[q]))
      BY <1>0, <1>2, <2>3, <2>9, TracksParts DEF NoNewPotato
    <3>5. \A k \in DOMAIN inbox'[q] : IsPotato(inbox'[q][k]) =>
             /\ WalksAt(inbox'[q][k], hops', faults')
             /\ IsWalk(Append(inbox'[q][k].walk, index'[q]))
      BY <2>6, <3>1, <3>3, <3>4
    <3> QED
      BY <1>3, <1>4, <1>5, <2>3, <2>9, <2>11, <3>2, <3>5, NoNewSame, TracksParts
  <2>12. ASSUME m \in ToMaster, inbox' = Accepted(p), backlog' = Append(backlog, m)
         PROVE  TracksInv'
    <3>1. /\ DOMAIN backlog' = DOMAIN backlog \cup {Len(backlog) + 1}
          /\ \A k \in DOMAIN backlog : backlog'[k] = backlog[k]
          /\ backlog'[Len(backlog) + 1] = m
      BY <1>0, <2>12, AppendAt
    <3>2. \A k \in DOMAIN backlog' :
             IsPotato(backlog'[k]) => WalksAt(backlog'[k], hops', faults')
      BY <1>0, <1>2, <2>6, <3>1, TracksParts
    <3> QED
      BY <1>4, <1>5, <2>3, <2>9, <2>12, <3>2, TracksParts
  <2> QED
    BY <2>2, <2>10, <2>11, <2>12 DEF m
<1>8. CASE AcceptReport /\ Head(backlog).type = "REPORT_P"
  <2> DEFINE h == Head(backlog)
  <2>1. backlog # <<>> /\ UNCHANGED <<index, inbox>> /\ backlog' = Tail(backlog)
    BY <1>8 DEF AcceptReport
  <2>2. PICK got \in Received(h.track) :
           /\ Receives(h.track, got)
           /\ report' = [h EXCEPT !.track = got]
    BY <1>8 DEF AcceptReport
  <2>3. h \in ToMaster /\ 1 \in DOMAIN backlog /\ h = backlog[1]
    BY <1>0, <2>1, TailAt
  <2>4. h \in PotatoOf("REPORT_P") /\ IsPotato(h) /\ h.type = "REPORT_P"
    BY <1>8, <2>3 DEF ToMaster, IsPotato
  <2>5. WalksAt(h, hops, faults)
    BY <1>0, <2>3, <2>4, TracksParts
  <2>6. h.track \in Seq(Int) /\ h.walk \in Seq(Indexes) /\ h.hops \in Nat
        /\ h.sent_times \in Nat
    BY <2>4 DEF PotatoOf
  <2>7. report'.track = got /\ report'.walk = h.walk
    BY <2>2, <2>4 DEF PotatoOf
  <2> HIDE DEF h
  <2>8. /\ got \in Seq(Int) /\ Len(got) = Len(h.walk)
        /\ \A k \in DOMAIN h.walk : got[k] \in {h.walk[k], 0, Torn}
        /\ faults' = 0 => got = h.walk
    <3>1. Agrees(h.track, h.walk)
      BY <2>5 DEF WalksAt, Agrees
    <3> QED
      BY <1>1, <2>2, <2>6, <3>1, ReceivedAgrees
  <2>9. Len(h.walk) = hops' /\ IsWalk(h.walk)
    BY <1>1, <2>4, <2>5, <2>6 DEF WalksAt
  <2>10. ReportIsComplete'
    BY <2>7, <2>8, <2>9 DEF ReportIsComplete, Agrees
  <2> QED
    BY <1>0, <1>3, <1>4, <2>1, <2>10, NoNewSame, NoNewTail, TracksParts
<1>9. CASE ~SendFirst /\ (\A p \in Procs : ~PassPotato(p)) /\ UNCHANGED report
  BY <1>3, <1>4, <1>5, <1>9, WhoSendsPotatoes, TracksParts
<1>10. CASE UNCHANGED report
  BY <1>6, <1>7, <1>9, <1>10
<1> QED
  BY <1>8, <1>10
  DEF Next, MasterStep, PlayerStep, Fault, MasterListen, AcceptPlayer, Notify,
      ChooseFirst, SendFirst, Retry, GiveUp, AcceptReport, DropReport, Shutdown,
      MasterExit, AcceptPlayerFails, OpenListenerFails, OpenListenerRefused,
      SayHello, RetryHello,
      OpenListener, GetNeighbors, GetNeighborsFails, PassPotato, Leave, DropMessage

-----------------------------------------------------------------------------
(***************************************************************************)
(* The invariant.                                                          *)
(***************************************************************************)
LEMMA InitIInv ==
    ASSUME Init
    PROVE  IInv
<1>1. DOMAIN <<>> = {} /\ (\A S : <<>> \in Seq(S)) /\ 0 \in Indexes /\ NoIndex \notin Indexes
  BY DEF Indexes, NoIndex
<1>2. TypeOK
  BY <1>1, FaultsAssumption DEF Init, TypeOK
<1>3. PlayersInv
  BY <1>1 DEF Init, PlayersInv, Listens
<1>4. HellosInv
  BY <1>1 DEF Init, HellosInv
<1>5. IndexesInv
  <2>1. Guessed = {}
    BY DEF Init, Guessed, Unreceived, Indexes, NoIndex, Garbage
  <2> QED
    BY <1>1, <2>1 DEF Init, IndexesInv, IndexesAreGiven, Listens
<1>6. PhasesInv
  BY <1>1 DEF Init, PhasesInv, OnePotatoAtMost, NoPotato, Free, One
<1>7. NeighborsInv
  BY DEF Init, NeighborsInv, Listens
<1>9. NeighborsKnown
  BY <1>1 DEF Init, NeighborsKnown
<1>8. TracksInv
  BY <1>1 DEF Init, TracksInv, ReportIsComplete
<1> QED
  BY <1>2, <1>3, <1>4, <1>5, <1>6, <1>7, <1>8, <1>9 DEF IInv

LEMMA NextKeepsIInv ==
    ASSUME IInv, [Next]_vars
    PROVE  IInv'
<1>1. CASE Next
  BY <1>1, TypesKept, PlayersKept, HellosKept, IndexesKept, PhasesKept,
     KnownKept, NeighborsKept, TracksKept DEF IInv
<1>2. CASE UNCHANGED vars
  <2> USE <1>2 DEF vars, mvars, pvars
  <2>1. TypeOK'
    BY DEF IInv, TypeOK
  <2>2. PlayersInv'
    BY DEF IInv, PlayersInv, Listens
  <2>3. HellosInv'
    BY DEF IInv, HellosInv
  <2>4. IndexesInv'
    BY DEF IInv, IndexesInv, IndexesAreGiven, Guessed, Listens
  <2>5. PhasesInv'
    BY DEF IInv, PhasesInv, OnePotatoAtMost, NoPotato
  <2>6. NeighborsInv'
    BY DEF IInv, NeighborsInv, Listens, Notified, NothingSent, Alone, Guessed
  <2>8. NeighborsKnown'
    BY DEF IInv, NeighborsKnown, LeftOf, RightOf
  <2>7. TracksInv'
    BY DEF IInv, TracksInv, TracksItsWalk, ReportIsComplete, Agrees
  <2> QED
    BY <2>1, <2>2, <2>3, <2>4, <2>5, <2>6, <2>7, <2>8 DEF IInv
<1> QED
  BY <1>1, <1>2

\* The inductive invariant holds in every state of the ring.
THEOREM Invariance == Spec => []IInv
<1>1. Init => IInv
  BY InitIInv
<1>2. IInv /\ [Next]_vars => IInv'
  BY NextKeepsIInv
<1> QED
  BY <1>1, <1>2, PTL DEF Spec

-----------------------------------------------------------------------------
(***************************************************************************)
(* What the runs check, for every ring.                                    *)
(***************************************************************************)
\* Whoever is slow and whatever call fails: the master gives an index once, only
\* a failed first connection lets a process take one it was not given, and a
\* player that has the potato knows no other addresses than its neighbours'; both
\* of them, and before the potato comes, unless calls failed or its index was
\* taken by another (init_master, send_neighbors_info, init_player,
\* get_neighbors_info).
THEOREM RingSound == Spec => []RingIsSound
<1>1. IInv => RingIsSound
  <2> SUFFICES ASSUME IInv PROVE RingIsSound
    OBVIOUS
  <2>1. /\ TypeOK /\ IndexesAreGiven /\ PlayersInv /\ PhasesInv
        /\ NeighborsInv /\ NeighborsKnown
    BY DEF IInv, IndexesInv
  <2>2. ASSUME NEW p \in Procs, NEW k \in DOMAIN inbox[p], inbox[p][k].type = "SEND_P"
        PROVE  /\ Listens(p) /\ Notified(index[p]) /\ index[p] \in Indexes
               /\ (\A q \in Guessed : index[q] # index[p]) => Alone(p)
    <3>1. ~NoPotato
      BY <2>2 DEF NoPotato, Free, IsPotato
    <3>2. inbox[p] # <<>>
      <4>1. DOMAIN <<>> = {}
        OBVIOUS
      <4> QED
        BY <2>2, <4>1
    <3> QED
      BY <2>1, <3>1, <3>2 DEF PhasesInv, PlayersInv, Notified, Alone
  <2>3. ASSUME NEW p \in Procs, NEW k \in DOMAIN inbox[p], inbox[p][k].type = "SEND_P",
               pstate[p] = "ring"
        PROVE  /\ left[p] \in {(index[p] - 1) % N, Nowhere}
               /\ right[p] \in {(index[p] + 1) % N, Nowhere}
               /\ faults = 0 /\ Guessed = {} => Nowhere \notin {left[p], right[p]}
    <3>1. /\ left[p] \in {LeftOf(index[p]), Nowhere}
          /\ right[p] \in {RightOf(index[p]), Nowhere}
      BY <2>1, <2>3 DEF NeighborsKnown
    <3>2. faults = 0 /\ Guessed = {} => Nowhere \notin {left[p], right[p]}
      BY <2>1, <2>2, <2>3 DEF NeighborsInv
    <3> QED
      BY <2>2, <2>3, <3>1, <3>2, Neighbours
  <2>4. ASSUME NEW p \in Procs, NEW k \in DOMAIN inbox[p], inbox[p][k].type = "SEND_P",
               pstate[p] = "neighbors", \A q \in Guessed : index[q] # index[p]
        PROVE  Head(inbox[p]).type = "NEIGHBORS"
    BY <2>1, <2>2, <2>4 DEF NeighborsInv
  <2> QED
    BY <2>1, <2>3, <2>4 DEF RingIsSound, NeighborsBeforePotato
<1> QED
  BY <1>1, Invariance, PTL

\* Where a potato is.
LEMMA WherePotatoes ==
    ASSUME TypeOK, NEW q \in Potatoes
    PROVE  \/ /\ q[1] = "master" /\ q[2] \in DOMAIN backlog
              /\ q = <<q[1], q[2]>>
              /\ MessageAt(q) = backlog[q[2]] /\ IsPotato(backlog[q[2]])
           \/ /\ q[1] \in Procs /\ q[2] \in DOMAIN inbox[q[1]]
              /\ q = <<q[1], q[2]>>
              /\ MessageAt(q) = inbox[q[1]][q[2]] /\ IsPotato(inbox[q[1]][q[2]])
<1>1. PICK type \in {"SEND_P", "REPORT_P"} : q \in InFlight(type)
  BY DEF Potatoes
<1>2. CASE q \in {<<"master", k>> : k \in DOMAIN backlog} /\ backlog[q[2]].type = type
  BY <1>2, ProcsAssumption DEF MessageAt, IsPotato
<1>3. CASE /\ q \in UNION {{<<p, k>> : k \in DOMAIN inbox[p]} : p \in Procs}
           /\ inbox[q[1]][q[2]].type = type
  <2>1. PICK p \in Procs : q \in {<<p, k>> : k \in DOMAIN inbox[p]}
    BY <1>3
  <2>2. PICK k \in DOMAIN inbox[p] : q = <<p, k>>
    BY <2>1
  <2> QED
    BY <1>3, <2>2 DEF MessageAt, IsPotato
<1> QED
  BY <1>1, <1>2, <1>3 DEF InFlight

\* Wherever the potato is, its track names the players it has been with, in
\* their order around the ring, but for what recv() lost (listen_msg).
THEOREM TracksAreWalks == Spec => []TrackIsTheWalk
<1>1. IInv => TrackIsTheWalk
  BY WherePotatoes DEF IInv, TracksInv, TrackIsTheWalk
<1> QED
  BY <1>1, Invariance, PTL

\* What the master prints at the end has one entry per hop (process_potato).
THEOREM ReportComplete == Spec => []ReportIsComplete
<1>1. IInv => ReportIsComplete
  BY DEF IInv, TracksInv
<1> QED
  BY <1>1, Invariance, PTL

\* There is one potato at most, and none when the master has a report or has
\* told a player to leave (process_potato, shutdown_nk).
THEOREM AtMostOnePotato == Spec => []OnePotato
<1>1. IInv => OnePotato
  <2> SUFFICES ASSUME IInv PROVE OnePotato
    OBVIOUS
  <2>1. TypeOK /\ PhasesInv
    BY DEF IInv
  <2>2. \A q, r \in Potatoes : q = r
    <3> SUFFICES ASSUME NEW q \in Potatoes, NEW r \in Potatoes PROVE q = r
      OBVIOUS
    <3>1. CASE One(backlog) /\ \A p \in Procs : Free(inbox[p])
      <4>1. /\ q[1] = "master" /\ q[2] \in DOMAIN backlog
            /\ q = <<q[1], q[2]>> /\ IsPotato(backlog[q[2]])
        BY <2>1, <3>1, WherePotatoes DEF Free
      <4>2. /\ r[1] = "master" /\ r[2] \in DOMAIN backlog
            /\ r = <<r[1], r[2]>> /\ IsPotato(backlog[r[2]])
        BY <2>1, <3>1, WherePotatoes DEF Free
      <4>3. q[2] = r[2]
        BY <3>1, <4>1, <4>2 DEF One
      <4> QED
        BY <4>1, <4>2, <4>3
    <3>2. ASSUME Free(backlog), NEW p \in Procs, One(inbox[p]),
                 \A s \in Procs \ {p} : Free(inbox[s])
          PROVE  q = r
      <4>1. /\ q[1] = p /\ q[2] \in DOMAIN inbox[p]
            /\ q = <<q[1], q[2]>> /\ IsPotato(inbox[p][q[2]])
        BY <2>1, <3>2, WherePotatoes DEF Free
      <4>2. /\ r[1] = p /\ r[2] \in DOMAIN inbox[p]
            /\ r = <<r[1], r[2]>> /\ IsPotato(inbox[p][r[2]])
        BY <2>1, <3>2, WherePotatoes DEF Free
      <4>3. q[2] = r[2]
        BY <3>2, <4>1, <4>2 DEF One
      <4> QED
        BY <4>1, <4>2, <4>3
    <3> QED
      BY <2>1, <3>1, <3>2 DEF PhasesInv, OnePotatoAtMost
  <2>3. Cardinality(Potatoes) <= 1
    <3>1. CASE Potatoes = {}
      BY <3>1, FS_EmptySet
    <3>2. ASSUME NEW q \in Potatoes PROVE Cardinality(Potatoes) <= 1
      <4>1. Potatoes = {q}
        BY <2>2
      <4> QED
        BY <4>1, FS_Singleton
    <3> QED
      BY <3>1, <3>2
  <2>4. NoPotato => Potatoes = {}
    BY <2>1, WherePotatoes DEF NoPotato, Free
  <2>5. InFlight("EXIT") # {} => mphase \in {"shutdown", "closing", "exited"}
    <3> SUFFICES ASSUME NEW q \in InFlight("EXIT")
                 PROVE  mphase \in {"shutdown", "closing", "exited"}
      OBVIOUS
    <3>1. CASE q \in {<<"master", k>> : k \in DOMAIN backlog} /\ backlog[q[2]].type = "EXIT"
      <4>1. PICK k \in DOMAIN backlog : backlog[k].type = "EXIT"
        BY <3>1
      <4>2. backlog[k] \in ToMaster
        BY <2>1 DEF TypeOK
      <4> QED
        BY <4>1, <4>2 DEF ToMaster, PotatoOf
    <3>2. CASE /\ q \in UNION {{<<p, k>> : k \in DOMAIN inbox[p]} : p \in Procs}
               /\ inbox[q[1]][q[2]].type = "EXIT"
      <4>1. PICK p \in Procs : q \in {<<p, k>> : k \in DOMAIN inbox[p]}
        BY <3>2
      <4>2. PICK k \in DOMAIN inbox[p] : inbox[p][k].type = "EXIT"
        BY <3>2, <4>1
      <4> QED
        BY <2>1, <4>2 DEF PhasesInv
    <3> QED
      BY <3>1, <3>2 DEF InFlight
  <2>6. mphase \in {"shutdown", "closing", "exited"} => NoPotato
    BY <2>1 DEF PhasesInv
  <2>7. report # NoReport => mphase \in {"shutdown", "closing", "exited"}
    BY <2>1 DEF PhasesInv
  <2> QED
    BY <2>3, <2>4, <2>5, <2>6, <2>7 DEF OnePotato
<1> QED
  BY <1>1, Invariance, PTL
=============================================================================
