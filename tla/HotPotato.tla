------------------------------ MODULE HotPotato ------------------------------
(***************************************************************************)
(* P3: a master and its players pass a potato around a ring over TCP.      *)
(*                                                                         *)
(* Every message has a connection of its own: the client connects, sends   *)
(* and closes without waiting for anything, so that is one step, which     *)
(* appends to the server's queue of connections not yet accepted.  It      *)
(* fails if nobody listens on the port.  The one connection on which both  *)
(* sides speak is a player's first one (a "hello"): the player sends       *)
(* nothing and waits for its index.                                        *)
(*                                                                         *)
(* process_potato, get_neighbors_info and listen_msg pass accept() an      *)
(* addrlen they never set.  If what is on the stack is negative, accept()  *)
(* takes the connection from the queue, drops it and fails, and the value  *)
(* stays; else the first call repairs it.  AddrlenOutcomes are the cases   *)
(* considered, one choice per call of these functions.                     *)
(***************************************************************************)
EXTENDS Integers, Sequences, FiniteSets, Functions

CONSTANTS
    Procs,            \* the player processes that may be started
    Host,             \* the host each of them runs on
    N,                \* master_engine->player_number
    MaxHops,          \* bound on the hops argument of the master
    MaxTry,           \* MAX_TRY_CONN: retries after a first failed connect
    Block,            \* SEND_BLOCK, in entries of a track
    MaxFaults,        \* bound on the system calls that fail, and on the calls of
                      \* recv() that return before all is there
    AddrlenOutcomes,  \* subset of BOOLEAN: TRUE is a usable value
    Timely            \* TRUE: nobody runs out of retries while the other side
                      \* is about to open its listener

ASSUME ArgumentsAssumption ==
    N \in Nat /\ N > 1 /\ MaxHops \in Nat /\ MaxTry \in Nat /\ Block \in Nat \ {0}
\* The master is not one of the players ("master" names its queue below).
ASSUME ProcsAssumption == "master" \notin Procs
ASSUME HostAssumption == DOMAIN Host = Procs
ASSUME FaultsAssumption == MaxFaults \in Nat
ASSUME AddrlenAssumption == AddrlenOutcomes \in SUBSET BOOLEAN /\ AddrlenOutcomes # {}

VARIABLES
    hops,       \* the master's hops argument
    mphase,     \* what the master is doing
    i,          \* its loop index, or the player it sends the potato to
    member,     \* player_list: the process whose host an entry has, if any
    tries,      \* failed connects to player i
    backlog,    \* connections to the master not yet accepted
    maddr,      \* addrlen is usable in process_potato
    report,     \* the report whose track the master prints
    pstate,     \* what each player is doing
    index,      \* player_engine->index
    ptries,     \* failed connects to the master
    left, right,\* left_index and right_index
    inbox,      \* connections to the player not yet accepted
    paddr,      \* addrlen is usable in the player's current function
    faults      \* system calls that have failed, or returned too little

mvars == <<hops, mphase, i, member, tries, backlog, maddr, report>>
pvars == <<pstate, index, ptries, left, right, inbox, paddr>>
vars == <<mvars, pvars, faults>>

Indexes == 0 .. N - 1
NoIndex == -1        \* what player_engine->index starts with
Garbage == -2        \* an index never received that is no player's
Nowhere == -3        \* a neighbour with an empty host: no connect succeeds
Torn == -4           \* an entry made of the bytes of two
Hello(p) == [type |-> "HELLO", from |-> p]
Neighbors(l, r) == [type |-> "NEIGHBORS", left |-> l, right |-> r]
Exit == [type |-> "EXIT"]
\* A SEND_P or REPORT_P message and the track that follows it.  The ghost walk
\* is the track as it would be if nothing were lost on the way.
Potato(type, h, sent, sender, track, walk) ==
    [type |-> type, hops |-> h, sent_times |-> sent, sender |-> sender,
     track |-> track, walk |-> walk]
NoReport == Potato("NONE", 0, 0, -1, <<>>, <<>>)

Init ==
    /\ hops \in 0 .. MaxHops
    /\ mphase = "start" /\ i = 0 /\ tries = 0
    /\ member = [k \in Indexes |-> {}]
    /\ backlog = <<>> /\ maddr = TRUE /\ report = NoReport
    /\ pstate = [p \in Procs |-> "connecting"]
    /\ index = [p \in Procs |-> NoIndex]
    /\ ptries = [p \in Procs |-> 0]
    /\ left = [p \in Procs |-> NoIndex]
    /\ right = [p \in Procs |-> NoIndex]
    /\ inbox = [p \in Procs |-> <<>>]
    /\ paddr = [p \in Procs |-> TRUE]
    /\ faults = 0

\* Who answers at the address the master has for player k: the process that
\* listens on the port of index k, on the host that connected as player k.
Listens(p) == pstate[p] \in {"neighbors", "ring"}
Owners(k) ==
    {p \in Procs : /\ index[p] = k /\ Listens(p)
                   /\ k \in Indexes /\ \E q \in member[k] : Host[p] = Host[q]}

\* The index of a player whose first connection died: recv() fails, and the
\* variable it should have set holds what was on the stack, maybe the index of
\* another.
Unreceived == Indexes \cup {Garbage}

-----------------------------------------------------------------------------
(***************************************************************************)
(* The master.                                                             *)
(***************************************************************************)
MasterListen ==
    /\ mphase = "start"
    /\ mphase' = "init"
    /\ UNCHANGED <<hops, i, member, tries, backlog, maddr, report, pvars, faults>>

NextPlayerForgotten(phase) ==    \* mutant: i is not advanced
    tries' = 0 /\ i' = i /\ mphase' = mphase

\* After a pass of the loop over the players: the next one, or the next phase.
NextPlayer(phase) ==
    /\ tries' = 0
    /\ \/ i + 1 < N /\ i' = i + 1 /\ mphase' = mphase
       \/ i + 1 = N /\ i' = 0 /\ mphase' = phase

\* init_master: the connection at the front is a player's; it gets index i,
\* and its host is noted.
AcceptPlayer ==
    /\ mphase = "init"
    /\ backlog # <<>>
    /\ LET p == Head(backlog).from
       IN  /\ index' = [index EXCEPT ![p] = i]
           /\ member' = [member EXCEPT ![i] = {p}]
           /\ pstate' = [pstate EXCEPT ![p] = "assigned"]
    /\ backlog' = Tail(backlog)
    /\ NextPlayer("notify")
    /\ UNCHANGED <<hops, maddr, report, ptries, left, right, inbox, paddr, faults>>

\* The player whose hello is at the front, or a set of players, never gets an
\* answer, and goes on with some index.
Orphan(ps) ==
    /\ \E k \in [ps -> Unreceived] :
          index' = [p \in Procs |-> IF p \in ps THEN k[p] ELSE index[p]]
    /\ pstate' = [p \in Procs |-> IF p \in ps THEN "assigned" ELSE pstate[p]]

\* A failed accept() counts as a player all the same (i++), one without a host.
\* The connection stays queued (EMFILE, EINTR), or it was the one that failed
\* (ECONNABORTED).
AcceptPlayerFails ==
    /\ mphase = "init"
    /\ faults < MaxFaults
    /\ faults' = faults + 1
    /\ NextPlayer("notify")
    /\ \/ UNCHANGED <<backlog, pstate, index>>
       \/ /\ backlog # <<>>
          /\ backlog' = Tail(backlog)
          /\ Orphan({Head(backlog).from})
    /\ UNCHANGED <<hops, member, maddr, report, ptries, left, right, inbox, paddr>>

\* send_neighbors_info: the ring is 0, 1, ... N-1 and back to 0.
RightOfUnwrapped(k) == k + 1        \* mutant: the ring is not closed
LeftOfSelf(k) == IF k = 0 THEN N - 1 ELSE k    \* mutant: off by one
LeftOf(k) == IF k = 0 THEN N - 1 ELSE k - 1
RightOf(k) == IF k = N - 1 THEN 0 ELSE k + 1

\* connect() to player k and one message.
SendTo(k, msg) ==
    \E p \in Owners(k) : inbox' = [inbox EXCEPT ![p] = Append(@, msg)]

Notify ==
    /\ mphase = "notify"
    /\ SendTo(i, Neighbors(LeftOf(i), RightOf(i)))
    /\ NextPlayer(IF hops = 0 THEN "shutdown" ELSE "choose")
    /\ UNCHANGED <<hops, member, backlog, maddr, report, pstate, index, ptries,
                   left, right, paddr, faults>>

\* process_potato: a player by chance, and whatever addrlen holds.
ChooseFirst ==
    /\ mphase = "choose"
    /\ mphase' = "send"
    /\ i' \in Indexes
    /\ maddr' \in AddrlenOutcomes
    /\ UNCHANGED <<hops, member, tries, backlog, report, pvars, faults>>

AfterSendAgain == "send"    \* mutant: what was sent is sent again
AfterSend == "report"

SendFirst ==
    /\ mphase = "send"
    /\ SendTo(i, Potato("SEND_P", hops, 0, -1, <<>>, <<>>))
    /\ mphase' = AfterSend
    /\ tries' = 0
    /\ UNCHANGED <<hops, i, member, backlog, maddr, report, pstate, index,
                   ptries, left, right, paddr, faults>>

\* The connect to player i fails: sleep and retry ...
Retry ==
    /\ mphase \in {"notify", "send"}
    /\ Owners(i) = {}
    /\ tries < MaxTry
    /\ tries' = tries + 1
    /\ UNCHANGED <<hops, mphase, i, member, backlog, maddr, report, pvars, faults>>

GiveUpOnPlayer ==    \* mutant: the master goes on without the player
    /\ mphase = "notify" /\ Owners(i) = {} /\ tries = MaxTry
    /\ NextPlayer("choose")
    /\ UNCHANGED <<hops, member, backlog, maddr, report, pvars, faults>>

\* ... and in the end shut the ring down.
GiveUp ==
    /\ mphase \in {"notify", "send"}
    /\ Owners(i) = {}
    /\ tries = MaxTry
    /\ Timely => \A p \in member[i] : pstate[p] # "assigned"
    /\ mphase' = "shutdown"
    /\ i' = 0
    /\ tries' = 0
    /\ UNCHANGED <<hops, member, backlog, maddr, report, pvars, faults>>

(***************************************************************************)
(* What recv() makes of a track.  Up to Block entries are read with one    *)
(* call: what has not arrived by then stays zero.  A longer track is read  *)
(* on until all of it has come, but a call that returns a part of an entry *)
(* leaves the pointer before it, so from there on the entries are made of  *)
(* bytes of two, and a zero stays at the end.                              *)
(***************************************************************************)
CutUnset(track, k) ==    \* mutant: no memset
    [j \in DOMAIN track |-> IF j <= k THEN track[j] ELSE Garbage]
Cut(track, k) == [j \in DOMAIN track |-> IF j <= k THEN track[j] ELSE 0]
Shifted(track, k) ==
    [j \in DOMAIN track |->
        IF j <= k THEN track[j]
        ELSE IF j = Len(track) \/ track[j + 1] = 0 THEN 0 ELSE Torn]
Received(track) ==
    {track} \cup (IF Len(track) <= Block
                  THEN {Cut(track, k) : k \in 1 .. Len(track)}
                  ELSE {Shifted(track, k) : k \in 0 .. Len(track) - 1})

\* The track is got as it was sent, or a call returned too early.
Receives(track, got) ==
    /\ got \in Received(track)
    /\ faults' = faults + (IF got = track THEN 0 ELSE 1)
    /\ faults' <= MaxFaults

\* After the potato is sent the master accepts one connection at a time and
\* reads a message from it.  A player that came too late sends none: it waits
\* for an index, and the master waits for its message, for ever.
AcceptReport ==
    /\ mphase = "report"
    /\ maddr
    /\ backlog # <<>>
    /\ backlog' = Tail(backlog)
    /\ \/ /\ Head(backlog).type = "REPORT_P"
          /\ \E got \in Received(Head(backlog).track) :
                /\ Receives(Head(backlog).track, got)
                /\ report' = [Head(backlog) EXCEPT !.track = got]
          /\ mphase' = "shutdown"
          /\ i' = 0
       \/ /\ Head(backlog).type = "HELLO"
          /\ mphase' = "stuck"
          /\ UNCHANGED <<i, report, faults>>
    /\ UNCHANGED <<hops, member, tries, maddr, pvars>>

\* With an unusable addrlen every accept() drops what it took.
DropReport ==
    /\ mphase = "report"
    /\ ~maddr
    /\ backlog # <<>>
    /\ backlog' = Tail(backlog)
    /\ \/ /\ Head(backlog).type = "REPORT_P"
          /\ UNCHANGED <<pstate, index>>
       \/ /\ Head(backlog).type = "HELLO"
          /\ Orphan({Head(backlog).from})
    /\ UNCHANGED <<hops, mphase, i, member, tries, maddr, report, ptries, left, right,
                   inbox, paddr, faults>>

\* shutdown_nk: one EXIT per player; one that cannot be reached is skipped.
Shutdown ==
    /\ mphase = "shutdown"
    /\ \/ SendTo(i, Exit)
       \/ Owners(i) = {} /\ UNCHANGED inbox
    /\ NextPlayer("closing")
    /\ UNCHANGED <<hops, member, backlog, maddr, report, pstate, index, ptries,
                   left, right, paddr, faults>>

\* exit(0) resets the connections nobody accepted.
Waiting == {p \in Procs : \E k \in DOMAIN backlog : backlog[k] = Hello(p)}
MasterExit ==
    /\ mphase = "closing"
    /\ mphase' = "exited"
    /\ backlog' = <<>>
    /\ Orphan(Waiting)
    /\ UNCHANGED <<hops, i, member, tries, maddr, report, ptries, left, right, inbox,
                   paddr, faults>>

-----------------------------------------------------------------------------
(***************************************************************************)
(* A player.                                                               *)
(***************************************************************************)
MasterListens == mphase \notin {"start", "exited"}

\* init_player: connect to the master and wait for the index.
SayHello(p) ==
    /\ pstate[p] = "connecting"
    /\ MasterListens
    /\ pstate' = [pstate EXCEPT ![p] = "waiting"]
    /\ backlog' = Append(backlog, Hello(p))
    /\ UNCHANGED <<hops, mphase, i, member, tries, maddr, report, index, ptries,
                   left, right, inbox, paddr, faults>>

RetryHello(p) ==
    /\ pstate[p] = "connecting"
    /\ ~MasterListens
    /\ \/ /\ ptries[p] < MaxTry
          /\ ~(Timely /\ mphase = "start")
          /\ ptries' = [ptries EXCEPT ![p] = @ + 1]
          /\ UNCHANGED pstate
       \/ /\ ptries[p] = MaxTry
          /\ pstate' = [pstate EXCEPT ![p] = "exited"]
          /\ UNCHANGED ptries
    /\ UNCHANGED <<mvars, index, left, right, inbox, paddr, faults>>

\* Another process on the host has the port of the player's index.
PortTaken(p) ==
    \E q \in Procs : Listens(q) /\ Host[q] = Host[p] /\ index[q] = index[p]

\* get_neighbors_info opens the listener, only now; and addrlen is whatever
\* it is.  If bind() fails, always so on a port that is taken, the player exits.
OpenListener(p) ==
    /\ pstate[p] = "assigned"
    /\ index[p] \in Indexes => ~PortTaken(p)
    /\ pstate' = [pstate EXCEPT ![p] = "neighbors"]
    /\ \E ok \in AddrlenOutcomes : paddr' = [paddr EXCEPT ![p] = ok]
    /\ UNCHANGED <<mvars, index, ptries, left, right, inbox, faults>>

OpenListenerRefused(p) ==
    /\ pstate[p] = "assigned"
    /\ index[p] \in Indexes => PortTaken(p)
    /\ pstate' = [pstate EXCEPT ![p] = "exited"]
    /\ UNCHANGED <<mvars, index, ptries, left, right, inbox, paddr, faults>>

OpenListenerFails(p) ==
    /\ pstate[p] = "assigned"
    /\ faults < MaxFaults
    /\ faults' = faults + 1
    /\ pstate' = [pstate EXCEPT ![p] = "exited"]
    /\ UNCHANGED <<mvars, index, ptries, left, right, inbox, paddr>>

\* What one recv() makes of the neighbours' addresses: both, the first, or none.
\* Those that have not come stay without a host.
Told(m) ==
    {m, Neighbors(m.left, Nowhere), Neighbors(Nowhere, Nowhere)}

\* The first connection is taken for the neighbours' addresses, whatever came:
\* the 20 bytes of an EXIT, or those of a potato and the small numbers of its
\* track, give two neighbours without a host.
GetNeighbors(p) ==
    /\ pstate[p] = "neighbors"
    /\ inbox[p] # <<>>
    /\ paddr[p]
    /\ LET m == Head(inbox[p])
           sent == IF m.type = "NEIGHBORS" THEN m ELSE Neighbors(Nowhere, Nowhere)
       IN  \E info \in Told(sent) :
              /\ left' = [left EXCEPT ![p] = info.left]
              /\ right' = [right EXCEPT ![p] = info.right]
              /\ faults' = faults + (IF info = sent THEN 0 ELSE 1)
              /\ faults' <= MaxFaults
    /\ inbox' = [inbox EXCEPT ![p] = Tail(@)]
    /\ pstate' = [pstate EXCEPT ![p] = "ring"]
    /\ \E ok \in AddrlenOutcomes : paddr' = [paddr EXCEPT ![p] = ok]
    /\ UNCHANGED <<mvars, index, ptries>>

\* exit(0) closes the listener and what is queued on it.
PlayerExits(p) ==
    /\ pstate' = [pstate EXCEPT ![p] = "exited"]
    /\ inbox' = [inbox EXCEPT ![p] = <<>>]

GetNeighborsFails(p) ==
    /\ pstate[p] = "neighbors"
    /\ inbox[p] # <<>>
    /\ ~paddr[p]
    /\ PlayerExits(p)
    /\ UNCHANGED <<mvars, index, ptries, left, right, paddr, faults>>

\* The track with this player's index at its end.
ExtendedKeepingOld(track, k) == track    \* mutant: the index is not appended
Extended(track, k) == Append(track, k)

\* The potato as this player passes it on: one hop less, sent once more.
Passed(m, got, k) ==
    Potato(IF m.hops - 1 # 0 THEN "SEND_P" ELSE "REPORT_P",
           m.hops - 1, m.sent_times + 1, k, Extended(got, k), Append(m.walk, k))

\* listen_msg, a potato: on to a neighbour by chance, or back to the master.
\* If the connect fails the message goes to socket -1: the potato is gone.
PassPotato(p) ==
    /\ pstate[p] = "ring"
    /\ paddr[p]
    /\ inbox[p] # <<>>
    /\ Head(inbox[p]).type = "SEND_P"
    /\ \E got \in Received(Head(inbox[p]).track) :
         LET m == Passed(Head(inbox[p]), got, index[p])
             rest == [inbox EXCEPT ![p] = Tail(@)]
         IN  /\ Receives(Head(inbox[p]).track, got)
             /\ \/ /\ m.type = "SEND_P"
                   /\ \E k \in {left[p], right[p]} :
                         \/ \E q \in Owners(k) :
                               inbox' = [rest EXCEPT ![q] = Append(@, m)]
                         \/ Owners(k) = {} /\ inbox' = rest
                   /\ UNCHANGED backlog
                \/ /\ m.type = "REPORT_P"
                   /\ inbox' = rest
                   /\ \/ MasterListens /\ backlog' = Append(backlog, m)
                      \/ ~MasterListens /\ UNCHANGED backlog
    /\ UNCHANGED <<hops, mphase, i, member, tries, maddr, report, pstate,
                   index, ptries, left, right, paddr>>

Leave(p) ==
    /\ pstate[p] = "ring"
    /\ paddr[p]
    /\ inbox[p] # <<>>
    /\ Head(inbox[p]).type = "EXIT"
    /\ PlayerExits(p)
    /\ UNCHANGED <<mvars, index, ptries, left, right, paddr, faults>>

DropMessage(p) ==
    /\ pstate[p] = "ring"
    /\ ~paddr[p]
    /\ inbox[p] # <<>>
    /\ inbox' = [inbox EXCEPT ![p] = Tail(@)]
    /\ UNCHANGED <<mvars, pstate, index, ptries, left, right, paddr, faults>>

-----------------------------------------------------------------------------
MasterStep ==
    \/ MasterListen \/ AcceptPlayer \/ Notify \/ ChooseFirst \/ SendFirst
    \/ Retry \/ GiveUp \/ AcceptReport \/ DropReport \/ Shutdown \/ MasterExit

PlayerStep(p) ==
    \/ SayHello(p) \/ RetryHello(p) \/ OpenListener(p) \/ OpenListenerRefused(p)
    \/ GetNeighbors(p) \/ GetNeighborsFails(p)
    \/ PassPotato(p) \/ Leave(p) \/ DropMessage(p)

Fault == AcceptPlayerFails \/ \E p \in Procs : OpenListenerFails(p)

Next == MasterStep \/ Fault \/ \E p \in Procs : PlayerStep(p)

\* Every process keeps running when it can; no failure has to happen.
Spec == Init /\ [][Next]_vars /\ WF_vars(MasterStep)
             /\ \A p \in Procs : WF_vars(PlayerStep(p))

-----------------------------------------------------------------------------
\* Where messages of a type are: a queue and a position in it.
InFlight(type) ==
    {q \in {<<"master", k>> : k \in DOMAIN backlog} : backlog[q[2]].type = type}
      \cup {q \in UNION {{<<p, k>> : k \in DOMAIN inbox[p]} : p \in Procs} :
              inbox[q[1]][q[2]].type = type}
MessageAt(q) == IF q[1] \in Procs THEN inbox[q[1]][q[2]] ELSE backlog[q[2]]
Potatoes == InFlight("SEND_P") \cup InFlight("REPORT_P")

PotatoOf(type) ==
    [type : {type}, hops : Nat, sent_times : Nat, sender : Int,
     track : Seq(Int), walk : Seq(Indexes)]
ToMaster == [type : {"HELLO"}, from : Procs] \cup PotatoOf("REPORT_P")
ToPlayer == [type : {"NEIGHBORS"}, left : Indexes, right : Indexes]
              \cup [type : {"EXIT"}] \cup PotatoOf("SEND_P")

TypeOK ==
    /\ hops \in 0 .. MaxHops
    /\ mphase \in {"start", "init", "notify", "choose", "send", "report",
                   "shutdown", "closing", "stuck", "exited"}
    /\ i \in Indexes
    /\ member \in [Indexes -> SUBSET Procs]
    /\ tries \in 0 .. MaxTry
    /\ maddr \in BOOLEAN
    /\ pstate \in [Procs -> {"connecting", "waiting", "assigned", "neighbors",
                             "ring", "exited"}]
    /\ index \in [Procs -> Indexes \cup {NoIndex, Garbage}]
    /\ ptries \in [Procs -> 0 .. MaxTry]
    /\ left \in [Procs -> Indexes \cup {NoIndex, Nowhere}]
    /\ right \in [Procs -> Indexes \cup {NoIndex, Nowhere}]
    /\ backlog \in Seq(ToMaster)
    /\ inbox \in [Procs -> Seq(ToPlayer)]
    /\ report \in PotatoOf("REPORT_P") \cup {NoReport}
    /\ paddr \in [Procs -> BOOLEAN]
    /\ faults \in 0 .. MaxFaults

\* A walk over the ring: each member a neighbour of the one before.
IsWalk(track) ==
    \A k \in 1 .. Len(track) - 1 :
        (track[k + 1] - track[k]) % N \in {1, N - 1}

\* A track is its walk, but where recv() returned too early: there it has zeros
\* or torn entries, and no entry of a player that was not there.
Agrees(track, walk) ==
    /\ Len(track) = Len(walk)
    /\ \A k \in DOMAIN walk : track[k] \in {walk[k], 0, Torn}
    /\ faults = 0 => track = walk

(***************************************************************************)
(* The potato and its track agree: hops left and hops made add up to what  *)
(* the master was asked for, and the potato made a walk over the ring, one *)
(* player per hop, that ends with the sender.  The track names these       *)
(* players in this order, and the last of them always.                     *)
(***************************************************************************)
TracksItsWalk(m) ==
    /\ m.hops + m.sent_times = hops
    /\ Len(m.walk) = m.sent_times
    /\ IsWalk(m.walk)
    /\ Agrees(m.track, m.walk)
    /\ m.track # <<>> => m.track[Len(m.track)] = m.sender
    /\ m.type = "SEND_P" <=> m.hops > 0

TrackIsTheWalk == \A q \in Potatoes : TracksItsWalk(MessageAt(q))

\* What the master prints has as many entries as hops were asked for, and agrees
\* with the way the potato went.
ReportIsComplete ==
    report # NoReport =>
        /\ Len(report.track) = hops
        /\ IsWalk(report.walk)
        /\ Agrees(report.track, report.walk)

(***************************************************************************)
(* There is never more than one potato, and none once the master shuts the *)
(* ring down: no player is told to leave while a potato is on its way.     *)
(***************************************************************************)
OnePotato ==
    /\ Cardinality(Potatoes) <= 1
    /\ InFlight("EXIT") # {} \/ report # NoReport => Potatoes = {}

\* The processes that took an index they were not given.
Guessed == {p \in Procs : index[p] \in Unreceived
                            /\ ~(index[p] \in Indexes /\ member[index[p]] = {p})}

\* No index is given twice, and no process has two; only a process whose first
\* connection died has an index it was not given.
IndexesAreGiven ==
    /\ \A k \in Indexes : \A p \in member[k] : index[p] = k /\ member[k] = {p}
    /\ faults = 0 /\ maddr /\ mphase # "exited" => Guessed = {}

\* A player gets the potato only with its neighbours' addresses: the connection
\* that brings them is always accepted first, unless another process had taken
\* the index.  It never has the address of anyone but its neighbours.
NeighborsBeforePotato ==
    \A p \in Procs : (\E k \in DOMAIN inbox[p] : inbox[p][k].type = "SEND_P") =>
        /\ pstate[p] = "ring" =>
              /\ left[p] \in {(index[p] - 1) % N, Nowhere}
              /\ right[p] \in {(index[p] + 1) % N, Nowhere}
              /\ faults = 0 /\ Guessed = {} => Nowhere \notin {left[p], right[p]}
        /\ pstate[p] = "neighbors" /\ (\A q \in Guessed : index[q] # index[p]) =>
              Head(inbox[p]).type = "NEIGHBORS"

(***************************************************************************)
(* The ring is sound whoever is slow and whatever call fails: the master   *)
(* gives an index once, and where there is a potato there are the right    *)
(* neighbours to pass it to, or none.                                      *)
(***************************************************************************)
RingIsSound == TypeOK /\ IndexesAreGiven /\ NeighborsBeforePotato

\* The ring terminates: the master prints the whole track and everybody exits.
RingTerminates ==
    <>[](/\ mphase = "exited"
         /\ hops > 0 => report # NoReport /\ Len(report.track) = hops
         /\ \A p \in Procs : pstate[p] = "exited")

(***************************************************************************)
(* "EXIT: master will shutdown the ring" (player.c:32): once the master is *)
(* gone every player leaves.                                               *)
(***************************************************************************)
ShutdownReachesAll ==
    (mphase = "exited") ~> (\A p \in Procs : pstate[p] = "exited")

-----------------------------------------------------------------------------
(***************************************************************************)
(* The inductive invariant behind the safety properties above.             *)
(***************************************************************************)
\* A player has an index once its first connection is over, and only who answers
\* on a player's port gets messages.
PlayersInv ==
    \A p \in Procs :
        /\ pstate[p] \in {"connecting", "waiting"} => index[p] = NoIndex
        /\ pstate[p] \in {"assigned", "neighbors", "ring"} => index[p] \in Unreceived
        /\ pstate[p] = "ring" \/ inbox[p] # <<>> => index[p] \in Indexes
        /\ ~Listens(p) => inbox[p] = <<>>

\* Whoever said hello waits for the answer, and said it once.
HellosInv ==
    \A j \in DOMAIN backlog : backlog[j].type = "HELLO" =>
        /\ pstate[backlog[j].from] = "waiting"
        /\ \A k \in DOMAIN backlog : backlog[k] = backlog[j] => k = j

\* The indexes given so far are below the next one; a port has one listener.
IndexesInv ==
    /\ IndexesAreGiven
    /\ mphase = "start" => i = 0
    /\ mphase \in {"start", "init"} =>
          \A k \in Indexes : member[k] # {} => k < i
    /\ mphase \in {"start", "init", "notify", "choose"} => maddr
    /\ \A p, q \in Procs :
          Listens(p) /\ Listens(q) /\ Host[p] = Host[q] /\ index[p] = index[q]
             /\ index[p] \in Indexes => p = q

\* A queue without a potato, or with one at most.
IsPotato(m) == m.type \in {"SEND_P", "REPORT_P"}
Free(q) == \A k \in DOMAIN q : ~IsPotato(q[k])
One(q) == \A j, k \in DOMAIN q : IsPotato(q[j]) /\ IsPotato(q[k]) => j = k

NoPotato == Free(backlog) /\ \A p \in Procs : Free(inbox[p])
OnePotatoAtMost ==
    \/ One(backlog) /\ \A p \in Procs : Free(inbox[p])
    \/ /\ Free(backlog)
       /\ \E p \in Procs : /\ One(inbox[p])
                            /\ \A r \in Procs \ {p} : Free(inbox[r])

\* There is a potato only while the master waits for it, and an EXIT only after.
PhasesInv ==
    /\ OnePotatoAtMost
    /\ mphase \notin {"report", "stuck"} => NoPotato
    /\ mphase \notin {"shutdown", "closing", "exited"} =>
          /\ report = NoReport
          /\ \A p \in Procs : \A k \in DOMAIN inbox[p] : inbox[p][k].type # "EXIT"
    /\ mphase \in {"choose", "send", "report", "stuck"} => hops > 0

\* Whose neighbours have been sent, and to whom nothing has been sent yet.
Notified(k) ==
    \/ mphase \in {"choose", "send", "report", "stuck"}
    \/ mphase = "notify" /\ k < i
NothingSent(k) ==
    \/ mphase \in {"start", "init"}
    \/ mphase = "notify" /\ k >= i

\* Only a player's own neighbours are ever sent to it, and known to it.
NeighborsKnown ==
    \A p \in Procs :
        /\ \A k \in DOMAIN inbox[p] : inbox[p][k].type = "NEIGHBORS" =>
              inbox[p][k] = Neighbors(LeftOf(index[p]), RightOf(index[p]))
        /\ pstate[p] = "ring" =>
              /\ left[p] \in {LeftOf(index[p]), Nowhere}
              /\ right[p] \in {RightOf(index[p]), Nowhere}

\* A player that has been notified has its neighbours, or finds them in front,
\* unless another had its index.
Alone(p) == index[p] \in Indexes /\ \A q \in Guessed : index[q] # index[p]
NeighborsInv ==
    \A p \in Procs : Alone(p) =>
        /\ pstate[p] = "assigned" => ~Notified(index[p])
        /\ Listens(p) /\ NothingSent(index[p]) =>
              pstate[p] = "neighbors" /\ inbox[p] = <<>>
        /\ Listens(p) /\ Notified(index[p]) =>
              \/ /\ pstate[p] = "neighbors"
                 /\ inbox[p] # <<>>
                 /\ Head(inbox[p]).type = "NEIGHBORS"
              \/ /\ pstate[p] = "ring"
                 /\ faults = 0 => Nowhere \notin {left[p], right[p]}

\* A potato is on its way to a neighbour of the player it comes from.
TracksInv ==
    /\ \A k \in DOMAIN backlog :
          IsPotato(backlog[k]) => TracksItsWalk(backlog[k])
    /\ \A p \in Procs : \A k \in DOMAIN inbox[p] : IsPotato(inbox[p][k]) =>
          /\ TracksItsWalk(inbox[p][k])
          /\ IsWalk(Append(inbox[p][k].walk, index[p]))
    /\ ReportIsComplete

IInv ==
    /\ TypeOK
    /\ PlayersInv
    /\ HellosInv
    /\ IndexesInv
    /\ PhasesInv
    /\ NeighborsKnown
    /\ NeighborsInv
    /\ TracksInv
=============================================================================
