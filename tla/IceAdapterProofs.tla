-------------------------- MODULE IceAdapterProofs --------------------------
(***************************************************************************)
(* Theorems about IceAdapter, for every value of its constants.            *)
(***************************************************************************)
EXTENDS IceAdapter, SequenceTheorems, TLAPS

Address == Port \cup {NoPort}

-----------------------------------------------------------------------------
(* Type correctness.                                                       *)

LEMMA InitTyping == Init => TypeOK
  BY DEF Init, TypeOK, ServerInit, ServerTypeOK, NoRelays, InitModes

\* A run of the task loop keeps the types of what it changes.
LEMMA TryExecuteTyping ==
  ASSUME TypeOK, NEW tasks \in Seq(Task), NEW state,
         NEW tbl \in [Peer -> Address], TryExecuteGameTasks(tasks, state, tbl)
  PROVE  /\ gameTasks' \in Seq(Task)
         /\ view' \in [Connection -> [Peer -> Address]]
         /\ role' \in [Connection -> {"none", "Hosting", "Joining"}]
<1>1. CASE ~HasConnectedClient
  BY <1>1 DEF TryExecuteGameTasks, TypeOK, Address
<1>2. CASE HasConnectedClient
  <2>1. PICK n \in 0 .. Len(tasks) :
          /\ gameTasks' = SubSeq(tasks, n + 1, Len(tasks))
          /\ view' = [c \in Connection |->
                        IF c \in Reachable
                          THEN After(view[c], SubSeq(tasks, 1, n), tbl)
                          ELSE view[c]]
          /\ role' = [c \in Connection |->
                        IF c \in Reachable
                          THEN RoleAfter(role[c], SubSeq(tasks, 1, n), tbl)
                          ELSE role[c]]
    BY <1>2 DEF TryExecuteGameTasks
  <2>2. gameTasks' \in Seq(Task)
    <3>1. \A i \in n + 1 .. Len(tasks) : tasks[i] \in Task
      OBVIOUS
    <3>2. SubSeq(tasks, n + 1, Len(tasks)) \in Seq(Task)
      BY <3>1, SubSeqProperties
    <3>3. QED
      BY <2>1, <3>2
  <2>3. ASSUME NEW v \in [Peer -> Address], NEW s
        PROVE  After(v, s, tbl) \in [Peer -> Address]
    BY DEF After, Address
  <2>4. view' \in [Connection -> [Peer -> Address]]
    BY <2>1, <2>3 DEF TypeOK, Address
  <2>5. ASSUME NEW r \in {"none", "Hosting", "Joining"}, NEW s
        PROVE  RoleAfter(r, s, tbl) \in {"none", "Hosting", "Joining"}
    BY DEF RoleAfter
  <2>6. role' \in [Connection -> {"none", "Hosting", "Joining"}]
    BY <2>1, <2>5 DEF TypeOK
  <2>7. QED
    BY <2>2, <2>4, <2>6
<1>3. QED
  BY <1>1, <1>2

\* So does the queueing of a task.
LEMMA QueueTyping ==
  ASSUME TypeOK, NEW t \in Task,
         NEW tbl \in [Peer -> Address], QueueGameTask(t, tbl)
  PROVE  /\ gameTasks' \in Seq(Task)
         /\ view' \in [Connection -> [Peer -> Address]]
         /\ role' \in [Connection -> {"none", "Hosting", "Joining"}]
<1>1. Append(gameTasks, t) \in Seq(Task)
  BY AppendProperties DEF TypeOK
<1>2. QED
  BY <1>1, TryExecuteTyping DEF QueueGameTask

\* And the creation of a relay.
LEMMA CreateTyping ==
  ASSUME TypeOK, NEW p \in Peer, CreatePeerRelay(p)
  PROVE  /\ relays' \in [Peer -> Address]
         /\ relayIce' \in [Peer -> IceServers \cup {NoServers}]
  BY DEF CreatePeerRelay, TypeOK, Address

\* Every step keeps the types.
LEMMA NextTyping == TypeOK /\ [Next]_vars => TypeOK'
<1> SUFFICES ASSUME TypeOK, [Next]_vars PROVE TypeOK'
  OBVIOUS
<1> USE DEF Address
<1>1. CASE HostGame
  <2>1. [task |-> "HostGame", id |-> NoPeer] \in Task
    BY DEF Task, LobbyTasks
  <2>2. QED
    BY <1>1, <2>1, QueueTyping DEF HostGame, TypeOK, ServerTypeOK, serverVars
<1>2. ASSUME NEW p \in Peer, JoinGame(p) PROVE TypeOK'
  <2>1. [task |-> "JoinGame", id |-> p] \in Task
    BY DEF Task, LobbyTasks
  <2>2. relays' \in [Peer -> Address]
    BY <1>2, CreateTyping DEF JoinGame
  <2>3. QED
    BY <1>2, <2>1, <2>2, CreateTyping, QueueTyping
       DEF JoinGame, TypeOK, ServerTypeOK, serverVars
<1>3. ASSUME NEW p \in Peer, ConnectToPeer(p) PROVE TypeOK'
  <2>1. [task |-> "ConnectToPeer", id |-> p] \in Task
    BY DEF Task, LobbyTasks
  <2>2. relays' \in [Peer -> Address]
    BY <1>3, CreateTyping DEF ConnectToPeer
  <2>3. QED
    BY <1>3, <2>1, <2>2, CreateTyping, QueueTyping
       DEF ConnectToPeer, TypeOK, ServerTypeOK, serverVars
<1>4. ASSUME NEW p \in Peer, DisconnectFromPeer(p) PROVE TypeOK'
  <2>1. [task |-> "DisconnectFromPeer", id |-> p] \in Task
    BY DEF Task
  <2>2. relays' \in [Peer -> Address]
    BY <1>4 DEF DisconnectFromPeer, TypeOK
  <2>3. QED
    BY <1>4, <2>1, <2>2, QueueTyping
       DEF DisconnectFromPeer, TypeOK, ServerTypeOK, serverVars
<1>5. ASSUME NEW m \in InitModes, SetLobbyInitMode(m) PROVE TypeOK'
  BY <1>5 DEF SetLobbyInitMode, TypeOK, ServerTypeOK, serverVars, gameVars
<1>6. ASSUME NEW l \in IceServers \cup {NoServers}, SetIceServers(l)
      PROVE  TypeOK'
  BY <1>6 DEF SetIceServers, TypeOK, ServerTypeOK, serverVars, gameVars
<1>7. ASSUME NEW c \in Connection, OnGameConnected(c) PROVE TypeOK'
  BY <1>7 DEF OnGameConnected, OnNewClient, TypeOK, ServerTypeOK,
              adapterVars, gameVars
<1>8. ASSUME NEW c \in Connection, GameCloses(c) PROVE TypeOK'
  BY <1>8, AppendProperties
     DEF GameCloses, OnClientDisconnect, TypeOK, ServerTypeOK, adapterVars,
         NoRelays, InitModes
<1>9. ASSUME NEW c \in Connection, OnGameDisconnected(c) PROVE TypeOK'
  <2>1. Tail(posted) \in Seq(Connection)
    BY <1>9, HeadTailProperties
       DEF OnGameDisconnected, OnMessage, TypeOK, ServerTypeOK
  <2>2. QED
    BY <1>9, <2>1 DEF OnGameDisconnected, OnMessage, TypeOK, ServerTypeOK,
                      gameVars, NoRelays
<1>10. ASSUME NEW c \in Connection, NEW s \in GameStates, OnGpgNetMessage(c, s)
       PROVE  TypeOK'
  <2>1. /\ gameTasks' \in Seq(Task)
        /\ view' \in [Connection -> [Peer -> Address]]
        /\ role' \in [Connection -> {"none", "Hosting", "Joining"}]
    BY <1>10, TryExecuteTyping DEF OnGpgNetMessage, TypeOK
  <2>2. QED
    BY <1>10, <2>1 DEF OnGpgNetMessage, TypeOK, ServerTypeOK, serverVars,
                       InitModes
<1>11. CASE UNCHANGED vars
  BY <1>11 DEF vars, serverVars, adapterVars, gameVars, TypeOK, ServerTypeOK
<1>12. QED
  BY <1>1, <1>2, <1>3, <1>4, <1>5, <1>6, <1>7, <1>8, <1>9, <1>10, <1>11
     DEF Next, Client, Game

\* The variables keep their types (all handlers of IceAdapter.cpp).
THEOREM Typing == Spec => []TypeOK
  BY InitTyping, NextTyping, PTL DEF Spec

-----------------------------------------------------------------------------
(* The handlers whose removal waits.                                       *)

LEMMA NextRemovedOnce ==
  TypeOK /\ RemovedOnce /\ [Next]_vars => RemovedOnce'
<1> SUFFICES ASSUME TypeOK, RemovedOnce, [Next]_vars PROVE RemovedOnce'
  OBVIOUS
<1> USE DEF RemovedOnce, Reachable, ToSet, TypeOK, ServerTypeOK
<1>1. ASSUME NEW c \in Connection, OnNewClient(c) PROVE RemovedOnce'
  BY <1>1 DEF OnNewClient
<1>2. ASSUME NEW c \in Connection, OnClientDisconnect(c) PROVE RemovedOnce'
  <2>1. c \in connectedSockets /\ c \notin ToSet(posted) /\ c \notin unpolled
    BY <1>2 DEF OnClientDisconnect, CanRaiseEvent
  <2>2. /\ posted' \in Seq(Connection)
        /\ Len(posted') = Len(posted) + 1
        /\ \A i \in 1 .. Len(posted) : posted'[i] = posted[i]
        /\ posted'[Len(posted) + 1] = c
    BY <1>2, AppendProperties DEF OnClientDisconnect
  <2>3. QED
    BY <1>2, <2>1, <2>2 DEF OnClientDisconnect
<1>3. ASSUME NEW c \in Connection, OnMessage(c) PROVE RemovedOnce'
  <2>1. /\ Tail(posted) \in Seq(Connection)
        /\ Len(Tail(posted)) = Len(posted) - 1
        /\ \A i \in 1 .. Len(Tail(posted)) : Tail(posted)[i] = posted[i + 1]
    BY <1>3, HeadTailProperties DEF OnMessage
  <2>2. Len(posted) > 0 /\ c = posted[1]
    BY <1>3 DEF OnMessage
  <2>3. \A i \in DOMAIN Tail(posted) :
           /\ i + 1 \in DOMAIN posted
           /\ Tail(posted)[i] = posted[i + 1]
           /\ posted[i + 1] # c
    <3> SUFFICES ASSUME NEW i \in 1 .. Len(posted) - 1
                 PROVE  /\ i + 1 \in DOMAIN posted
                        /\ Tail(posted)[i] = posted[i + 1]
                        /\ posted[i + 1] # c
      BY <2>1
    <3>1. i + 1 \in 1 .. Len(posted) /\ 1 \in 1 .. Len(posted) /\ i + 1 # 1
      BY <2>2
    <3>2. QED
      BY <2>1, <2>2, <3>1
  <2>4. c \in ToSet(posted)
    BY <2>2
  <2>5. QED
    BY <1>3, <2>1, <2>3, <2>4 DEF OnMessage
<1>4. CASE UNCHANGED serverVars
  BY <1>4 DEF serverVars
<1>5. QED
  BY <1>1, <1>2, <1>3, <1>4
     DEF Next, Client, Game, HostGame, JoinGame, ConnectToPeer,
         DisconnectFromPeer, SetLobbyInitMode, SetIceServers, OnGameConnected,
         GameCloses, OnGameDisconnected, OnGpgNetMessage, vars

\* A handler is removed once, and only while it is in the set
\* (GPGNetServer::_onClientDisconnect and OnMessage).
THEOREM HandlersRemovedOnce == Spec => []RemovedOnce
<1>1. Init => RemovedOnce
  BY DEF Init, ServerInit, RemovedOnce, Reachable, ToSet
<1>2. QED
  BY <1>1, NextRemovedOnce, Typing, PTL DEF Spec

-----------------------------------------------------------------------------
(* No lost wakeup.                                                         *)

\* Without a connection there is no game state: so a game that connects finds
\* "None", and HeadBlocked does not yet ask anything of the queue.
StateNeedsClient == gameState # "None" => HasConnectedClient

\* A run of the task loop ends at a task that waits for the lobby.
LEMMA LoopStops ==
  ASSUME NEW tasks \in Seq(Task), NEW state, NEW tbl, HasConnectedClient,
         TryExecuteGameTasks(tasks, state, tbl)
  PROVE  gameTasks' # <<>> => Blocked(Head(gameTasks'), state)
<1>1. PICK n \in 0 .. Len(tasks) :
        /\ Executes(n, tasks, state)
        /\ gameTasks' = SubSeq(tasks, n + 1, Len(tasks))
  BY DEF TryExecuteGameTasks
<1>2. CASE n = Len(tasks)
  <2>1. gameTasks' = <<>>
    BY <1>1, <1>2, SubSeqEmpty
  <2>2. QED
    BY <2>1
<1>3. CASE n < Len(tasks)
  <2>1. Head(gameTasks') = tasks[n + 1]
    BY <1>1, <1>3, HeadTailOfSubSeq
  <2>2. QED
    BY <1>1, <1>3, <2>1 DEF Executes
<1>4. QED
  BY <1>1, <1>2, <1>3

LEMMA NextHeadBlocked ==
  TypeOK /\ StateNeedsClient /\ HeadBlocked /\ [Next]_vars
    => StateNeedsClient' /\ HeadBlocked'
<1> SUFFICES ASSUME TypeOK, StateNeedsClient, HeadBlocked, [Next]_vars
             PROVE  StateNeedsClient' /\ HeadBlocked'
  OBVIOUS
<1> USE DEF StateNeedsClient, HeadBlocked, HasConnectedClient
<1>1. ASSUME NEW t \in Task, NEW tbl, QueueGameTask(t, tbl),
             UNCHANGED <<connectedSockets, gameState>>
      PROVE  StateNeedsClient' /\ HeadBlocked'
  <2>1. Append(gameTasks, t) \in Seq(Task)
    BY AppendProperties DEF TypeOK
  <2>2. QED
    BY <1>1, <2>1, LoopStops DEF QueueGameTask
<1>2. CASE HostGame
  BY <1>1, <1>2 DEF HostGame, serverVars, Task, LobbyTasks
<1>3. ASSUME NEW p \in Peer, JoinGame(p) \/ ConnectToPeer(p) \/ DisconnectFromPeer(p)
      PROVE  StateNeedsClient' /\ HeadBlocked'
  <2>1. \A x \in LobbyTasks \cup {"DisconnectFromPeer"} : [task |-> x, id |-> p] \in Task
    BY DEF Task
  <2>2. QED
    BY <1>1, <1>3, <2>1
       DEF JoinGame, ConnectToPeer, DisconnectFromPeer, serverVars, LobbyTasks
<1>4. ASSUME NEW c \in Connection, NEW s \in GameStates, OnGpgNetMessage(c, s)
      PROVE  StateNeedsClient' /\ HeadBlocked'
  BY <1>4, LoopStops
     DEF OnGpgNetMessage, CanRaiseEvent, Reachable, serverVars, TypeOK
<1>5. ASSUME NEW c \in Connection,
             OnGameConnected(c) \/ GameCloses(c) \/ OnGameDisconnected(c)
      PROVE  StateNeedsClient' /\ HeadBlocked'
  BY <1>5 DEF OnGameConnected, OnNewClient, GameCloses, OnClientDisconnect,
              OnGameDisconnected, adapterVars
<1>6. CASE (\E m \in InitModes : SetLobbyInitMode(m))
           \/ (\E l \in IceServers \cup {NoServers} : SetIceServers(l))
           \/ UNCHANGED vars
  BY <1>6 DEF SetLobbyInitMode, SetIceServers, vars, serverVars, adapterVars
<1>7. QED
  BY <1>2, <1>3, <1>4, <1>5, <1>6 DEF Next, Client, Game

\* The task loop never leaves a task that could run (_queueGameTask,
\* _onGpgNetMessage and _tryExecuteGameTasks), for any number of games.
THEOREM NoLostWakeup == Spec => []HeadBlocked
<1>1. Init => StateNeedsClient /\ HeadBlocked
  BY DEF Init, ServerInit, StateNeedsClient, HeadBlocked, HasConnectedClient
<1>2. QED
  BY <1>1, NextHeadBlocked, Typing, PTL DEF Spec
-----------------------------------------------------------------------------
(* The address table of a game.                                            *)

\* The last command of s about p opens it; some command of s closes it.
LastOpens(s, p, tbl) ==
  \E i \in DOMAIN s :
    /\ Opens(s[i], p, tbl)
    /\ \A j \in DOMAIN s : j > i => ~Closes(s[j], p)
SomeCloses(s, p) == \E i \in DOMAIN s : Closes(s[i], p)

LEMMA AfterAt ==
  ASSUME NEW v, NEW s, NEW tbl, NEW p \in Peer
  PROVE  After(v, s, tbl)[p] = IF LastOpens(s, p, tbl) THEN tbl[p]
                               ELSE IF SomeCloses(s, p) THEN NoPort ELSE v[p]
  BY DEF After, LastOpens, SomeCloses

\* Two tables are equal if they agree on every peer.
LEMMA SameTable ==
  ASSUME NEW v, NEW s, NEW tbl, NEW w \in [Peer -> Address],
         \A p \in Peer : After(v, s, tbl)[p] = w[p]
  PROVE  After(v, s, tbl) = w
<1>1. After(v, s, tbl) = [p \in Peer |-> After(v, s, tbl)[p]]
  BY DEF After
<1>2. w = [p \in Peer |-> w[p]]
  OBVIOUS
<1>3. QED
  BY <1>1, <1>2

\* What the loop executed and what it left.
LEMMA SplitAt ==
  ASSUME NEW tasks \in Seq(Task), NEW n \in 0 .. Len(tasks)
  PROVE  /\ DOMAIN SubSeq(tasks, 1, n) = 1 .. n
         /\ \A i \in 1 .. n : SubSeq(tasks, 1, n)[i] = tasks[i]
         /\ DOMAIN SubSeq(tasks, n + 1, Len(tasks)) = 1 .. Len(tasks) - n
         /\ \A i \in 1 .. Len(tasks) - n :
              SubSeq(tasks, n + 1, Len(tasks))[i] = tasks[n + i]
<1> DEFINE done == SubSeq(tasks, 1, n)
           rest == SubSeq(tasks, n + 1, Len(tasks))
<1>1. /\ DOMAIN done = 1 .. n
      /\ \A i \in 1 .. n : done[i] = tasks[i]
  <2>1. \A i \in 1 .. n : tasks[i] \in Task
    OBVIOUS
  <2>2. /\ done \in Seq(Task)
        /\ Len(done) = IF 1 <= n THEN n - 1 + 1 ELSE 0
        /\ \A i \in 1 .. n - 1 + 1 : done[i] = tasks[1 + i - 1]
    BY <2>1, SubSeqProperties
  <2>3. QED
    BY <2>2
<1>2. /\ DOMAIN rest = 1 .. Len(tasks) - n
      /\ \A i \in 1 .. Len(tasks) - n : rest[i] = tasks[n + i]
  <2>1. \A i \in n + 1 .. Len(tasks) : tasks[i] \in Task
    OBVIOUS
  <2>2. /\ rest \in Seq(Task)
        /\ Len(rest) = IF n + 1 <= Len(tasks) THEN Len(tasks) - (n + 1) + 1
                                              ELSE 0
        /\ \A i \in 1 .. Len(tasks) - (n + 1) + 1 :
             rest[i] = tasks[n + 1 + i - 1]
    BY <2>1, SubSeqProperties
  <2>3. QED
    BY <2>2
<1>3. QED
  BY <1>1, <1>2

\* Executing tasks in two runs of the loop is executing them in one.
LEMMA AfterSplit ==
  ASSUME NEW tasks \in Seq(Task), NEW n \in 0 .. Len(tasks), NEW v, NEW tbl
  PROVE  After(After(v, SubSeq(tasks, 1, n), tbl),
               SubSeq(tasks, n + 1, Len(tasks)), tbl) = After(v, tasks, tbl)
<1> DEFINE done == SubSeq(tasks, 1, n)
           rest == SubSeq(tasks, n + 1, Len(tasks))
<1>1. /\ DOMAIN done = 1 .. n
      /\ \A i \in 1 .. n : done[i] = tasks[i]
  BY SplitAt
<1>2. /\ DOMAIN rest = 1 .. Len(tasks) - n
      /\ \A i \in 1 .. Len(tasks) - n : rest[i] = tasks[n + i]
  BY SplitAt
<1>3. \A i \in DOMAIN tasks :
        \/ i \in DOMAIN done /\ tasks[i] = done[i]
        \/ i - n \in DOMAIN rest /\ tasks[i] = rest[i - n]
  BY <1>1, <1>2
<1>4. /\ \A i \in DOMAIN done : i \in DOMAIN tasks /\ tasks[i] = done[i] /\ i <= n
      /\ \A i \in DOMAIN rest : n + i \in DOMAIN tasks /\ tasks[n + i] = rest[i]
  BY <1>1, <1>2
<1>5. ASSUME NEW p \in Peer
      PROVE  SomeCloses(tasks, p) <=> SomeCloses(done, p) \/ SomeCloses(rest, p)
  <2> HIDE DEF done, rest
  <2>1. QED
    BY <1>3, <1>4 DEF SomeCloses
<1>6. ASSUME NEW p \in Peer
      PROVE  LastOpens(tasks, p, tbl) <=>
               \/ LastOpens(rest, p, tbl)
               \/ LastOpens(done, p, tbl) /\ ~SomeCloses(rest, p)
  <2> HIDE DEF done, rest
  <2>1. ASSUME LastOpens(rest, p, tbl) PROVE LastOpens(tasks, p, tbl)
    <3>1. PICK i \in DOMAIN rest :
            /\ Opens(rest[i], p, tbl)
            /\ \A j \in DOMAIN rest : j > i => ~Closes(rest[j], p)
      BY <2>1 DEF LastOpens
    <3>2. ASSUME NEW j \in DOMAIN tasks, j > n + i
          PROVE  ~Closes(tasks[j], p)
      <4>1. j - n \in DOMAIN rest /\ j - n > i /\ rest[j - n] = tasks[j]
        BY <1>2, <3>2
      <4>2. QED
        BY <3>1, <4>1
    <3>3. QED
      BY <1>4, <3>1, <3>2 DEF LastOpens
  <2>2. ASSUME LastOpens(done, p, tbl), ~SomeCloses(rest, p)
        PROVE  LastOpens(tasks, p, tbl)
    <3>1. PICK i \in DOMAIN done :
            /\ Opens(done[i], p, tbl)
            /\ \A j \in DOMAIN done : j > i => ~Closes(done[j], p)
      BY <2>2 DEF LastOpens
    <3>2. \A j \in DOMAIN tasks : j > i => ~Closes(tasks[j], p)
      BY <1>3, <2>2, <3>1 DEF SomeCloses
    <3>3. QED
      BY <1>4, <3>1, <3>2 DEF LastOpens
  <2>3. ASSUME LastOpens(tasks, p, tbl)
        PROVE  \/ LastOpens(rest, p, tbl)
               \/ LastOpens(done, p, tbl) /\ ~SomeCloses(rest, p)
    <3>1. PICK i \in DOMAIN tasks :
            /\ Opens(tasks[i], p, tbl)
            /\ \A j \in DOMAIN tasks : j > i => ~Closes(tasks[j], p)
      BY <2>3 DEF LastOpens
    <3>2. CASE i > n
      <4>1. i - n \in DOMAIN rest /\ rest[i - n] = tasks[i]
        BY <1>2, <3>2
      <4>2. \A j \in DOMAIN rest : j > i - n => ~Closes(rest[j], p)
        BY <1>2, <3>1, <3>2
      <4>3. QED
        BY <3>1, <4>1, <4>2 DEF LastOpens
    <3>3. CASE i <= n
      <4>1. i \in DOMAIN done /\ done[i] = tasks[i]
        BY <1>1, <3>3
      <4>2. \A j \in DOMAIN done : j > i => ~Closes(done[j], p)
        BY <1>4, <3>1
      <4>3. \A j \in DOMAIN rest : ~Closes(rest[j], p)
        BY <1>2, <3>1, <3>3
      <4>4. QED
        BY <3>1, <4>1, <4>2, <4>3 DEF LastOpens, SomeCloses
    <3>4. QED
      BY <3>2, <3>3
  <2>4. QED
    BY <2>1, <2>2, <2>3
<1>7. \A p \in Peer : After(After(v, done, tbl), rest, tbl)[p]
                     = After(v, tasks, tbl)[p]
  <2> HIDE DEF done, rest
  <2>1. QED
    BY <1>5, <1>6, AfterAt
<1>8. QED
  BY <1>7 DEF After

\* What is queued still reconciles a table with the relays once a task was
\* added: it opens a peer that has a relay, closes one that has none, and
\* every other peer keeps its relay.
LEMMA AfterAppend ==
  ASSUME NEW tasks \in Seq(Task), NEW t \in Task, NEW v,
         NEW old, NEW new \in [Peer -> Address],
         After(v, tasks, old) = old,
         \A p \in Peer : \/ Opens(t, p, new)
                         \/ Closes(t, p) /\ new[p] = NoPort
                         \/ ~Closes(t, p) /\ new[p] = old[p]
  PROVE  After(v, Append(tasks, t), new) = new
<1> DEFINE all == Append(tasks, t)
           last == Len(tasks) + 1
<1>1. /\ DOMAIN all = 1 .. last
      /\ \A i \in DOMAIN tasks : all[i] = tasks[i] /\ i \in DOMAIN all /\ i < last
      /\ all[last] = t
      /\ \A i \in DOMAIN all : i = last \/ i \in DOMAIN tasks
  BY AppendProperties
<1> HIDE DEF all
<1>2. ASSUME NEW p \in Peer PROVE After(v, all, new)[p] = new[p]
  <2>1. CASE Opens(t, p, new)
    <3>1. LastOpens(all, p, new)
      BY <1>1, <2>1 DEF LastOpens
    <3>2. QED
      BY <3>1, AfterAt
  <2>2. CASE Closes(t, p) /\ new[p] = NoPort
    <3>1. SomeCloses(all, p)
      BY <1>1, <2>2 DEF SomeCloses
    <3>2. QED
      BY <2>2, <3>1, AfterAt
  <2>3. CASE ~Opens(t, p, new) /\ ~Closes(t, p) /\ new[p] = old[p]
    <3>1. \A i : Opens(tasks[i], p, new) <=> Opens(tasks[i], p, old)
      BY <2>3 DEF Opens
    <3>2. LastOpens(all, p, new) <=> LastOpens(tasks, p, old)
      BY <1>1, <2>3, <3>1 DEF LastOpens
    <3>3. SomeCloses(all, p) <=> SomeCloses(tasks, p)
      BY <1>1, <2>3 DEF SomeCloses
    <3>4. After(v, tasks, old)[p] = old[p]
      OBVIOUS
    <3>5. QED
      BY <2>3, <3>2, <3>3, <3>4, AfterAt
  <2>4. QED
    BY <2>1, <2>2, <2>3
<1>3. QED
  BY <1>2, SameTable DEF all
-----------------------------------------------------------------------------
(* One game at a time.                                                     *)

\* The invariant: at most one connection, a handler without a game has told
\* nothing to the next one, and the queue reconciles the game with the relays.
OneConnection == \A c, d \in connectedSockets : c = d
Forgotten == \A c \in Connection : c \notin Reachable => view[c] = NoRelays
SerialInv == RemovedOnce /\ OneConnection /\ Forgotten /\ Reconciles

\* Whatever part of tasks the loop executes, it leaves the rest to reconcile.
LEMMA LoopReconciles ==
  ASSUME TypeOK, Forgotten, NEW tasks \in Seq(Task), NEW state,
         NEW tbl \in [Peer -> Address],
         TryExecuteGameTasks(tasks, state, tbl),
         relays' = tbl, UNCHANGED serverVars,
         \A c \in Reachable : After(view[c], tasks, tbl) = tbl,
         ~HasConnectedClient => After(NoRelays, tasks, tbl) = tbl
  PROVE  Forgotten' /\ Reconciles'
<1>1. Reachable' = Reachable /\ HasConnectedClient' = HasConnectedClient
  BY DEF Reachable, HasConnectedClient, serverVars
<1>2. CASE ~HasConnectedClient
  <2>1. gameTasks' = tasks /\ view' = view
    BY <1>2 DEF TryExecuteGameTasks
  <2>2. Reachable = {}
    BY <1>2 DEF HasConnectedClient, Reachable
  <2>3. QED
    BY <1>1, <1>2, <2>1, <2>2 DEF Forgotten, Reconciles
<1>3. CASE HasConnectedClient
  <2>1. PICK n \in 0 .. Len(tasks) :
          /\ gameTasks' = SubSeq(tasks, n + 1, Len(tasks))
          /\ view' = [c \in Connection |->
                        IF c \in Reachable
                          THEN After(view[c], SubSeq(tasks, 1, n), tbl)
                          ELSE view[c]]
    BY <1>3 DEF TryExecuteGameTasks
  <2>2. Reachable \subseteq Connection
    BY DEF Reachable, TypeOK, ServerTypeOK
  <2>3. ASSUME NEW c \in Reachable
        PROVE  After(view'[c], gameTasks', tbl) = tbl
    <3>1. view'[c] = After(view[c], SubSeq(tasks, 1, n), tbl)
      BY <2>1, <2>2
    <3>2. QED
      BY <2>1, <3>1, AfterSplit
  <2>4. Forgotten'
    BY <1>1, <2>1 DEF Forgotten
  <2>5. QED
    BY <1>1, <1>3, <2>3, <2>4 DEF Reconciles
<1>4. QED
  BY <1>2, <1>3

\* Queueing the task that belongs to a change of the relays reconciles.
LEMMA QueueReconciles ==
  ASSUME TypeOK, SerialInv, NEW t \in Task, UNCHANGED serverVars,
         relays' \in [Peer -> Address], QueueGameTask(t, relays'),
         \A p \in Peer : \/ Opens(t, p, relays')
                         \/ Closes(t, p) /\ relays'[p] = NoPort
                         \/ ~Closes(t, p) /\ relays'[p] = relays[p]
  PROVE  SerialInv'
<1>1. gameTasks \in Seq(Task)
  BY DEF TypeOK
<1>2. \A c \in Reachable :
        After(view[c], Append(gameTasks, t), relays') = relays'
  BY <1>1, AfterAppend DEF SerialInv, Reconciles
<1>3. ~HasConnectedClient =>
        After(NoRelays, Append(gameTasks, t), relays') = relays'
  BY <1>1, AfterAppend DEF SerialInv, Reconciles
<1>4. Append(gameTasks, t) \in Seq(Task)
  BY <1>1, AppendProperties
<1>5. Forgotten' /\ Reconciles'
  BY <1>2, <1>3, <1>4, LoopReconciles DEF QueueGameTask, SerialInv
<1>6. RemovedOnce' /\ OneConnection'
  BY DEF SerialInv, RemovedOnce, OneConnection, Reachable, ToSet, serverVars
<1>7. QED
  BY <1>5, <1>6 DEF SerialInv

\* Without relays nothing is opened: the queue an ended game left behind does
\* not disturb the next one.
LEMMA AfterWithoutRelays ==
  ASSUME NEW s PROVE After(NoRelays, s, NoRelays) = NoRelays
  BY DEF After, NoRelays

LEMMA InitSerial == Init => SerialInv
  BY AfterWithoutRelays
     DEF Init, ServerInit, SerialInv, RemovedOnce, OneConnection, Forgotten,
         Reconciles, Reachable, ToSet, NoRelays

LEMMA NextSerial ==
  ASSUME Overlap = FALSE, TypeOK, SerialInv, [Next]_vars
  PROVE  SerialInv'
<1>1. CASE HostGame
  <2> DEFINE t == [task |-> "HostGame", id |-> NoPeer]
  <2>1. t \in Task /\ \A p \in Peer : ~Closes(t, p)
    BY DEF Task, LobbyTasks, Closes
  <2>2. /\ UNCHANGED <<serverVars, relays>>
        /\ QueueGameTask(t, relays)
    BY <1>1 DEF HostGame
  <2> HIDE DEF t
  <2>3. QED
    BY <2>1, <2>2, QueueReconciles DEF TypeOK, Address
<1>2. ASSUME NEW p \in Peer, NEW x \in {"JoinGame", "ConnectToPeer"},
             CreatePeerRelay(p), UNCHANGED serverVars,
             QueueGameTask([task |-> x, id |-> p], relays')
      PROVE  SerialInv'
  <2> DEFINE t == [task |-> x, id |-> p]
  <2>1. t \in Task /\ (\A q \in Peer : ~Closes(t, q))
    BY DEF Task, LobbyTasks, Closes
  <2>2. relays' \in [Peer -> Address]
    BY <1>2, CreateTyping
  <2>3. relays'[p] # NoPort /\ \A q \in Peer \ {p} : relays'[q] = relays[q]
    BY <1>2, IceAdapterAssumption DEF CreatePeerRelay, TypeOK
  <2>4. Opens(t, p, relays')
    BY <2>3 DEF Opens
  <2>5. UNCHANGED serverVars /\ QueueGameTask(t, relays')
    BY <1>2
  <2> HIDE DEF t
  <2>6. \A q \in Peer : \/ Opens(t, q, relays')
                        \/ Closes(t, q) /\ relays'[q] = NoPort
                        \/ ~Closes(t, q) /\ relays'[q] = relays[q]
    BY <2>1, <2>3, <2>4
  <2>7. QED
    BY <2>1, <2>2, <2>5, <2>6, QueueReconciles
<1>3. ASSUME NEW p \in Peer, JoinGame(p) \/ ConnectToPeer(p)
      PROVE  SerialInv'
  BY <1>2, <1>3 DEF JoinGame, ConnectToPeer
<1>4. ASSUME NEW p \in Peer, DisconnectFromPeer(p) PROVE SerialInv'
  <2> DEFINE t == [task |-> "DisconnectFromPeer", id |-> p]
  <2>1. t \in Task /\ Closes(t, p) /\ \A q \in Peer \ {p} : ~Closes(t, q)
    BY DEF Task, Closes
  <2>2. /\ relays' \in [Peer -> Address]
        /\ relays'[p] = NoPort
        /\ \A q \in Peer \ {p} : relays'[q] = relays[q]
    BY <1>4 DEF DisconnectFromPeer, TypeOK, Address
  <2>3. QueueGameTask(t, relays') /\ UNCHANGED serverVars
    BY <1>4 DEF DisconnectFromPeer
  <2> HIDE DEF t
  <2>4. \A q \in Peer : \/ Opens(t, q, relays')
                        \/ Closes(t, q) /\ relays'[q] = NoPort
                        \/ ~Closes(t, q) /\ relays'[q] = relays[q]
    BY <2>1, <2>2
  <2>5. QED
    BY <2>1, <2>2, <2>3, <2>4, QueueReconciles
<1>5. ASSUME NEW c \in Connection, OnGameConnected(c) PROVE SerialInv'
  <2>1. connectedSockets = {} /\ connectedSockets' = {c}
    BY <1>5 DEF OnGameConnected, OnNewClient, HasConnectedClient
  <2>2. posted = <<>> /\ posted' = posted /\ Reachable' = {c} /\ Reachable = {}
        /\ unpolled' = {}
    <3>1. ToSet(posted) = {} /\ posted' = posted
      BY <1>5, <2>1 DEF SerialInv, RemovedOnce, OnGameConnected, OnNewClient
    <3>2. posted = <<>>
      <4>1. DOMAIN posted = {}
        BY <3>1 DEF ToSet
      <4>2. posted \in Seq(Connection) /\ Len(posted) = 0
        BY <4>1 DEF TypeOK, ServerTypeOK
      <4>3. QED
        BY <4>2
    <3>3. QED
      BY <1>5, <2>1, <3>1, <3>2 DEF Reachable, OnGameConnected, OnNewClient
  <2>3. RemovedOnce' /\ OneConnection'
    BY <2>1, <2>2 DEF SerialInv, RemovedOnce, OneConnection, ToSet
  <2>4. Forgotten' /\ Reconciles'
    BY <1>5, <2>1, <2>2 DEF SerialInv, Forgotten, Reconciles, HasConnectedClient,
                     OnGameConnected, adapterVars, gameVars
  <2>5. QED
    BY <2>3, <2>4 DEF SerialInv
<1>6. ASSUME NEW c \in Connection, GameCloses(c) PROVE SerialInv'
  <2>1. RemovedOnce'
    BY <1>6, NextRemovedOnce DEF SerialInv, Next, Game
  <2>2. Reachable = {c} /\ connectedSockets = {c} /\ connectedSockets' = {c}
    BY <1>6 DEF GameCloses, OnClientDisconnect, CanRaiseEvent, Reachable,
                SerialInv, OneConnection
  <2>3. Reachable' = {}
    <3>1. c \in ToSet(posted')
      <4>1. posted' = Append(posted, c)
        BY <1>6 DEF GameCloses, OnClientDisconnect
      <4>2. posted'[Len(posted) + 1] = c /\ Len(posted) + 1 \in DOMAIN posted'
        BY <4>1, AppendProperties DEF TypeOK, ServerTypeOK
      <4>3. QED
        BY <4>2 DEF ToSet
    <3>2. QED
      BY <2>2, <3>1 DEF Reachable
  <2>4. \A d \in Connection : view'[d] = NoRelays
    BY <1>6, <2>2 DEF GameCloses, SerialInv, Forgotten, TypeOK
  <2>5. QED
    BY <2>1, <2>2, <2>3, <2>4
       DEF SerialInv, OneConnection, Forgotten, Reconciles, HasConnectedClient
<1>7. ASSUME NEW c \in Connection, OnGameDisconnected(c) PROVE SerialInv'
  <2>1. RemovedOnce'
    BY <1>7, NextRemovedOnce DEF SerialInv, Next, Game
  <2>2. c \in ToSet(posted)
    <3>1. c = posted[1] /\ 1 \in DOMAIN posted
      BY <1>7 DEF OnGameDisconnected, OnMessage, TypeOK, ServerTypeOK
    <3>2. QED
      BY <3>1 DEF ToSet
  <2>3. connectedSockets = {c} /\ Reachable = {}
    BY <2>2 DEF SerialInv, RemovedOnce, OneConnection, Reachable
  <2>4. connectedSockets' = {} /\ Reachable' = {} /\ relays' = NoRelays
        /\ view' = view
    BY <1>7, <2>3 DEF OnGameDisconnected, OnMessage, Reachable, gameVars
  <2>5. QED
    BY <2>1, <2>3, <2>4, AfterWithoutRelays
       DEF SerialInv, OneConnection, Forgotten, Reconciles, HasConnectedClient
<1>8. ASSUME NEW c \in Connection, NEW s \in GameStates, OnGpgNetMessage(c, s)
      PROVE  SerialInv'
  <2>1. /\ UNCHANGED <<serverVars, relays>>
        /\ TryExecuteGameTasks(gameTasks, s, relays)
    BY <1>8 DEF OnGpgNetMessage
  <2>2. CanRaiseEvent(c)
    BY <1>8 DEF OnGpgNetMessage
  <2>3. Forgotten' /\ Reconciles'
    BY <2>1, LoopReconciles DEF SerialInv, Reconciles, TypeOK, Address
  <2>4. RemovedOnce' /\ OneConnection'
    BY <2>1 DEF SerialInv, RemovedOnce, OneConnection, Reachable, ToSet,
                serverVars
  <2>5. QED
    BY <2>3, <2>4 DEF SerialInv
<1>9. CASE \/ \E m \in InitModes : SetLobbyInitMode(m)
           \/ \E l \in IceServers \cup {NoServers} : SetIceServers(l)
           \/ UNCHANGED vars
  BY <1>9 DEF SetLobbyInitMode, SetIceServers, vars, serverVars, gameVars,
     adapterVars, SerialInv, RemovedOnce, OneConnection, Forgotten, Reconciles,
     Reachable, ToSet, HasConnectedClient
<1>10. QED
  BY <1>1, <1>3, <1>4, <1>5, <1>6, <1>7, <1>8, <1>9 DEF Next, Client, Game

\* With one game at a time, what is queued always reconciles the game's
\* address table with the relays, across the end and the restart of the game.
THEOREM QueueReconcilesGame == Overlap = FALSE => (Spec => []Reconciles)
<1> SUFFICES ASSUME Overlap = FALSE PROVE Spec => []Reconciles
  OBVIOUS
<1>1. Init => SerialInv
  BY InitSerial
<1>2. TypeOK /\ SerialInv /\ [Next]_vars => SerialInv'
  BY NextSerial
<1>3. SerialInv => Reconciles
  BY DEF SerialInv
<1>4. QED
  BY <1>1, <1>2, <1>3, Typing, PTL DEF Spec

\* Hence a game in its lobby has exactly the relays' addresses: the loop left
\* nothing queued (NoLostWakeup).
THEOREM GameInSync == Overlap = FALSE => (Spec => []LobbyInSync)
<1> SUFFICES ASSUME Overlap = FALSE PROVE Spec => []LobbyInSync
  OBVIOUS
<1>1. TypeOK /\ HeadBlocked /\ Reconciles => LobbyInSync
  <2> SUFFICES ASSUME TypeOK, HeadBlocked, Reconciles, gameState = "Lobby",
                      NEW c \in Reachable
               PROVE  view[c] = relays
    BY DEF LobbyInSync
  <2>1. gameTasks = <<>>
    BY DEF HeadBlocked, Blocked, HasConnectedClient, Reachable
  <2>2. After(view[c], gameTasks, relays) = relays
    BY DEF Reconciles
  <2>3. view[c] \in [Peer -> Address]
    BY DEF Reachable, TypeOK, ServerTypeOK, Address
  <2>4. After(view[c], <<>>, relays) = view[c]
    BY <2>3 DEF After
  <2>5. QED
    BY <2>1, <2>2, <2>4
<1>2. QED
  BY <1>1, QueueReconcilesGame, NoLostWakeup, Typing, PTL
-----------------------------------------------------------------------------
(* The ICE server list of the relays.                                      *)

LEMMA NextIceServers ==
  TypeOK /\ IceServersInSync /\ [Next]_vars => IceServersInSync'
<1> SUFFICES ASSUME TypeOK, IceServersInSync, [Next]_vars
             PROVE  IceServersInSync'
  OBVIOUS
<1> USE DEF IceServersInSync
<1>1. ASSUME NEW p \in Peer, CreatePeerRelay(p), UNCHANGED iceServers
      PROVE  IceServersInSync'
  BY <1>1, IceAdapterAssumption DEF CreatePeerRelay, TypeOK
<1>2. ASSUME NEW p \in Peer, JoinGame(p) \/ ConnectToPeer(p)
      PROVE  IceServersInSync'
  BY <1>1, <1>2 DEF JoinGame, ConnectToPeer
<1>3. ASSUME NEW p \in Peer, DisconnectFromPeer(p) PROVE IceServersInSync'
  BY <1>3 DEF DisconnectFromPeer, TypeOK
<1>4. ASSUME NEW l, SetIceServers(l) PROVE IceServersInSync'
  BY <1>4 DEF SetIceServers
<1>5. ASSUME NEW c \in Connection, OnGameDisconnected(c)
      PROVE  IceServersInSync'
  BY <1>5 DEF OnGameDisconnected, NoRelays
<1>6. CASE UNCHANGED <<relays, relayIce, iceServers>>
  BY <1>6
<1>7. QED
  BY <1>2, <1>3, <1>4, <1>5, <1>6
     DEF Next, Client, Game, HostGame, SetLobbyInitMode, OnGameConnected,
         GameCloses, OnGpgNetMessage, vars, adapterVars

\* Every relay has the list the client set last (setIceServers,
\* _createPeerRelay), for any number of games.
THEOREM RelaysHaveIceServers == Spec => []IceServersInSync
<1>1. Init => IceServersInSync
  BY DEF Init, IceServersInSync, NoRelays
<1>2. QED
  BY <1>1, NextIceServers, Typing, PTL DEF Spec

-----------------------------------------------------------------------------
(* What is reported of the game.                                           *)

\* A handler without a game has reported nothing: the next game that uses it
\* starts with "None", and so does the adapter.
NothingReported == \A c \in Connection : c \notin Reachable => reported[c] = "None"
StatusInv == StateNeedsClient /\ NothingReported /\ GameStateCurrent /\ ClientKnows

LEMMA NextStatus ==
  ASSUME Overlap = FALSE, TypeOK, SerialInv, StatusInv, HeadBlocked, [Next]_vars
  PROVE  StatusInv'
<1> USE DEF StatusInv, NothingReported, GameStateCurrent, ClientKnows
<1>1. StateNeedsClient'
  BY NextHeadBlocked
<1>2. CASE UNCHANGED <<serverVars, gameState, reported, clientSees>>
  BY <1>1, <1>2 DEF serverVars, Reachable, HasConnectedClient
<1>3. ASSUME NEW c \in Connection, OnGameConnected(c) PROVE StatusInv'
  <2>1. /\ gameState = "None"
        /\ Reachable' \subseteq {c}
        /\ c \notin Reachable
        /\ HasConnectedClient'
    BY <1>3 DEF OnGameConnected, OnNewClient, HasConnectedClient, Reachable,
                StateNeedsClient
  <2>2. /\ UNCHANGED <<gameState, reported>>
        /\ clientSees' = "Connected"
    BY <1>3 DEF OnGameConnected, adapterVars, gameVars
  <2>3. Reachable = {}
    BY <1>3 DEF OnGameConnected, OnNewClient, HasConnectedClient, Reachable
  <2>4. QED
    BY <1>1, <2>1, <2>2, <2>3
<1>4. ASSUME NEW c \in Connection, GameCloses(c) PROVE StatusInv'
  <2>1. /\ c \in Reachable
        /\ connectedSockets' = connectedSockets
        /\ Reachable' \subseteq Reachable
        /\ Reachable \ Reachable' \subseteq {c}
        /\ c \notin Reachable'
    <3>1. posted' = Append(posted, c) /\ connectedSockets' = connectedSockets
          /\ c \in Reachable
      BY <1>4 DEF GameCloses, OnClientDisconnect, CanRaiseEvent
    <3>2. ToSet(posted') = ToSet(posted) \cup {c}
      <4>1. /\ DOMAIN posted' = 1 .. Len(posted) + 1
            /\ \A i \in 1 .. Len(posted) : posted'[i] = posted[i]
            /\ posted'[Len(posted) + 1] = c
            /\ DOMAIN posted = 1 .. Len(posted)
        BY <3>1, AppendProperties DEF TypeOK, ServerTypeOK
      <4>2. Len(posted) \in Nat
        BY DEF TypeOK, ServerTypeOK
      <4>3. QED
        BY <4>1, <4>2 DEF ToSet
    <3>3. QED
      BY <3>1, <3>2 DEF Reachable
  <2>2. /\ reported' = [reported EXCEPT ![c] = "None"]
        /\ UNCHANGED <<gameState, clientSees>>
    BY <1>4 DEF GameCloses, adapterVars
  <2>3. Reachable \subseteq Connection
    BY DEF Reachable, TypeOK, ServerTypeOK
  <2>4. QED
    BY <1>1, <2>1, <2>2, <2>3 DEF TypeOK, HasConnectedClient
<1>5. ASSUME NEW c \in Connection, OnGameDisconnected(c) PROVE StatusInv'
  <2>1. c \in ToSet(posted)
    <3>1. c = posted[1] /\ 1 \in DOMAIN posted
      BY <1>5 DEF OnGameDisconnected, OnMessage, TypeOK, ServerTypeOK
    <3>2. QED
      BY <3>1 DEF ToSet
  <2>2. connectedSockets = {c} /\ Reachable = {}
    BY <2>1 DEF SerialInv, RemovedOnce, OneConnection, Reachable
  <2>3. /\ connectedSockets' = {} /\ Reachable' = {}
        /\ clientSees' = "Disconnected"
        /\ reported' = reported
    BY <1>5, <2>2 DEF OnGameDisconnected, OnMessage, Reachable, gameVars
  <2>4. QED
    BY <1>1, <2>2, <2>3 DEF HasConnectedClient
<1>6. ASSUME NEW c \in Connection, NEW s \in GameStates, OnGpgNetMessage(c, s)
      PROVE  StatusInv'
  <2>1. /\ UNCHANGED <<serverVars, clientSees>>
        /\ gameState' = s
        /\ reported' = [reported EXCEPT ![c] = s]
        /\ c \in Reachable
    BY <1>6 DEF OnGpgNetMessage, CanRaiseEvent
  <2>2. Reachable = {c} /\ Reachable' = Reachable
    BY <2>1 DEF Reachable, SerialInv, OneConnection, serverVars
  <2>3. QED
    BY <1>1, <2>1, <2>2 DEF TypeOK, serverVars, HasConnectedClient
<1>7. QED
  BY <1>2, <1>3, <1>4, <1>5, <1>6
     DEF Next, Client, Game, HostGame, JoinGame, ConnectToPeer,
         DisconnectFromPeer, SetLobbyInitMode, SetIceServers, vars, adapterVars,
         gameVars

LEMMA StatusAlways == Overlap = FALSE => (Spec => []StatusInv)
<1> SUFFICES ASSUME Overlap = FALSE PROVE Spec => []StatusInv
  OBVIOUS
<1>1. Init => SerialInv
  BY InitSerial
<1>2. Init => StatusInv
  BY DEF Init, ServerInit, StatusInv, StateNeedsClient, NothingReported,
         GameStateCurrent, ClientKnows, Reachable, HasConnectedClient
<1>3. TypeOK /\ SerialInv /\ StatusInv /\ HeadBlocked /\ [Next]_vars
        => SerialInv' /\ StatusInv'
  BY NextSerial, NextStatus
<1>4. QED
  BY <1>1, <1>2, <1>3, Typing, NoLostWakeup, PTL DEF Spec

\* With one game at a time, status() has the state the game last reported
\* (_onGpgNetMessage, _onGameDisconnected).
THEOREM StateAsReported == Overlap = FALSE => (Spec => []GameStateCurrent)
  BY StatusAlways, PTL DEF StatusInv

\* With one game at a time, the client's last onConnectionStateChanged is true
\* (_onGameConnected, _onGameDisconnected).
THEOREM ClientIsTold == Overlap = FALSE => (Spec => []ClientKnows)
  BY StatusAlways, PTL DEF StatusInv

-----------------------------------------------------------------------------
(* The role of the game.                                                   *)

\* No call of joinGame waits; a call of hostGame waits, and none of joinGame
\* after it.
NoJoin(tasks) == \A i \in DOMAIN tasks : tasks[i].task # "JoinGame"
HostLast(tasks) ==
  \E i \in DOMAIN tasks :
    /\ Hosts(tasks[i])
    /\ \A j \in DOMAIN tasks : j > i => tasks[j].task # "JoinGame"

\* What makes a game with address table and role r host in the end.
WillHost(r, tasks) == HostLast(tasks) \/ (NoJoin(tasks) /\ r = "Hosting")

HostInv ==
  taskString = "Hosting" =>
    /\ \A c \in Reachable : WillHost(role[c], gameTasks)
    /\ ~HasConnectedClient => HostLast(gameTasks)

\* That holds for what is left when the first tasks were executed.
LEMMA WillHostSplit ==
  ASSUME NEW tasks \in Seq(Task), NEW n \in 0 .. Len(tasks), NEW r, NEW tbl,
         WillHost(r, tasks)
  PROVE  WillHost(RoleAfter(r, SubSeq(tasks, 1, n), tbl),
                  SubSeq(tasks, n + 1, Len(tasks)))
<1> DEFINE done == SubSeq(tasks, 1, n)
           rest == SubSeq(tasks, n + 1, Len(tasks))
<1>1. /\ DOMAIN done = 1 .. n
      /\ \A i \in 1 .. n : done[i] = tasks[i]
  BY SplitAt
<1>2. /\ DOMAIN rest = 1 .. Len(tasks) - n
      /\ \A i \in 1 .. Len(tasks) - n : rest[i] = tasks[n + i]
  BY SplitAt
<1>3. DOMAIN tasks = 1 .. Len(tasks) /\ Len(tasks) \in Nat
  OBVIOUS
<1> HIDE DEF done, rest
<1>4. CASE NoJoin(tasks) /\ r = "Hosting"
  <2>1. NoJoin(rest) /\ NoJoin(done)
    BY <1>1, <1>2, <1>3, <1>4 DEF NoJoin
  <2>2. RoleAfter(r, done, tbl) = "Hosting"
    BY <1>4, <2>1 DEF RoleAfter, NoJoin, Joins
  <2>3. QED
    BY <2>1, <2>2 DEF WillHost, done, rest
<1>5. CASE HostLast(tasks)
  <2>1. PICK i \in DOMAIN tasks :
          /\ Hosts(tasks[i])
          /\ \A j \in DOMAIN tasks : j > i => tasks[j].task # "JoinGame"
    BY <1>5 DEF HostLast
  <2>2. CASE i > n
    <3>1. i - n \in DOMAIN rest /\ rest[i - n] = tasks[i]
      BY <1>2, <1>3, <2>2
    <3>2. \A j \in DOMAIN rest : j > i - n => rest[j].task # "JoinGame"
      <4> SUFFICES ASSUME NEW j \in DOMAIN rest, j > i - n
                   PROVE  rest[j].task # "JoinGame"
        OBVIOUS
      <4>1. n + j \in DOMAIN tasks /\ n + j > i /\ rest[j] = tasks[n + j]
        BY <1>2, <1>3
      <4>2. QED
        BY <2>1, <4>1
    <3>3. HostLast(rest)
      BY <2>1, <3>1, <3>2 DEF HostLast
    <3>4. QED
      BY <3>3 DEF WillHost, rest
  <2>3. CASE i <= n
    <3>1. i \in DOMAIN done /\ Hosts(done[i])
      BY <1>1, <1>3, <2>1, <2>3
    <3>2. \A j \in DOMAIN done : j > i => ~Joins(done[j], tbl)
      BY <1>1, <1>3, <2>1 DEF Joins
    <3>3. RoleAfter(r, done, tbl) = "Hosting"
      BY <3>1, <3>2 DEF RoleAfter
    <3>4. NoJoin(rest)
      <4> SUFFICES ASSUME NEW j \in DOMAIN rest
                   PROVE  rest[j].task # "JoinGame"
        BY DEF NoJoin
      <4>1. n + j \in DOMAIN tasks /\ n + j > i /\ rest[j] = tasks[n + j]
        BY <1>2, <1>3, <2>3
      <4>2. QED
        BY <2>1, <4>1
    <3>5. QED
      BY <3>3, <3>4 DEF WillHost, done, rest
  <2>4. QED
    BY <1>3, <2>2, <2>3
<1>6. QED
  BY <1>4, <1>5 DEF WillHost

\* A run of the loop keeps the promise, whatever it executes.
LEMMA LoopHosts ==
  ASSUME TypeOK, NEW tasks \in Seq(Task), NEW state, NEW tbl,
         TryExecuteGameTasks(tasks, state, tbl), UNCHANGED serverVars,
         taskString' = "Hosting" =>
           /\ \A c \in Reachable : WillHost(role[c], tasks)
           /\ ~HasConnectedClient => HostLast(tasks)
  PROVE  HostInv'
<1>1. Reachable' = Reachable /\ HasConnectedClient' = HasConnectedClient
  BY DEF Reachable, HasConnectedClient, serverVars
<1>2. CASE ~HasConnectedClient
  <2>1. gameTasks' = tasks /\ role' = role
    BY <1>2 DEF TryExecuteGameTasks
  <2>2. QED
    BY <1>1, <2>1 DEF HostInv
<1>3. CASE HasConnectedClient
  <2>1. PICK n \in 0 .. Len(tasks) :
          /\ gameTasks' = SubSeq(tasks, n + 1, Len(tasks))
          /\ role' = [c \in Connection |->
                        IF c \in Reachable
                          THEN RoleAfter(role[c], SubSeq(tasks, 1, n), tbl)
                          ELSE role[c]]
    BY <1>3 DEF TryExecuteGameTasks
  <2>2. Reachable \subseteq Connection
    BY DEF Reachable, TypeOK, ServerTypeOK
  <2>3. ASSUME taskString' = "Hosting", NEW c \in Reachable
        PROVE  WillHost(role'[c], gameTasks')
    <3>1. role'[c] = RoleAfter(role[c], SubSeq(tasks, 1, n), tbl)
      BY <2>1, <2>2
    <3>2. WillHost(role[c], tasks)
      BY <2>3
    <3>3. QED
      BY <2>1, <3>1, <3>2, WillHostSplit
  <2>4. QED
    BY <1>1, <1>3, <2>3 DEF HostInv
<1>4. QED
  BY <1>2, <1>3

\* A task that is no joinGame does not take the promise back, and hostGame
\* makes it.
LEMMA HostAppend ==
  ASSUME NEW tasks \in Seq(Task), NEW t \in Task, t.task # "JoinGame", NEW r
  PROVE  /\ HostLast(tasks) => HostLast(Append(tasks, t))
         /\ WillHost(r, tasks) => WillHost(r, Append(tasks, t))
         /\ Hosts(t) => HostLast(Append(tasks, t))
<1> DEFINE all == Append(tasks, t)
           last == Len(tasks) + 1
<1>1. /\ DOMAIN all = 1 .. last
      /\ \A i \in DOMAIN tasks : all[i] = tasks[i] /\ i \in DOMAIN all /\ i < last
      /\ all[last] = t
      /\ \A i \in DOMAIN all : i = last \/ i \in DOMAIN tasks
  BY AppendProperties
<1> HIDE DEF all
<1>2. HostLast(tasks) => HostLast(all)
  BY <1>1 DEF HostLast
<1>3. NoJoin(tasks) => NoJoin(all)
  BY <1>1 DEF NoJoin
<1>4. Hosts(t) => HostLast(all)
  BY <1>1 DEF HostLast
<1>5. QED
  BY <1>2, <1>3, <1>4 DEF WillHost, all

LEMMA NextHost ==
  ASSUME Overlap = FALSE, TypeOK, SerialInv, HostInv, [Next]_vars
  PROVE  HostInv'
<1>1. CASE HostGame
  <2> DEFINE t == [task |-> "HostGame", id |-> NoPeer]
  <2>1. t \in Task /\ Hosts(t) /\ t.task # "JoinGame"
    BY DEF Task, LobbyTasks, Hosts
  <2>2. UNCHANGED serverVars /\ TryExecuteGameTasks(Append(gameTasks, t), gameState, relays)
    BY <1>1 DEF HostGame, QueueGameTask
  <2>3. gameTasks \in Seq(Task)
    BY DEF TypeOK
  <2> HIDE DEF t
  <2>4. Append(gameTasks, t) \in Seq(Task) /\ HostLast(Append(gameTasks, t))
    BY <2>1, <2>3, HostAppend, AppendProperties
  <2>5. QED
    BY <2>2, <2>4, LoopHosts DEF WillHost
<1>2. ASSUME NEW t \in Task, t.task # "JoinGame", QueueGameTask(t, relays'),
             UNCHANGED <<serverVars, taskString>>
      PROVE  HostInv'
  <2>1. gameTasks \in Seq(Task)
    BY DEF TypeOK
  <2>2. Append(gameTasks, t) \in Seq(Task)
    BY <2>1, AppendProperties
  <2>3. TryExecuteGameTasks(Append(gameTasks, t), gameState, relays')
    BY <1>2 DEF QueueGameTask
  <2>4. taskString = "Hosting" =>
          /\ \A c \in Reachable : WillHost(role[c], Append(gameTasks, t))
          /\ ~HasConnectedClient => HostLast(Append(gameTasks, t))
    BY <1>2, <2>1, HostAppend DEF HostInv
  <2>5. QED
    BY <1>2, <2>2, <2>3, <2>4, LoopHosts
<1>3. ASSUME NEW p \in Peer, JoinGame(p) PROVE HostInv'
  BY <1>3 DEF JoinGame, HostInv
<1>4. ASSUME NEW p \in Peer, ConnectToPeer(p) PROVE HostInv'
  <2>1. [task |-> "ConnectToPeer", id |-> p] \in Task
    BY DEF Task, LobbyTasks
  <2>2. QED
    BY <1>2, <1>4, <2>1 DEF ConnectToPeer
<1>5. ASSUME NEW p \in Peer, DisconnectFromPeer(p) PROVE HostInv'
  <2>1. [task |-> "DisconnectFromPeer", id |-> p] \in Task
    BY DEF Task
  <2>2. QED
    BY <1>2, <1>5, <2>1 DEF DisconnectFromPeer
<1>6. ASSUME NEW c \in Connection, OnGameConnected(c) PROVE HostInv'
  <2>1. ~HasConnectedClient
    BY <1>6 DEF OnGameConnected, OnNewClient
  <2>2. UNCHANGED <<taskString, gameTasks>> /\ HasConnectedClient'
    BY <1>6 DEF OnGameConnected, OnNewClient, adapterVars, HasConnectedClient
  <2>3. QED
    BY <2>1, <2>2 DEF HostInv, WillHost
<1>7. ASSUME NEW c \in Connection, GameCloses(c) PROVE HostInv'
  <2>1. /\ UNCHANGED <<connectedSockets, taskString, gameTasks>>
        /\ \A d \in Connection \ {c} : role'[d] = role[d]
    BY <1>7 DEF GameCloses, OnClientDisconnect, adapterVars, TypeOK
  <2>2. posted' = Append(posted, c) /\ posted \in Seq(Connection)
    BY <1>7 DEF GameCloses, OnClientDisconnect, TypeOK, ServerTypeOK
  <2>3. /\ \A i \in DOMAIN posted : i \in DOMAIN posted' /\ posted'[i] = posted[i]
        /\ Len(posted) + 1 \in DOMAIN posted' /\ posted'[Len(posted) + 1] = c
    BY <2>2, AppendProperties
  <2>4. ToSet(posted) \cup {c} \subseteq ToSet(posted')
    BY <2>3 DEF ToSet
  <2>5. Reachable' \subseteq Reachable \ {c} /\ Reachable \subseteq Connection
    BY <2>1, <2>4 DEF Reachable, TypeOK, ServerTypeOK
  <2>6. QED
    BY <2>1, <2>5 DEF HostInv, HasConnectedClient
<1>8. ASSUME NEW c \in Connection, OnGameDisconnected(c) PROVE HostInv'
  BY <1>8 DEF OnGameDisconnected, HostInv
<1>9. ASSUME NEW c \in Connection, NEW s \in GameStates, OnGpgNetMessage(c, s)
      PROVE  HostInv'
  <2>1. /\ UNCHANGED <<serverVars, taskString>>
        /\ TryExecuteGameTasks(gameTasks, s, relays)
    BY <1>9 DEF OnGpgNetMessage
  <2>2. QED
    BY <2>1, LoopHosts DEF HostInv, TypeOK
<1>10. CASE \/ \E m \in InitModes : SetLobbyInitMode(m)
            \/ \E l \in IceServers \cup {NoServers} : SetIceServers(l)
            \/ UNCHANGED vars
  BY <1>10 DEF SetLobbyInitMode, SetIceServers, vars, serverVars, gameVars,
     adapterVars, HostInv, Reachable, ToSet, HasConnectedClient
<1>11. QED
  BY <1>1, <1>3, <1>4, <1>5, <1>6, <1>7, <1>8, <1>9, <1>10
     DEF Next, Client, Game

\* With one game at a time, the game in its lobby hosts if hostGame was called
\* last, whatever waited in the queue (hostGame, joinGame and the loop).
THEOREM HostsAsCalled == Overlap = FALSE => (Spec => []HostsAsTold)
<1> SUFFICES ASSUME Overlap = FALSE PROVE Spec => []HostsAsTold
  OBVIOUS
<1>1. Init => SerialInv
  BY InitSerial
<1>2. Init => HostInv
  BY DEF Init, HostInv
<1>3. TypeOK /\ SerialInv /\ HostInv /\ [Next]_vars => SerialInv' /\ HostInv'
  BY NextSerial, NextHost
<1>4. TypeOK /\ HeadBlocked /\ HostInv => HostsAsTold
  <2> SUFFICES ASSUME TypeOK, HeadBlocked, HostInv, NEW c \in Reachable,
                      taskString = "Hosting", gameState = "Lobby"
               PROVE  role[c] = "Hosting"
    BY DEF HostsAsTold
  <2>1. gameTasks = <<>>
    BY DEF HeadBlocked, Blocked, HasConnectedClient, Reachable
  <2>2. ~HostLast(gameTasks)
    BY <2>1 DEF HostLast
  <2>3. QED
    BY <2>2 DEF HostInv, WillHost
<1>5. QED
  BY <1>1, <1>2, <1>3, <1>4, Typing, NoLostWakeup, PTL DEF Spec
-----------------------------------------------------------------------------
(* The adapter implements a lobby in which calls take effect at once.      *)

\* A handler without a game has told no role to the next one, and a game that
\* has reported nothing yet has no address.
RoleForgotten == \A c \in Connection : c \notin Reachable => role[c] = "none"
Unaddressed == gameState = "None" => \A c \in Connection : view[c] = NoRelays

GameTable == IF Reachable = {} THEN NoRelays ELSE view[TheGame]
GameRole == IF Reachable = {} THEN "none" ELSE role[TheGame]
InLobby == Reachable # {} /\ gameState = "Lobby"

\* Outside the lobby the loop executes no task but those that close.
LEMMA OnlyCloses ==
  ASSUME NEW tasks \in Seq(Task), NEW state, state # "Lobby",
         NEW n \in 0 .. Len(tasks), Executes(n, tasks, state)
  PROVE  \A i \in DOMAIN SubSeq(tasks, 1, n) :
           /\ SubSeq(tasks, 1, n)[i].task = "DisconnectFromPeer"
           /\ i \in DOMAIN tasks /\ SubSeq(tasks, 1, n)[i] = tasks[i]
<1> DEFINE done == SubSeq(tasks, 1, n)
<1>1. DOMAIN done = 1 .. n /\ \A i \in 1 .. n : done[i] = tasks[i]
  BY SplitAt
<1>2. \A i \in 1 .. n : i \in DOMAIN tasks /\ tasks[i] \in Task
  OBVIOUS
<1>3. \A i \in 1 .. n : tasks[i].task \notin LobbyTasks
  BY DEF Executes, Blocked
<1>4. \A i \in 1 .. n : tasks[i].task = "DisconnectFromPeer"
  BY <1>2, <1>3 DEF Task
<1> HIDE DEF done
<1>5. QED
  BY <1>1, <1>2, <1>4 DEF done

\* So the loop tells no role there and no address, and takes one away only if a
\* task says so.
LEMMA LoopFades ==
  ASSUME TypeOK, NEW tasks \in Seq(Task), NEW state, state # "Lobby", NEW tbl,
         TryExecuteGameTasks(tasks, state, tbl)
  PROVE  /\ role' = role
         /\ \A c \in Connection, p \in Peer :
              \/ view'[c][p] = view[c][p]
              \/ view'[c][p] = NoPort /\ SomeCloses(tasks, p)
         /\ \A c \in Connection : view[c] = NoRelays => view'[c] = NoRelays
<1>1. CASE ~HasConnectedClient
  BY <1>1 DEF TryExecuteGameTasks
<1>2. CASE HasConnectedClient
  <2>1. PICK n \in 0 .. Len(tasks) :
          /\ Executes(n, tasks, state)
          /\ view' = [c \in Connection |->
                        IF c \in Reachable
                          THEN After(view[c], SubSeq(tasks, 1, n), tbl)
                          ELSE view[c]]
          /\ role' = [c \in Connection |->
                        IF c \in Reachable
                          THEN RoleAfter(role[c], SubSeq(tasks, 1, n), tbl)
                          ELSE role[c]]
    BY <1>2 DEF TryExecuteGameTasks
  <2> DEFINE done == SubSeq(tasks, 1, n)
  <2>2. \A i \in DOMAIN done : /\ done[i].task = "DisconnectFromPeer"
                               /\ i \in DOMAIN tasks /\ done[i] = tasks[i]
    BY <2>1, OnlyCloses
  <2> HIDE DEF done
  <2>3. \A r : RoleAfter(r, done, tbl) = r
    BY <2>2 DEF RoleAfter, Hosts, Joins
  <2>4. role' = role
    BY <2>1, <2>3 DEF done, TypeOK
  <2>5. ASSUME NEW v, NEW p \in Peer
        PROVE  After(v, done, tbl)[p] = IF SomeCloses(done, p) THEN NoPort ELSE v[p]
    <3>1. ~LastOpens(done, p, tbl)
      BY <2>2 DEF LastOpens, Opens
    <3>2. QED
      BY <3>1, AfterAt
  <2>6. \A p \in Peer : SomeCloses(done, p) => SomeCloses(tasks, p)
    BY <2>2 DEF SomeCloses
  <2>7. \A c \in Connection, p \in Peer :
          \/ view'[c][p] = view[c][p]
          \/ view'[c][p] = NoPort /\ SomeCloses(tasks, p)
    BY <2>1, <2>5, <2>6 DEF done
  <2>8. After(NoRelays, done, tbl) = NoRelays
    <3>1. \A p \in Peer : After(NoRelays, done, tbl)[p] = NoRelays[p]
      BY <2>5 DEF NoRelays
    <3>2. NoRelays \in [Peer -> Address]
      BY DEF NoRelays, Address
    <3>3. QED
      BY <3>1, <3>2, SameTable
  <2>9. \A c \in Connection : view[c] = NoRelays => view'[c] = NoRelays
    BY <2>1, <2>8 DEF done
  <2>10. QED
    BY <2>4, <2>7, <2>9
<1>3. QED
  BY <1>1, <1>2

\* At a task that waits it does nothing.
LEMMA LoopWaits ==
  ASSUME TypeOK, NEW tasks \in Seq(Task), NEW state, NEW tbl,
         tasks # <<>> => Blocked(tasks[1], state),
         TryExecuteGameTasks(tasks, state, tbl)
  PROVE  view' = view /\ role' = role
<1>1. CASE ~HasConnectedClient
  BY <1>1 DEF TryExecuteGameTasks
<1>2. CASE HasConnectedClient
  <2>1. PICK n \in 0 .. Len(tasks) :
          /\ Executes(n, tasks, state)
          /\ view' = [c \in Connection |->
                        IF c \in Reachable
                          THEN After(view[c], SubSeq(tasks, 1, n), tbl)
                          ELSE view[c]]
          /\ role' = [c \in Connection |->
                        IF c \in Reachable
                          THEN RoleAfter(role[c], SubSeq(tasks, 1, n), tbl)
                          ELSE role[c]]
    BY <1>2 DEF TryExecuteGameTasks
  <2>2. n = 0
    <3>1. Len(tasks) \in Nat /\ (Len(tasks) > 0 => tasks # <<>>)
      OBVIOUS
    <3>2. 1 <= n => ~Blocked(tasks[1], state)
      BY <2>1, <3>1 DEF Executes
    <3>3. QED
      BY <3>1, <3>2
  <2> DEFINE done == SubSeq(tasks, 1, n)
  <2>3. DOMAIN done = {}
    BY <2>2, SplitAt
  <2> HIDE DEF done
  <2>4. \A r : RoleAfter(r, done, tbl) = r
    BY <2>3 DEF RoleAfter
  <2>5. ASSUME NEW v \in [Peer -> Address] PROVE After(v, done, tbl) = v
    BY <2>3 DEF After
  <2>6. view \in [Connection -> [Peer -> Address]] /\ role = [c \in Connection |-> role[c]]
    BY DEF TypeOK, Address
  <2>7. QED
    BY <2>1, <2>4, <2>5, <2>6 DEF done
<1>3. QED
  BY <1>1, <1>2

\* In the lobby the only task is executed.
LEMMA LoopTells ==
  ASSUME TypeOK, gameTasks = <<>>, NEW t \in Task, NEW tbl, NEW c \in Reachable,
         TryExecuteGameTasks(Append(gameTasks, t), "Lobby", tbl)
  PROVE  role'[c] = IF Hosts(t) THEN "Hosting"
                    ELSE IF Joins(t, tbl) THEN "Joining" ELSE role[c]
<1> DEFINE tasks == Append(gameTasks, t)
<1>1. tasks \in Seq(Task) /\ Len(tasks) = 1 /\ tasks[1] = t
  OBVIOUS
<1>2. HasConnectedClient /\ c \in Connection
  BY DEF HasConnectedClient, Reachable, TypeOK, ServerTypeOK
<1> HIDE DEF tasks
<1>3. PICK n \in 0 .. Len(tasks) :
        /\ Executes(n, tasks, "Lobby")
        /\ role' = [d \in Connection |->
                      IF d \in Reachable
                        THEN RoleAfter(role[d], SubSeq(tasks, 1, n), tbl)
                        ELSE role[d]]
  BY <1>2 DEF TryExecuteGameTasks, tasks
<1>4. n = 1
  <2>1. n < Len(tasks) => FALSE
    BY <1>3 DEF Executes, Blocked
  <2>2. QED
    BY <1>1, <2>1
<1> DEFINE done == SubSeq(tasks, 1, n)
<1>5. DOMAIN done = {1} /\ done[1] = t
  <2>1. DOMAIN done = 1 .. n /\ \A i \in 1 .. n : done[i] = tasks[i]
    BY <1>1, SplitAt
  <2>2. QED
    BY <1>1, <1>4, <2>1
<1>6. role'[c] = RoleAfter(role[c], done, tbl)
  BY <1>2, <1>3
<1> HIDE DEF done
<1>7. QED
  BY <1>5, <1>6 DEF RoleAfter

LobbyInv ==
  /\ TypeOK /\ SerialInv /\ HeadBlocked /\ StateNeedsClient /\ HostInv
  /\ RoleForgotten /\ Unaddressed

\* What is told goes to a connection with a game.
LEMMA LoopForgets ==
  ASSUME TypeOK, RoleForgotten, NEW tasks, NEW state, NEW tbl,
         TryExecuteGameTasks(tasks, state, tbl), UNCHANGED serverVars
  PROVE  RoleForgotten'
<1>1. Reachable' = Reachable
  BY DEF Reachable, serverVars
<1>2. \A c \in Connection : c \notin Reachable => role'[c] = role[c]
  BY DEF TryExecuteGameTasks
<1>3. QED
  BY <1>1, <1>2 DEF RoleForgotten

\* A run of a handler for a call of the client.
LEMMA CallKeeps ==
  ASSUME LobbyInv, NEW t \in Task, NEW tbl, QueueGameTask(t, tbl),
         UNCHANGED <<serverVars, gameState>>
  PROVE  RoleForgotten' /\ Unaddressed'
<1>1. /\ Append(gameTasks, t) \in Seq(Task) /\ TypeOK
      /\ TryExecuteGameTasks(Append(gameTasks, t), gameState, tbl)
  BY AppendProperties DEF LobbyInv, TypeOK, QueueGameTask
<1>2. RoleForgotten'
  BY <1>1, LoopForgets DEF LobbyInv
<1>3. gameState = "None" =>
        \A c \in Connection : view[c] = NoRelays => view'[c] = NoRelays
  BY <1>1, LoopFades
<1>4. Unaddressed'
  BY <1>3 DEF LobbyInv, Unaddressed
<1>5. QED
  BY <1>2, <1>4

\* Which games there are before and after the three events of a connection.
LEMMA GameConnectedIs ==
  ASSUME TypeOK, SerialInv, Overlap = FALSE, NEW c \in Connection, OnGameConnected(c)
  PROVE  Reachable = {} /\ connectedSockets = {} /\ Reachable' \subseteq {c}
  BY DEF OnGameConnected, OnNewClient, HasConnectedClient, Reachable

LEMMA GameClosesIs ==
  ASSUME TypeOK, SerialInv, NEW c \in Connection, GameCloses(c)
  PROVE  Reachable = {c} /\ Reachable' = {}
<1>1. Reachable = {c} /\ connectedSockets' = {c}
  BY DEF GameCloses, OnClientDisconnect, CanRaiseEvent, Reachable, SerialInv, OneConnection
<1>2. c \in ToSet(posted')
  <2>1. posted' = Append(posted, c)
    BY DEF GameCloses, OnClientDisconnect
  <2>2. posted'[Len(posted) + 1] = c /\ Len(posted) + 1 \in DOMAIN posted'
    BY <2>1, AppendProperties DEF TypeOK, ServerTypeOK
  <2>3. QED
    BY <2>2 DEF ToSet
<1>3. QED
  BY <1>1, <1>2 DEF Reachable

LEMMA GameDisconnectedIs ==
  ASSUME TypeOK, SerialInv, NEW c \in Connection, OnGameDisconnected(c)
  PROVE  Reachable = {} /\ Reachable' = {}
<1>1. c \in ToSet(posted)
  <2>1. c = posted[1] /\ 1 \in DOMAIN posted
    BY DEF OnGameDisconnected, OnMessage, TypeOK, ServerTypeOK
  <2>2. QED
    BY <2>1 DEF ToSet
<1>2. connectedSockets = {c} /\ Reachable = {}
  BY <1>1 DEF SerialInv, RemovedOnce, OneConnection, Reachable
<1>3. QED
  BY <1>2 DEF OnGameDisconnected, OnMessage, Reachable

LEMMA NextLobbyInv ==
  ASSUME Overlap = FALSE, LobbyInv, [Next]_vars
  PROVE  LobbyInv'
<1>1. /\ TypeOK' /\ SerialInv' /\ HeadBlocked' /\ StateNeedsClient' /\ HostInv'
      /\ TypeOK /\ SerialInv /\ RoleForgotten /\ Unaddressed
  BY NextTyping, NextSerial, NextHeadBlocked, NextHost DEF LobbyInv
<1>2. SUFFICES RoleForgotten' /\ Unaddressed'
  BY <1>1 DEF LobbyInv
<1>3. CASE HostGame
  <2>1. [task |-> "HostGame", id |-> NoPeer] \in Task
    BY DEF Task, LobbyTasks
  <2>2. QED
    BY <1>3, <2>1, CallKeeps DEF HostGame
<1>4. ASSUME NEW p \in Peer, JoinGame(p) \/ ConnectToPeer(p) \/ DisconnectFromPeer(p)
      PROVE  RoleForgotten' /\ Unaddressed'
  <2>1. \A x \in LobbyTasks \cup {"DisconnectFromPeer"} : [task |-> x, id |-> p] \in Task
    BY DEF Task
  <2>2. QED
    BY <1>4, <2>1, CallKeeps DEF JoinGame, ConnectToPeer, DisconnectFromPeer, LobbyTasks
<1>5. ASSUME NEW c \in Connection, NEW s \in GameStates, OnGpgNetMessage(c, s)
      PROVE  RoleForgotten' /\ Unaddressed'
  <2>1. /\ UNCHANGED serverVars /\ gameState' = s
        /\ TryExecuteGameTasks(gameTasks, s, relays)
    BY <1>5 DEF OnGpgNetMessage
  <2>2. RoleForgotten'
    BY <1>1, <2>1, LoopForgets
  <2>3. s # "None"
    BY DEF GameStates
  <2>4. QED
    BY <2>1, <2>2, <2>3 DEF Unaddressed
<1>6. ASSUME NEW c \in Connection, OnGameConnected(c) PROVE RoleForgotten' /\ Unaddressed'
  <2>1. Reachable = {}
    BY <1>1, <1>6, GameConnectedIs
  <2>2. UNCHANGED <<role, view, gameState>>
    BY <1>6 DEF OnGameConnected, adapterVars, gameVars
  <2>3. QED
    BY <1>1, <2>1, <2>2 DEF RoleForgotten, Unaddressed
<1>7. ASSUME NEW c \in Connection, GameCloses(c) PROVE RoleForgotten' /\ Unaddressed'
  <2>1. Reachable = {c}
    BY <1>1, <1>7, GameClosesIs
  <2>2. /\ gameState' = gameState
        /\ \A d \in Connection : role'[d] = IF d = c THEN "none" ELSE role[d]
        /\ \A d \in Connection : view'[d] = IF d = c THEN NoRelays ELSE view[d]
    BY <1>1, <1>7 DEF GameCloses, adapterVars, TypeOK
  <2>3. QED
    BY <1>1, <2>1, <2>2 DEF RoleForgotten, Unaddressed
<1>8. ASSUME NEW c \in Connection, OnGameDisconnected(c)
      PROVE  RoleForgotten' /\ Unaddressed'
  <2>1. Reachable = {}
    BY <1>1, <1>8, GameDisconnectedIs
  <2>2. UNCHANGED <<role, view>>
    BY <1>8 DEF OnGameDisconnected, gameVars
  <2>3. QED
    BY <1>1, <2>1, <2>2 DEF RoleForgotten, Unaddressed, SerialInv, Forgotten
<1>9. CASE \/ \E m \in InitModes : SetLobbyInitMode(m)
           \/ \E l \in IceServers \cup {NoServers} : SetIceServers(l)
           \/ UNCHANGED vars
  <2>1. UNCHANGED <<serverVars, gameState, view, role>>
    BY <1>9 DEF SetLobbyInitMode, SetIceServers, vars, adapterVars, gameVars
  <2>2. Reachable' = Reachable
    BY <2>1 DEF serverVars, Reachable
  <2>3. QED
    BY <1>1, <2>1, <2>2 DEF RoleForgotten, Unaddressed
<1>10. QED
  BY <1>3, <1>4, <1>5, <1>6, <1>7, <1>8, <1>9 DEF Next, Client, Game
\* A call takes effect as it is made, if the game is in its lobby: the queue was
\* empty.  Elsewhere it waits, or closes what has no relay.
LEMMA CallTakesEffect ==
  ASSUME LobbyInv, LobbyInSync', NEW t \in Task, UNCHANGED <<serverVars, gameState>>,
         QueueGameTask(t, relays'),
         \A p \in Peer : Closes(t, p) => relays'[p] = NoPort,
         NEW r, r = IF Hosts(t) THEN "Hosting"
                    ELSE IF Joins(t, relays') THEN "Joining" ELSE GameRole
  PROVE  Lobby!TakesEffect(r)
<1> DEFINE c == TheGame
           tasks == Append(gameTasks, t)
<1>1. /\ Reachable' = Reachable /\ TheGame' = TheGame /\ gameState' = gameState
      /\ InLobby' = InLobby
  BY DEF Reachable, serverVars, TheGame, InLobby
<1>2. /\ TypeOK /\ gameTasks \in Seq(Task) /\ tasks \in Seq(Task)
      /\ TryExecuteGameTasks(tasks, gameState, relays')
  BY AppendProperties DEF LobbyInv, TypeOK, QueueGameTask
<1>3. Reachable # {} => /\ c \in Reachable /\ c \in Connection /\ HasConnectedClient
                        /\ GameTable = view[c] /\ GameTable' = view'[c]
                        /\ GameRole = role[c] /\ GameRole' = role'[c]
  BY <1>1, <1>2 DEF TheGame, GameTable, GameRole, Reachable, HasConnectedClient,
                    TypeOK, ServerTypeOK
<1>4. Reachable = {} => GameTable' = GameTable /\ GameRole' = GameRole
  BY <1>1 DEF GameTable, GameRole
<1> HIDE DEF c
<1>5. ASSUME InLobby PROVE GameTable' = relays' /\ GameRole' = r
  <2>1. Reachable # {} /\ gameState = "Lobby"
    BY <1>5 DEF InLobby
  <2>2. gameTasks = <<>>
    <3>1. gameTasks # <<>> => Blocked(Head(gameTasks), gameState)
      BY <1>3, <2>1 DEF LobbyInv, HeadBlocked
    <3>2. QED
      BY <2>1, <3>1 DEF Blocked
  <2>3. role'[c] = IF Hosts(t) THEN "Hosting"
                   ELSE IF Joins(t, relays') THEN "Joining" ELSE role[c]
    BY <1>2, <1>3, <2>1, <2>2, LoopTells
  <2>4. view'[c] = relays'
    BY <1>1, <1>3, <2>1 DEF LobbyInSync
  <2>5. QED
    BY <1>3, <2>1, <2>3, <2>4
<1>6. ASSUME ~InLobby
      PROVE  /\ GameRole' = GameRole
             /\ \A p \in Peer : \/ GameTable'[p] = GameTable[p]
                                \/ relays'[p] = NoPort /\ GameTable'[p] = NoPort
  <2>1. CASE Reachable = {}
    BY <1>4, <2>1
  <2>2. CASE Reachable # {}
    <3>1. gameState # "Lobby"
      BY <1>6, <2>2 DEF InLobby
    <3>2. /\ role' = role
          /\ \A p \in Peer : \/ view'[c][p] = view[c][p]
                             \/ view'[c][p] = NoPort /\ SomeCloses(tasks, p)
          /\ view[c] = NoRelays => view'[c] = NoRelays
      BY <1>2, <1>3, <2>2, <3>1, LoopFades
    <3>3. CASE gameState = "None"
      <4>1. view'[c] = view[c]
        BY <1>3, <2>2, <3>2, <3>3 DEF LobbyInv, Unaddressed
      <4>2. QED
        BY <1>3, <2>2, <3>2, <4>1
    <3>4. CASE gameTasks = <<>>
      <4>1. DOMAIN tasks = {1} /\ tasks[1] = t
        BY <3>4
      <4>2. \A p \in Peer : SomeCloses(tasks, p) => relays'[p] = NoPort
        BY <4>1 DEF SomeCloses
      <4>3. QED
        BY <1>3, <2>2, <3>2, <4>2
    <3>5. CASE gameState # "None" /\ gameTasks # <<>>
      <4>1. Blocked(Head(gameTasks), gameState)
        BY <1>3, <2>2, <3>5 DEF LobbyInv, HeadBlocked
      <4>2. tasks[1] = Head(gameTasks)
        BY <1>2, <3>5, AppendProperties
      <4>3. view' = view /\ role' = role
        BY <1>2, <4>1, <4>2, LoopWaits
      <4>4. QED
        BY <1>3, <2>2, <4>3
    <3>6. QED
      BY <3>3, <3>4, <3>5
  <2>3. QED
    BY <2>1, <2>2
<1>7. QED
  BY <1>1, <1>5, <1>6
     DEF Lobby!TakesEffect, Lobby!Fades, GameTable, GameRole, InLobby

\* Every step of the adapter and its game is one of the lobby, or changes nothing
\* of it.
LEMMA NextLobby ==
  ASSUME Overlap = FALSE, LobbyInv, LobbyInv', LobbyInSync', HostsAsTold', [Next]_vars
  PROVE  [Lobby!Next]_(Lobby!vars)
<1>1. TypeOK /\ TypeOK' /\ SerialInv /\ SerialInv' /\ RoleForgotten /\ Unaddressed
  BY DEF LobbyInv
<1>2. ASSUME GameTable' = GameTable, GameRole' = GameRole, InLobby' = InLobby,
             UNCHANGED <<relays, taskString>>
      PROVE  UNCHANGED Lobby!vars
  BY <1>2 DEF Lobby!vars, GameTable, GameRole, InLobby
<1>3. ASSUME UNCHANGED <<serverVars, gameState, view, role>>
      PROVE  GameTable' = GameTable /\ GameRole' = GameRole /\ InLobby' = InLobby
  BY <1>3 DEF GameTable, GameRole, InLobby, TheGame, Reachable, serverVars
<1>4. CASE HostGame
  <2> DEFINE t == [task |-> "HostGame", id |-> NoPeer]
  <2>1. t \in Task /\ Hosts(t) /\ \A p \in Peer : ~Closes(t, p)
    BY DEF Task, LobbyTasks, Closes, Hosts
  <2>2. /\ UNCHANGED <<serverVars, gameState, relays>> /\ taskString' = "Hosting"
        /\ QueueGameTask(t, relays')
    BY <1>4 DEF HostGame
  <2> HIDE DEF t
  <2>3. Lobby!TakesEffect("Hosting")
    BY <2>1, <2>2, CallTakesEffect
  <2>4. QED
    BY <2>2, <2>3 DEF Lobby!Next, Lobby!HostGame
<1>5. ASSUME NEW p \in Peer, NEW x \in {"JoinGame", "ConnectToPeer"}, CreatePeerRelay(p),
             UNCHANGED <<serverVars, gameState>>,
             QueueGameTask([task |-> x, id |-> p], relays')
      PROVE  /\ Lobby!Open(p)
             /\ Lobby!TakesEffect(IF x = "JoinGame" THEN "Joining" ELSE GameRole)
  <2> DEFINE t == [task |-> x, id |-> p]
  <2>1. t \in Task /\ ~Hosts(t) /\ \A q \in Peer : ~Closes(t, q)
    BY DEF Task, LobbyTasks, Closes, Hosts
  <2>2. Lobby!Open(p)
    BY <1>5 DEF CreatePeerRelay, Lobby!Open
  <2>3. relays'[p] # NoPort
    BY <1>1, <1>5, IceAdapterAssumption DEF CreatePeerRelay, TypeOK
  <2>4. Joins(t, relays') <=> x = "JoinGame"
    BY <2>3 DEF Joins
  <2>5. QueueGameTask(t, relays')
    BY <1>5
  <2> HIDE DEF t
  <2>6. QED
    BY <1>5, <2>1, <2>2, <2>4, <2>5, CallTakesEffect
<1>6. ASSUME NEW p \in Peer, JoinGame(p) PROVE Lobby!Next
  <2>1. Lobby!Open(p) /\ Lobby!TakesEffect("Joining")
    BY <1>5, <1>6 DEF JoinGame
  <2>2. taskString' = "Joining"
    BY <1>6 DEF JoinGame
  <2>3. QED
    BY <2>1, <2>2 DEF Lobby!Next, Lobby!JoinGame
<1>7. ASSUME NEW p \in Peer, ConnectToPeer(p) PROVE Lobby!Next
  <2>1. Lobby!Open(p) /\ Lobby!TakesEffect(GameRole)
    BY <1>5, <1>7 DEF ConnectToPeer
  <2>2. taskString' = taskString
    BY <1>7 DEF ConnectToPeer
  <2>3. Lobby!ConnectToPeer(p)
    BY <2>1, <2>2 DEF Lobby!ConnectToPeer, GameRole
  <2>4. QED
    BY <2>3 DEF Lobby!Next
<1>8. ASSUME NEW p \in Peer, DisconnectFromPeer(p) PROVE Lobby!Next
  <2> DEFINE t == [task |-> "DisconnectFromPeer", id |-> p]
  <2>1. /\ t \in Task /\ ~Hosts(t) /\ ~Joins(t, relays')
        /\ \A q \in Peer : Closes(t, q) => q = p
    BY DEF Task, Closes, Hosts, Joins
  <2>2. /\ UNCHANGED <<serverVars, gameState, taskString>> /\ relays[p] # NoPort
        /\ relays' = [relays EXCEPT ![p] = NoPort] /\ QueueGameTask(t, relays')
    BY <1>8 DEF DisconnectFromPeer
  <2>3. relays'[p] = NoPort
    BY <1>1, <2>2 DEF TypeOK
  <2> HIDE DEF t
  <2>4. Lobby!TakesEffect(GameRole)
    BY <2>1, <2>2, <2>3, CallTakesEffect
  <2>5. Lobby!DisconnectFromPeer(p)
    BY <2>2, <2>4 DEF Lobby!DisconnectFromPeer, GameRole
  <2>6. QED
    BY <2>5 DEF Lobby!Next
<1>9. ASSUME NEW c \in Connection, OnGameConnected(c) PROVE UNCHANGED Lobby!vars
  <2>1. Reachable = {} /\ connectedSockets = {} /\ Reachable' \subseteq {c}
    BY <1>1, <1>9, GameConnectedIs
  <2>2. UNCHANGED <<relays, taskString, gameState, view, role>> /\ c \notin Reachable
    BY <1>9, <2>1 DEF OnGameConnected, adapterVars, gameVars
  <2>3. gameState = "None" /\ view[c] = NoRelays /\ role[c] = "none"
    BY <1>1, <2>1, <2>2
       DEF LobbyInv, StateNeedsClient, HasConnectedClient, SerialInv, Forgotten, RoleForgotten
  <2>4. InLobby' = InLobby
    BY <2>2, <2>3 DEF InLobby
  <2>5. Reachable' # {} => TheGame' = c
    BY <2>1 DEF TheGame
  <2>6. GameTable' = GameTable /\ GameRole' = GameRole
    BY <2>1, <2>2, <2>3, <2>5 DEF GameTable, GameRole
  <2>7. QED
    BY <1>2, <2>2, <2>4, <2>6
<1>10. ASSUME NEW c \in Connection, GameCloses(c) PROVE Lobby!Next
  <2>1. Reachable' = {}
    BY <1>1, <1>10, GameClosesIs
  <2>2. UNCHANGED <<relays, taskString>>
    BY <1>10 DEF GameCloses, adapterVars
  <2>3. InLobby' = FALSE /\ GameTable' = NoRelays /\ GameRole' = "none"
    BY <2>1 DEF InLobby, GameTable, GameRole, NoRelays
  <2>4. Lobby!Exit
    BY <2>2, <2>3 DEF Lobby!Exit, InLobby, GameTable, GameRole, Lobby!NoRelays, NoRelays
  <2>5. QED
    BY <2>4 DEF Lobby!Next
<1>11. ASSUME NEW c \in Connection, OnGameDisconnected(c) PROVE Lobby!Next
  <2>1. Reachable = {} /\ Reachable' = {}
    BY <1>1, <1>11, GameDisconnectedIs
  <2>2. relays' = NoRelays /\ taskString' = "Idle"
    BY <1>11 DEF OnGameDisconnected
  <2>3. Lobby!Forget
    BY <2>1, <2>2 DEF Lobby!Forget, Lobby!NoRelays, NoRelays
  <2>4. QED
    BY <2>3 DEF Lobby!Next
<1>12. ASSUME NEW c \in Connection, NEW s \in GameStates, OnGpgNetMessage(c, s)
       PROVE  Lobby!Next \/ UNCHANGED Lobby!vars
  <2>1. /\ UNCHANGED <<serverVars, relays, taskString>> /\ gameState' = s
        /\ TryExecuteGameTasks(gameTasks, s, relays) /\ c \in Reachable
    BY <1>12 DEF OnGpgNetMessage, CanRaiseEvent
  <2>2. Reachable = {c} /\ Reachable' = {c} /\ HasConnectedClient /\ c \in Connection
    BY <1>1, <2>1 DEF Reachable, SerialInv, OneConnection, serverVars, HasConnectedClient
  <2>3. TheGame = c /\ TheGame' = c
    BY <2>2 DEF TheGame
  <2>4. /\ GameTable = view[c] /\ GameTable' = view'[c]
        /\ GameRole = role[c] /\ GameRole' = role'[c]
        /\ InLobby <=> gameState = "Lobby"
        /\ InLobby' <=> s = "Lobby"
    BY <2>1, <2>2, <2>3 DEF GameTable, GameRole, InLobby
  <2>5. gameTasks \in Seq(Task) /\ TypeOK
    BY <1>1 DEF TypeOK
  <2>6. gameState # "None" /\ gameTasks # <<>> => Blocked(Head(gameTasks), gameState)
    BY <2>2 DEF LobbyInv, HeadBlocked
  <2>7. ASSUME gameState = "Lobby" PROVE view' = view /\ role' = role
    <3>1. gameTasks = <<>>
      BY <2>6, <2>7 DEF Blocked
    <3>2. QED
      BY <2>1, <2>5, <3>1, LoopWaits
  <2>8. CASE s = "Lobby" /\ gameState # "Lobby"
    <3>1. view'[c] = relays
      BY <2>1, <2>2, <2>8 DEF LobbyInSync
    <3>2. taskString = "Hosting" => role'[c] = "Hosting"
      BY <2>1, <2>2, <2>8 DEF HostsAsTold
    <3>3. role'[c] \in {role[c], "Hosting", "Joining"}
      <4>1. PICK n \in 0 .. Len(gameTasks) :
              role' = [d \in Connection |->
                         IF d \in Reachable
                           THEN RoleAfter(role[d], SubSeq(gameTasks, 1, n), relays)
                           ELSE role[d]]
        BY <2>1, <2>2 DEF TryExecuteGameTasks
      <4>2. role'[c] = RoleAfter(role[c], SubSeq(gameTasks, 1, n), relays)
        BY <2>2, <4>1
      <4>3. QED
        BY <4>2 DEF RoleAfter
    <3>4. ~InLobby /\ InLobby'
      BY <2>4, <2>8
    <3>5. Lobby!EnterLobby
      BY <2>1, <2>4, <3>1, <3>2, <3>3, <3>4
         DEF Lobby!EnterLobby, GameTable, GameRole, InLobby
    <3>6. QED
      BY <3>5 DEF Lobby!Next
  <2>9. CASE s # "Lobby" /\ gameState = "Lobby"
    <3>1. GameTable' = GameTable /\ GameRole' = GameRole /\ InLobby /\ ~InLobby'
      BY <2>4, <2>7, <2>9
    <3>2. Lobby!LeaveLobby
      BY <2>1, <3>1 DEF Lobby!LeaveLobby, GameTable, GameRole, InLobby
    <3>3. QED
      BY <3>2 DEF Lobby!Next
  <2>10. CASE s = "Lobby" /\ gameState = "Lobby"
    <3>1. GameTable' = GameTable /\ GameRole' = GameRole /\ InLobby' = InLobby
      BY <2>4, <2>7, <2>10 DEF InLobby
    <3>2. QED
      BY <1>2, <2>1, <3>1
  <2>11. CASE s # "Lobby" /\ gameState # "Lobby"
    <3>1. role'[c] = role[c] /\ view'[c] = view[c]
      <4>1. CASE gameState = "None"
        <5>1. view[c] = NoRelays
          BY <1>1, <2>2, <4>1 DEF Unaddressed
        <5>2. QED
          BY <2>1, <2>2, <2>5, <2>11, <5>1, LoopFades
      <4>2. CASE gameState # "None"
        <5>1. gameTasks # <<>> => Blocked(gameTasks[1], s)
          BY <2>5, <2>6, <2>11, <4>2 DEF Blocked
        <5>2. QED
          BY <2>1, <2>5, <5>1, LoopWaits
      <4>3. QED
        BY <4>1, <4>2
    <3>2. GameTable' = GameTable /\ GameRole' = GameRole /\ InLobby' = InLobby
      BY <2>4, <2>11, <3>1 DEF InLobby
    <3>3. QED
      BY <1>2, <2>1, <3>2
  <2>12. QED
    BY <2>8, <2>9, <2>10, <2>11
<1>13. CASE \/ \E m \in InitModes : SetLobbyInitMode(m)
            \/ \E l \in IceServers \cup {NoServers} : SetIceServers(l)
            \/ UNCHANGED vars
  <2>1. UNCHANGED <<serverVars, gameState, view, role>> /\ UNCHANGED <<relays, taskString>>
    BY <1>13 DEF SetLobbyInitMode, SetIceServers, vars, adapterVars, gameVars
  <2>2. UNCHANGED Lobby!vars
    BY <1>2, <1>3, <2>1
  <2>3. QED
    BY <2>2
<1>14. QED
  BY <1>4, <1>6, <1>7, <1>8, <1>9, <1>10, <1>11, <1>12, <1>13 DEF Next, Client, Game

\* With one game at a time the adapter is a lobby in which calls take effect as
\* they are made (_queueGameTask, _tryExecuteGameTasks, _onGpgNetMessage and
\* _onGameDisconnected): neither that they wait in a queue nor that the queue
\* outlives a game can be seen.
THEOREM CallsTakeEffect == Overlap = FALSE => (Spec => ImplementsLobby)
<1> SUFFICES ASSUME Overlap = FALSE PROVE Spec => ImplementsLobby
  OBVIOUS
<1>1. Init => LobbyInv /\ Lobby!Init
  <2> SUFFICES ASSUME Init PROVE LobbyInv /\ Lobby!Init
    OBVIOUS
  <2>1. TypeOK /\ SerialInv
    BY InitTyping, InitSerial
  <2>2. Reachable = {} /\ ~HasConnectedClient
    BY DEF Init, ServerInit, Reachable, HasConnectedClient
  <2>3. HeadBlocked /\ StateNeedsClient /\ HostInv /\ RoleForgotten /\ Unaddressed
    BY <2>2 DEF Init, HeadBlocked, StateNeedsClient, HostInv, RoleForgotten, Unaddressed
  <2>4. Lobby!Init
    BY <2>2 DEF Init, Lobby!Init, Lobby!NoRelays, NoRelays
  <2>5. QED
    BY <2>1, <2>3, <2>4 DEF LobbyInv
<1>2. LobbyInv /\ [Next]_vars => LobbyInv'
  BY NextLobbyInv
<1>3. LobbyInv /\ LobbyInv' /\ LobbyInSync' /\ HostsAsTold' /\ [Next]_vars
        => [Lobby!Next]_(Lobby!vars)
  BY NextLobby
<1>4. Spec => []LobbyInSync /\ []HostsAsTold
  BY GameInSync, HostsAsCalled
<1>5. QED
  BY <1>1, <1>2, <1>3, <1>4, PTL DEF Spec, ImplementsLobby, Lobby!Spec
=============================================================================
