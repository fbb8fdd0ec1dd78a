----------------------------- MODULE IceAdapter -----------------------------
(***************************************************************************)
(* The adapter between the client and the game (IceAdapter.cpp): the RPC   *)
(* methods that create and remove peer relays, the queue of commands that  *)
(* wait for the game, and the reactions to the game's own messages.  The   *)
(* inside of a relay is modelled in PeerLink.tla; here a relay is the UDP  *)
(* port it opened for the game and the ICE server list it was given.       *)
(*                                                                         *)
(* The last group of variables is the environment: what each connected     *)
(* game reported and was told, and what the client was told.               *)
(***************************************************************************)
EXTENDS GPGNetServer

CONSTANTS
  Peer,         \* ids of remote players
  NoPeer,       \* the id carried by a HostGame task
  Port,         \* UDP ports the system can give to a relay
  NoPort,       \* no relay, or no address
  IceServers,   \* non-empty ICE server lists the client may set
  NoServers,    \* the empty list
  MaxTasks      \* bound on the number of waiting tasks

ASSUME IceAdapterAssumption ==
  /\ NoPeer \notin Peer
  /\ NoPort \notin Port
  /\ NoServers \notin IceServers
  /\ MaxTasks \in Nat

VARIABLES
  gameTasks,    \* _gameTasks
  gameState,    \* _gpgnetGameState
  taskString,   \* _gametaskString, without the names it quotes
  relays,       \* _relays: the port of each peer's relay, NoPort if none
  relayIce,     \* the _iceServerList of each relay
  iceServers,   \* _iceServers
  initMode,     \* _lobbyInitMode
  reported,     \* the GameState each game last reported
  lobby,        \* the mode of the CreateLobby each game last received
  view,         \* the address each game has for each peer
  role,         \* the HostGame or JoinGame each game last received
  clientSees    \* the last onConnectionStateChanged the client received

adapterVars == <<gameTasks, gameState, taskString, relays, relayIce,
                 iceServers, initMode>>
gameVars == <<reported, lobby, view, role>>
vars == <<serverVars, adapterVars, gameVars, clientSees>>

-----------------------------------------------------------------------------

GameStates == {"Idle", "Lobby", "Launching"}
InitModes == {"normal", "auto"}

\* The tasks that wait until the game is in its lobby.
LobbyTasks == {"HostGame", "JoinGame", "ConnectToPeer"}

Task == [task : LobbyTasks \cup {"DisconnectFromPeer"}, id : Peer \cup {NoPeer}]

NoRelays == [p \in Peer |-> NoPort]

TypeOK ==
  /\ ServerTypeOK
  /\ gameTasks \in Seq(Task)
  /\ gameState \in GameStates \cup {"None"}
  /\ taskString \in {"Idle", "Hosting", "Joining"}
  /\ relays \in [Peer -> Port \cup {NoPort}]
  /\ relayIce \in [Peer -> IceServers \cup {NoServers}]
  /\ iceServers \in IceServers \cup {NoServers}
  /\ initMode \in InitModes
  /\ reported \in [Connection -> GameStates \cup {"None"}]
  /\ lobby \in [Connection -> InitModes \cup {"none"}]
  /\ view \in [Connection -> [Peer -> Port \cup {NoPort}]]
  /\ role \in [Connection -> {"none", "Hosting", "Joining"}]
  /\ clientSees \in {"Connected", "Disconnected"}

Init ==
  /\ ServerInit
  /\ gameTasks = <<>>
  /\ gameState = "None"
  /\ taskString = "Idle"
  /\ relays = NoRelays
  /\ relayIce = [p \in Peer |-> NoServers]
  /\ iceServers = NoServers
  /\ initMode = "normal"
  /\ reported = [c \in Connection |-> "None"]
  /\ lobby = [c \in Connection |-> "none"]
  /\ view = [c \in Connection |-> NoRelays]
  /\ role = [c \in Connection |-> "none"]
  /\ clientSees = "Disconnected"

-----------------------------------------------------------------------------
(* The commands a run of the task loop sends, and what a game makes of     *)
(* them.  tbl stands for the relays the loop looks its addresses up in.    *)

\* JoinGame and ConnectToPeer are sent only if the peer's relay still exists.
Opens(t, p, tbl) ==
  /\ t.task \in {"JoinGame", "ConnectToPeer"}
  /\ t.id = p
  /\ tbl[p] # NoPort

Closes(t, p) == t.task = "DisconnectFromPeer" /\ t.id = p

\* The address table v of a game after it received the commands of tasks, in
\* their order: the last command about a peer decides.
After(v, tasks, tbl) ==
  [p \in Peer |->
     IF \E i \in DOMAIN tasks :
          /\ Opens(tasks[i], p, tbl)
          /\ \A j \in DOMAIN tasks : j > i => ~Closes(tasks[j], p)
       THEN tbl[p]
       ELSE IF \E i \in DOMAIN tasks : Closes(tasks[i], p)
              THEN NoPort
              ELSE v[p]]

Hosts(t) == t.task = "HostGame"
Joins(t, tbl) == t.task = "JoinGame" /\ tbl[t.id] # NoPort

RoleAfter(r, tasks, tbl) ==
  IF \E i \in DOMAIN tasks :
       /\ Hosts(tasks[i])
       /\ \A j \in DOMAIN tasks : j > i => ~Joins(tasks[j], tbl)
    THEN "Hosting"
    ELSE IF \E i \in DOMAIN tasks : Joins(tasks[i], tbl)
           THEN "Joining"
           ELSE r

\* Mutant: a game that was launched is told of new peers as well.
BlockedBeforeLobby(t, state) == t.task \in LobbyTasks /\ state \in {"None", "Idle"}

\* The task the loop stops at.
Blocked(t, state) == t.task \in LobbyTasks /\ state # "Lobby"

\* n tasks are executed: all before the first blocked one.
Executes(n, tasks, state) ==
  /\ n \in 0 .. Len(tasks)
  /\ \A i \in 1 .. n : ~Blocked(tasks[i], state)
  /\ n < Len(tasks) => Blocked(tasks[n + 1], state)

\* _tryExecuteGameTasks, for the queue, game state and relays in force.
TryExecuteGameTasks(tasks, state, tbl) ==
  \/ /\ ~HasConnectedClient
     /\ gameTasks' = tasks
     /\ UNCHANGED <<view, role>>
  \/ /\ HasConnectedClient
     /\ \E n \in 0 .. Len(tasks) :
          LET done == SubSeq(tasks, 1, n) IN
          /\ Executes(n, tasks, state)
          /\ gameTasks' = SubSeq(tasks, n + 1, Len(tasks))
          /\ view' = [c \in Connection |->
                        IF c \in Reachable THEN After(view[c], done, tbl)
                                           ELSE view[c]]
          /\ role' = [c \in Connection |->
                        IF c \in Reachable THEN RoleAfter(role[c], done, tbl)
                                           ELSE role[c]]

\* Mutant: the task waits for the next GameState.
QueueGameTaskForLater(t, tbl) ==
  /\ gameTasks' = Append(gameTasks, t)
  /\ UNCHANGED <<view, role>>

\* _queueGameTask
QueueGameTask(t, tbl) ==
  TryExecuteGameTasks(Append(gameTasks, t), gameState, tbl)

\* _createPeerRelay: nothing happens if the peer has a relay already.
CreatePeerRelay(p) ==
  \/ /\ relays[p] # NoPort
     /\ UNCHANGED <<relays, relayIce>>
  \/ /\ relays[p] = NoPort
     /\ \E port \in Port :
          /\ \A q \in Peer : relays[q] # port
          /\ relays' = [relays EXCEPT ![p] = port]
          /\ relayIce' = [relayIce EXCEPT ![p] = iceServers]

-----------------------------------------------------------------------------
(* RPC methods called by the client.                                       *)

RoomForTask == Len(gameTasks) < MaxTasks

HostGame ==
  /\ RoomForTask
  /\ QueueGameTask([task |-> "HostGame", id |-> NoPeer], relays)
  /\ taskString' = "Hosting"
  /\ UNCHANGED <<serverVars, gameState, relays, relayIce, iceServers, initMode,
                 reported, lobby, clientSees>>

JoinGame(p) ==
  /\ RoomForTask
  /\ CreatePeerRelay(p)
  /\ QueueGameTask([task |-> "JoinGame", id |-> p], relays')
  /\ taskString' = "Joining"
  /\ UNCHANGED <<serverVars, gameState, iceServers, initMode,
                 reported, lobby, clientSees>>

ConnectToPeer(p) ==
  /\ RoomForTask
  /\ CreatePeerRelay(p)
  /\ QueueGameTask([task |-> "ConnectToPeer", id |-> p], relays')
  /\ UNCHANGED <<serverVars, gameState, taskString, iceServers, initMode,
                 reported, lobby, clientSees>>

\* Mutant: the relay goes, the game is not told.
DisconnectFromPeerSilently(p) ==
  /\ relays[p] # NoPort
  /\ relays' = [relays EXCEPT ![p] = NoPort]
  /\ relayIce' = [relayIce EXCEPT ![p] = NoServers]
  /\ UNCHANGED <<serverVars, gameTasks, gameState, taskString, iceServers,
                 initMode, gameVars, clientSees>>

\* Without a relay the call changes nothing, hence the guard.
DisconnectFromPeer(p) ==
  /\ RoomForTask
  /\ relays[p] # NoPort
  /\ relays' = [relays EXCEPT ![p] = NoPort]
  /\ relayIce' = [relayIce EXCEPT ![p] = NoServers]
  /\ QueueGameTask([task |-> "DisconnectFromPeer", id |-> p], relays')
  /\ UNCHANGED <<serverVars, gameState, taskString, iceServers, initMode,
                 reported, lobby, clientSees>>

SetLobbyInitMode(m) ==
  /\ initMode' = m
  /\ UNCHANGED <<serverVars, gameTasks, gameState, taskString, relays, relayIce,
                 iceServers, gameVars, clientSees>>

\* Mutant: existing relays keep their list.
SetIceServersForNewRelays(l) ==
  /\ iceServers' = l
  /\ UNCHANGED <<serverVars, gameTasks, gameState, taskString, relays, relayIce,
                 initMode, gameVars, clientSees>>

\* The list is stored and handed to every existing relay.
SetIceServers(l) ==
  /\ iceServers' = l
  /\ relayIce' = [p \in Peer |-> IF relays[p] # NoPort THEN l ELSE relayIce[p]]
  /\ UNCHANGED <<serverVars, gameTasks, gameState, taskString, relays, initMode,
                 gameVars, clientSees>>

-----------------------------------------------------------------------------
(* Events on the game's sockets.                                           *)

\* _onGameConnected: the client is told; waiting tasks are not looked at.
OnGameConnected(c) ==
  /\ OnNewClient(c)
  /\ clientSees' = "Connected"
  /\ UNCHANGED <<adapterVars, gameVars>>

\* Mutant: the client is told before the connection is removed.
GameClosesLoudly(c) ==
  /\ OnClientDisconnect(c)
  /\ clientSees' = "Disconnected"
  /\ UNCHANGED <<adapterVars, gameVars>>

\* The game exits or drops its connection, and forgets what it was told.
GameCloses(c) ==
  /\ OnClientDisconnect(c)
  /\ reported' = [reported EXCEPT ![c] = "None"]
  /\ lobby' = [lobby EXCEPT ![c] = "none"]
  /\ view' = [view EXCEPT ![c] = NoRelays]
  /\ role' = [role EXCEPT ![c] = "none"]
  /\ UNCHANGED <<adapterVars, clientSees>>

\* Mutant: what the last game reported and was asked to do is kept.
OnGameDisconnectedKeepsState(c) ==
  /\ OnMessage(c)
  /\ clientSees' = "Disconnected"
  /\ relays' = NoRelays
  /\ relayIce' = [p \in Peer |-> NoServers]
  /\ UNCHANGED <<gameTasks, gameState, taskString, iceServers, initMode, gameVars>>

\* Mutant: the relays of the last game are kept.
OnGameDisconnectedKeepsRelays(c) ==
  /\ OnMessage(c)
  /\ clientSees' = "Disconnected"
  /\ taskString' = "Idle"
  /\ gameState' = "None"
  /\ UNCHANGED <<gameTasks, relays, relayIce, iceServers, initMode, gameVars>>

\* Mutant: the state is reset to the task string's value.
OnGameDisconnectedSwapsResets(c) ==
  /\ OnMessage(c)
  /\ clientSees' = "Disconnected"
  /\ taskString' = "None"
  /\ gameState' = "Idle"
  /\ relays' = NoRelays
  /\ relayIce' = [p \in Peer |-> NoServers]
  /\ UNCHANGED <<gameTasks, iceServers, initMode, gameVars>>

\* _onGameDisconnected: everything but the queue of tasks is reset.
OnGameDisconnected(c) ==
  /\ OnMessage(c)
  /\ clientSees' = "Disconnected"
  /\ taskString' = "Idle"
  /\ gameState' = "None"
  /\ relays' = NoRelays
  /\ relayIce' = [p \in Peer |-> NoServers]
  /\ UNCHANGED <<gameTasks, iceServers, initMode, gameVars>>

\* _onGpgNetMessage with a GameState.  A game enters its lobby only after it
\* was told to create one; every other message is only passed to the client.
OnGpgNetMessage(c, s) ==
  /\ CanRaiseEvent(c)
  /\ s = "Lobby" => lobby[c] # "none"
  /\ reported' = [reported EXCEPT ![c] = s]
  /\ gameState' = s
  /\ lobby' = [d \in Connection |->
                 IF s = "Idle" /\ d \in Reachable THEN initMode ELSE lobby[d]]
  /\ TryExecuteGameTasks(gameTasks, s, relays)
  /\ UNCHANGED <<serverVars, taskString, relays, relayIce, iceServers, initMode,
                 clientSees>>

-----------------------------------------------------------------------------

Client ==
  \/ HostGame
  \/ \E p \in Peer : JoinGame(p)
  \/ \E p \in Peer : ConnectToPeer(p)
  \/ \E p \in Peer : DisconnectFromPeer(p)
  \/ \E m \in InitModes : SetLobbyInitMode(m)
  \/ \E l \in IceServers \cup {NoServers} : SetIceServers(l)

Game ==
  \/ \E c \in Connection : OnGameConnected(c)
  \/ \E c \in Connection : GameCloses(c)
  \/ \E c \in Connection : OnGameDisconnected(c)
  \/ \E c \in Connection, s \in GameStates : OnGpgNetMessage(c, s)

Next == Client \/ Game

Spec == Init /\ [][Next]_vars

-----------------------------------------------------------------------------
(* Properties that hold however many games are connected.                  *)

\* No wakeup is lost: with a game that reported a state, the queue is empty or
\* its head waits for the lobby.  _tryExecuteGameTasks runs only when a task
\* is queued and when a GameState arrives, and both must leave it so.
HeadBlocked ==
  HasConnectedClient /\ gameState # "None" /\ gameTasks # <<>>
    => Blocked(Head(gameTasks), gameState)

\* A relay never keeps an outdated ICE server list, whether it was created
\* before or after the client called setIceServers.
IceServersInSync ==
  \A p \in Peer : relayIce[p] = IF relays[p] # NoPort THEN iceServers
                                                    ELSE NoServers

-----------------------------------------------------------------------------
(* Properties that the code has only with one game at a time: runs with    *)
(* Overlap = TRUE violate some of them.                                    *)

\* A connected game, once it has executed what is still queued, has exactly
\* the addresses of the existing relays; so does the next game if none is
\* connected, although the queue survives _onGameDisconnected.
Reconciles ==
  /\ \A c \in Reachable : After(view[c], gameTasks, relays) = relays
  /\ ~HasConnectedClient => After(NoRelays, gameTasks, relays) = relays

\* A game in its lobby has exactly the addresses of the existing relays: no
\* peer is missing, none is left over, none has the port of an older relay.
LobbyInSync ==
  \A c \in Reachable : gameState = "Lobby" => view[c] = relays

\* If the client's last word was hostGame, the game in its lobby was told to
\* host last, whatever joinGame calls were queued before it.
HostsAsTold ==
  \A c \in Reachable :
    taskString = "Hosting" /\ gameState = "Lobby" => role[c] = "Hosting"

\* status() reports the state the connected game last reported.
GameStateCurrent == \A c \in Reachable : gameState = reported[c]

\* The last onConnectionStateChanged agrees with the set of connections.
ClientKnows == (clientSees = "Connected") <=> HasConnectedClient

\* The queue and the game at its end are a lobby in which calls take effect as
\* they are made (_queueGameTask, _tryExecuteGameTasks, _onGpgNetMessage and
\* _onGameDisconnected).
TheGame == CHOOSE c \in Reachable : TRUE

Lobby == INSTANCE GameLobby WITH
  wanted <- taskString,
  inLobby <- Reachable # {} /\ gameState = "Lobby",
  table <- IF Reachable = {} THEN NoRelays ELSE view[TheGame],
  role <- IF Reachable = {} THEN "none" ELSE role[TheGame]

ImplementsLobby == Lobby!Spec
=============================================================================
