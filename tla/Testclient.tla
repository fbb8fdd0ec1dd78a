------------------------------ MODULE Testclient ------------------------------
(***************************************************************************)
(* The test clients (legacy_testclient/Testclient.cpp) of one lobby server *)
(* and what each makes its adapter do.  A client is one thread: an action  *)
(* is one run of a button's slot, of a socket's signal or of a callback.   *)
(*                                                                         *)
(* The adapter is what IceAdapter.tla models; here it is the game role and *)
(* the peers it was told and has not been told to drop.  The game connects *)
(* when a game is hosted or joined and the adapter notices that it is gone *)
(* before it reads the next command.                                       *)
(***************************************************************************)
EXTENDS Testserver, Integers

CONSTANTS
  MaxTroubles,  \* bound on the clicks, losses and later connections
  MaxIceMsgs,   \* bound on the ICE messages the adapters emit
  MaxLosses,    \* bound on the connections that break
  IceAndLosses, \* TRUE if both happen in one behaviour
  Garbage       \* the values mPlayerId may have before it is assigned

ASSUME TestclientAssumption ==
  /\ MaxTroubles \in Nat
  /\ MaxIceMsgs \in Nat
  /\ MaxLosses \in Nat
  /\ IceAndLosses \in BOOLEAN
  /\ Garbage \subseteq Nat

NoGame == -1

VARIABLES
  client,   \* the clients
  troubles, \* what of these may still happen
  iceMsgs,  \* ICE messages that may still be emitted
  losses    \* connections that may still break

vars == <<serverVars, client, troubles, iceMsgs, losses>>

Init ==
  /\ ServerInit
  /\ \E garbage \in [Client -> Garbage] :
     client = [c \in Client |->
       [n |-> 0,               \* connections made; the n-th is the current one
        keep |-> FALSE,        \* mKeepServerConnection
        session |-> FALSE,     \* pushButton_disconnect is enabled
        lobby |-> TRUE,        \* groupBox_lobby is enabled
        leave |-> FALSE,       \* pushButton_leave is enabled
        choose |-> TRUE,       \* pushButton_hostGame and the list are enabled
        known |-> FALSE,       \* the login's reply has assigned mPlayerId
        playerId |-> garbage[c],
        adapterId |-> 0,       \* the id the adapter was started with
        gameId |-> NoGame,     \* not assigned either, but never read before
        list |-> {},           \* the hosts in listWidget_games
        deaf |-> FALSE,        \* mBuffer holds a message that never ends
        role |-> "none",       \* what the adapter was told: its game
        peers |-> {}]]         \* and its peers
  /\ troubles = MaxTroubles
  /\ iceMsgs = MaxIceMsgs
  /\ losses = MaxLosses

PlayerId == Player \cup Garbage

TypeOK ==
  /\ sockets \subseteq Connection
  /\ DOMAIN playerSockets \subseteq Player
  /\ \A p \in DOMAIN playerSockets : playerSockets[p] \in Connection
  /\ DOMAIN socketPlayers \subseteq sockets
  /\ \A k \in DOMAIN socketPlayers : socketPlayers[k] \in Player
  /\ DOMAIN playersLogins \subseteq Player
  /\ DOMAIN playersGames \subseteq Player
  /\ DOMAIN games \subseteq Player
  /\ currentPlayerId \in 0 .. MaxPlayers
  /\ live \subseteq Connection
  /\ \A c \in Client :
       /\ client[c].n \in 0 .. MaxConnections
       /\ client[c].playerId \in PlayerId
       /\ client[c].gameId \in PlayerId \cup {NoGame}
       /\ client[c].list \subseteq Player
       /\ client[c].role \in {"none", "host", "join"}
       /\ client[c].peers \subseteq Player
  /\ troubles \in 0 .. MaxTroubles
  /\ iceMsgs \in 0 .. MaxIceMsgs
  /\ losses \in 0 .. MaxLosses

-----------------------------------------------------------------------------

\* The socket of mServerClient.
Socket(c) == <<c, client[c].n>>
Connected(c) == Socket(c) \in live

\* mServerClient.sendRequest: what is sent without a connection is lost.
Request(c, method, arg) ==
  toServer' = IF Connected(c)
              THEN [toServer EXCEPT ![Socket(c)] = Append(@, <<method, arg>>)]
              ELSE toServer

Change(c, r) == client' = [client EXCEPT ![c] = r]

-----------------------------------------------------------------------------
(* The connection to the server.                                           *)

\* The button, or the reconnect timer while the connection is to be kept; then
\* the connected signal.  The first connection of a session logs in, a later
\* one reconnects with the id the client knows.
Connect(c) ==
  LET k == <<c, client[c].n + 1>> IN
  /\ ~Connected(c)
  /\ client[c].n < MaxConnections
  /\ IF client[c].n = 0 THEN UNCHANGED troubles
                        ELSE troubles > 0 /\ troubles' = troubles - 1
  /\ Change(c, [client[c] EXCEPT !.n = @ + 1, !.keep = TRUE, !.session = TRUE])
  /\ live' = live \cup {k}
  /\ sockets' = sockets \cup {k}
  /\ toServer' = [toServer EXCEPT ![k] =
                    IF client[c].session
                    THEN << <<"reconnect", client[c].playerId>> >>
                    ELSE << <<"login", All>> >>]
  /\ UNCHANGED <<playerSockets, socketPlayers, playersLogins, playersGames,
                 games, currentPlayerId, toClient, iceMsgs, losses>>

\* pushButton_disconnect and the disconnected signal: what was sent before
\* arrives, what is on its way to the client does not.
Disconnect(c) ==
  /\ Connected(c)
  /\ client[c].known
  /\ troubles > 0
  /\ troubles' = troubles - 1
  /\ live' = live \ {Socket(c)}
  /\ toClient' = [toClient EXCEPT ![Socket(c)] = <<>>]
  /\ Change(c, [client[c] EXCEPT !.keep = FALSE, !.session = FALSE,
                                 !.lobby = FALSE])
  /\ UNCHANGED <<books, toServer, iceMsgs, losses>>

\* The connection breaks and the client notices.  The end of what was sent is
\* lost in both directions; if it is the end of a message, what is left of
\* that stays in front of all that comes later.
LoseConnection(c) ==
  /\ losses > 0
  /\ troubles > 0
  /\ IceAndLosses \/ iceMsgs = MaxIceMsgs
  /\ Connected(c)
  /\ losses' = losses - 1
  /\ troubles' = troubles - 1
  /\ live' = live \ {Socket(c)}
  /\ \E kept \in 0 .. Len(toServer[Socket(c)]) :
       toServer' = [toServer EXCEPT ![Socket(c)] = SubSeq(@, 1, kept)]
  /\ \E torn \in {FALSE, toClient[Socket(c)] # <<>>} :
       Change(c, [client[c] EXCEPT !.deaf = @ \/ torn])
  /\ toClient' = [toClient EXCEPT ![Socket(c)] = <<>>]
  /\ UNCHANGED <<books, iceMsgs>>

-----------------------------------------------------------------------------
(* The lobby's buttons.  groupBox_lobby is enabled once the adapter is     *)
(* connected, which is started with the id of the first login's reply.     *)

Click(c) ==
  /\ client[c].lobby
  /\ client[c].known
  /\ troubles > 0
  /\ troubles' = troubles - 1
  /\ UNCHANGED <<books, live, toClient, iceMsgs, losses>>

HostGameClicked(c) ==
  /\ Click(c)
  /\ client[c].choose
  /\ Request(c, "hostGame", All)
  /\ Change(c, [client[c] EXCEPT !.leave = TRUE, !.choose = FALSE,
                                 !.gameId = client[c].playerId])

\* on_pushButton_leave_clicked: the game closes its connection, upon which the
\* adapter drops all peers.
Left(r) ==
  [r EXCEPT !.choose = TRUE, !.gameId = NoGame, !.role = "none", !.peers = {}]

LeaveClicked(c) ==
  /\ Click(c)
  /\ client[c].leave
  /\ Request(c, "leaveGame", All)
  /\ Change(c, Left(client[c]))

GameClicked(c, host) ==
  /\ Click(c)
  /\ client[c].choose
  /\ host \in client[c].list
  /\ Request(c, "joinGame", host)
  /\ Change(c, [client[c] EXCEPT !.leave = TRUE, !.choose = FALSE,
                                 !.gameId = host])

\* The adapter's onIceMsg for one of its peers.
OnIceMsg(c, peer) ==
  /\ iceMsgs > 0
  /\ IceAndLosses \/ losses = MaxLosses
  /\ peer \in client[c].peers
  /\ iceMsgs' = iceMsgs - 1
  /\ Request(c, "sendIceMsg", <<client[c].adapterId, peer>>)
  /\ UNCHANGED <<books, live, toClient, client, troubles, losses>>

-----------------------------------------------------------------------------
(* What the server sends.                                                  *)

\* sendToIceAdapter: a command without arguments is not passed on.
SendToIceAdapter(r, method, arg) ==
  CASE method = "joinGame" -> [r EXCEPT !.role = "join", !.peers = @ \cup {arg}]
    [] method = "connectToPeer" -> [r EXCEPT !.peers = @ \cup {arg}]
    [] method = "disconnectFromPeer" -> [r EXCEPT !.peers = @ \ {arg}]
    [] method = "hostGame" /\ arg # All -> [r EXCEPT !.role = "host"]
    [] OTHER -> r

LoggedIn(r, id, list) ==
  [r EXCEPT !.known = TRUE, !.playerId = id, !.list = list,
            !.adapterId = IF r.known THEN @ ELSE id]

\* Mutant: the list only grows.
ToldGrowing(r, method, arg) ==
  CASE method = "loggedIn" -> LoggedIn(r, arg[1], arg[2])
    [] method = "onGamelist" -> [r EXCEPT !.list = @ \cup arg]
    [] method = "onHostLeft" -> IF r.gameId = arg THEN Left(r) ELSE r
    [] OTHER -> SendToIceAdapter(r, method, arg)

\* The callbacks of connectRpcMethods and of the login request.
Told(r, method, arg) ==
  CASE method = "loggedIn" -> LoggedIn(r, arg[1], arg[2])
    [] method = "onGamelist" -> [r EXCEPT !.list = arg]
    [] method = "onHostLeft" -> IF r.gameId = arg THEN Left(r) ELSE r
    [] OTHER -> SendToIceAdapter(r, method, arg)

ClientReads(c) ==
  /\ Connected(c)
  /\ toClient[Socket(c)] # <<>>
  /\ LET msg == Head(toClient[Socket(c)])
         leaves == msg[1] = "onHostLeft" /\ client[c].gameId = msg[2] IN
     IF client[c].deaf
     THEN UNCHANGED <<client, toServer>>
     ELSE /\ Change(c, Told(client[c], msg[1], msg[2]))
          /\ IF leaves THEN Request(c, "leaveGame", All)
                       ELSE UNCHANGED toServer
  /\ toClient' = [toClient EXCEPT ![Socket(c)] = Tail(@)]
  /\ UNCHANGED <<books, live, troubles, iceMsgs, losses>>

-----------------------------------------------------------------------------
(* The server.                                                             *)

ServerReads(k) ==
  /\ k \in sockets
  /\ toServer[k] # <<>>
  /\ LET method == Head(toServer[k])[1]
         arg == Head(toServer[k])[2] IN
     \/ method = "login" /\ Login(k)
     \/ method = "reconnect" /\ Reconnect(k, arg)
     \/ method = "hostGame" /\ HostGame(k)
     \/ method = "leaveGame" /\ LeaveGame(k)
     \/ method = "joinGame" /\ JoinGame(k, arg)
     \/ method = "sendIceMsg" /\ SendIceMsg(k, arg[1], arg[2])
  /\ toServer' = [toServer EXCEPT ![k] = Tail(@)]
  /\ UNCHANGED <<live, client, troubles, iceMsgs, losses>>

\* The server notices at any time that a connection is gone, after it has read
\* what arrived.
ServerNotices(k) ==
  /\ k \in sockets \ live
  /\ toServer[k] = <<>>
  /\ Disconnected(k)
  /\ UNCHANGED <<live, toServer, client, troubles, iceMsgs, losses>>

Next ==
  \/ \E c \in Client :
       \/ Connect(c)
       \/ Disconnect(c)
       \/ LoseConnection(c)
       \/ HostGameClicked(c)
       \/ LeaveClicked(c)
       \/ \E host \in client[c].list : GameClicked(c, host)
       \/ \E peer \in client[c].peers : OnIceMsg(c, peer)
       \/ ClientReads(c)
  \/ \E k \in Connection : ServerReads(k) \/ ServerNotices(k)

Spec == Init /\ [][Next]_vars

-----------------------------------------------------------------------------
(* What the lobby is for.                                                  *)

\* Nothing is on its way and nothing was lost.
Settled ==
  /\ losses = MaxLosses
  /\ \A k \in Connection : toServer[k] = <<>> /\ toClient[k] = <<>>
  /\ sockets = live

\* Whose player is p: the client with that id whose session still runs.
Holds(c, p) == Connected(c) /\ client[c].known /\ client[c].playerId = p

\* When all commands have arrived, the adapters of any two players of a game
\* know each other (whatever was left, joined and hosted meanwhile), and each
\* of these clients takes that game for its own.
FellowsConnected ==
  Settled =>
    \A g \in DOMAIN games : \A c \in Client, p \in games[g] :
      Holds(c, p) => games[g] \ {p} \subseteq client[c].peers

MembersAgree ==
  Settled =>
    \A g \in DOMAIN games : \A p \in games[g] :
      \E c \in Client : Holds(c, p) /\ client[c].gameId = g

\* When all has arrived every client shows the games there are.
GamelistCurrent ==
  Settled =>
    \A c \in Client : Connected(c) => client[c].list = DOMAIN games

\* An ICE message reaches the other adapter as coming from the player whose
\* adapter emitted it.
IceFromSender ==
  \A k \in Connection : \A msg \in ToSet(toClient[k]) :
    msg[1] = "iceMsg" => msg[2][1] = msg[2][2]

\* That holds as long as no client has connected a second time.
IceFromSenderAtFirst ==
  (\A c \in Client : client[c].n <= 1) => IceFromSender

\* When all has arrived, the adapter of a player that hosts was told so.
HostsAreTold ==
  Settled =>
    \A c \in Client, g \in DOMAIN games : Holds(c, g) => client[c].role = "host"

-----------------------------------------------------------------------------
(* The games the server keeps are rooms.                                   *)

InGame == UNION {games[g] : g \in DOMAIN games}

\* The server's two maps are one room for each player in a game: what a
\* handler does to them is one step of one player.
Rooms == INSTANCE GameRooms WITH room <- [p \in InGame |-> playersGames[p]]
ImplementsRooms == Rooms!Spec
=============================================================================
