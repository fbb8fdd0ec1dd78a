------------------------------ MODULE Testserver ------------------------------
(***************************************************************************)
(* The lobby server of the test clients (legacy_testclient/Testserver.cpp):*)
(* who is logged in over which connection, who hosts, who is in whose game *)
(* and which commands each change of that sends to the clients' adapters.  *)
(*                                                                         *)
(* The server is one thread.  Every operator named after a method is the   *)
(* whole run of its handler; what the handler sends is a sequence of       *)
(* commands, each to one connection or, when the socket is null or not one *)
(* of the server's, to all of them (JsonRpcQTcpServer::sendJson).          *)
(***************************************************************************)
EXTENDS Naturals, Sequences, FiniteSets, SequencesExt

CONSTANTS
  Client,           \* the test clients
  MaxConnections,   \* bound on the connections a client makes
  MaxPlayers        \* bound on the logins the server answers

ASSUME TestserverAssumption == MaxConnections \in Nat /\ MaxPlayers \in Nat

\* The n-th connection of a client, and the Socket object it has here.
Connection == Client \X (1 .. MaxConnections)

\* The ids of the players.
Player == 0 .. MaxPlayers - 1

VARIABLES
  sockets,          \* mSockets: the connections the server takes as open
  playerSockets,    \* mPlayerSockets: player -> connection
  socketPlayers,    \* mSocketPlayers: connection -> player
  playersLogins,    \* mPlayersLogins: player -> login
  playersGames,     \* mPlayersGames: player -> the host of its game
  games,            \* mGames: host -> players
  currentPlayerId,  \* mCurrentPlayerId
  live,             \* the connections that still reach their client
  toServer,         \* requests on their way, for each connection
  toClient          \* commands and replies on their way

books == <<sockets, playerSockets, socketPlayers, playersLogins, playersGames,
           games, currentPlayerId>>
serverVars == <<books, live, toServer, toClient>>

ServerInit ==
  /\ sockets = {}
  /\ playerSockets = <<>>
  /\ socketPlayers = <<>>
  /\ playersLogins = <<>>
  /\ playersGames = <<>>
  /\ games = <<>>
  /\ currentPlayerId = 0
  /\ live = {}
  /\ toServer = [k \in Connection |-> <<>>]
  /\ toClient = [k \in Connection |-> <<>>]

-----------------------------------------------------------------------------
(* The maps.                                                               *)

Put(f, x, y) == [z \in DOMAIN f \cup {x} |-> IF z = x THEN y ELSE f[z]]
Erase(f, x) == [z \in DOMAIN f \ {x} |-> f[z]]

\* The members of a set of numbers, the least first: a std::map or std::set of
\* players is traversed like that.
Ascending(numbers) ==
  [i \in 1 .. Cardinality(numbers) |->
     CHOOSE n \in numbers : Cardinality({m \in numbers : m < n}) = i - 1]

-----------------------------------------------------------------------------
(* What is sent.                                                           *)

All == <<>>   \* the null socket

\* mPlayerSockets[p].
SocketOf(p) == IF p \in DOMAIN playerSockets THEN playerSockets[p] ELSE All

To(socket, method, arg) == [to |-> socket, msg |-> <<method, arg>>]

\* Each player of a loop in turn makes the server send its share of commands.
ToEach(share, commands) ==
  LET inTurn == Ascending(DOMAIN commands)
  IN  [i \in 1 .. share * Len(inTurn) |->
         commands[inTurn[1 + ((i - 1) \div share)]][1 + ((i - 1) % share)]]

\* Which of the commands reach connection k.
Mine(k, commands) ==
  {i \in DOMAIN commands :
     commands[i].to = k \/ (commands[i].to \notin sockets /\ k \in sockets)}

SentTo(k, commands) ==
  LET mine == Ascending(Mine(k, commands))
  IN  [i \in DOMAIN mine |-> commands[mine[i]].msg]

\* Every connection gets its commands in the order they were written; what is
\* written to a connection that broke is lost.
SendAll(commands) ==
  toClient' = [k \in Connection |->
                 IF k \in live THEN toClient[k] \o SentTo(k, commands)
                               ELSE toClient[k]]

Gamelist(ofGames) == To(All, "onGamelist", DOMAIN ofGames)

-----------------------------------------------------------------------------
(* disconnectPlayerFromGame: a hosted game ends, and only then the player  *)
(* leaves the game it is in, if that still exists.                         *)

GamesLeft(p) == Erase(games, p)

FellowsOf(p) ==
  IF p \in DOMAIN playersGames /\ playersGames[p] \in DOMAIN GamesLeft(p)
  THEN games[playersGames[p]] \ {p}
  ELSE {}

\* Mutant: the game of a host that leaves stays.
GamesWithoutHosted(p) ==
  [g \in DOMAIN games |->
     IF p \in DOMAIN playersGames /\ playersGames[p] = g THEN games[g] \ {p}
                                                       ELSE games[g]]

\* Mutant: the player stays in the set of its game.
GamesWithoutKept(p) == GamesLeft(p)

GamesWithout(p) ==
  [g \in DOMAIN GamesLeft(p) |->
     IF p \in DOMAIN playersGames /\ playersGames[p] = g THEN games[g] \ {p}
                                                       ELSE games[g]]

PlayersGamesWithout(p) == Erase(playersGames, p)

HostLeft(p) ==
  IF p \in DOMAIN games
  THEN ToEach(1, [f \in games[p] |-> <<To(SocketOf(f), "onHostLeft", p)>>])
         \o <<Gamelist(GamesLeft(p))>>
  ELSE <<>>

LeaveCommands(p) ==
  HostLeft(p) \o
  ToEach(2, [f \in FellowsOf(p) |->
            <<To(SocketOf(f), "disconnectFromPeer", p),
              To(SocketOf(p), "disconnectFromPeer", f)>>])

-----------------------------------------------------------------------------
(* The methods.  Each takes the connection a request came over; toServer   *)
(* and live are left to the caller.                                        *)

\* The logins clients type in are the same, 0; n stands for suffix n.
LoginFor == CHOOSE n \in 0 .. currentPlayerId :
              /\ \A p \in DOMAIN playersLogins : playersLogins[p] # n
              /\ \A m \in 0 .. n - 1 :
                   \E p \in DOMAIN playersLogins : playersLogins[p] = m

\* Mutant: a login is compared with the first player's only.
LoginAsFirst(k) ==
  /\ currentPlayerId < MaxPlayers
  /\ IF k \in DOMAIN socketPlayers
     THEN UNCHANGED <<playerSockets, socketPlayers, playersLogins,
                      currentPlayerId, toClient>>
     ELSE /\ playerSockets' = Put(playerSockets, currentPlayerId, k)
          /\ socketPlayers' = Put(socketPlayers, k, currentPlayerId)
          /\ playersLogins' = Put(playersLogins, currentPlayerId,
                                  IF 0 \in DOMAIN playersLogins THEN 1 ELSE 0)
          /\ SendAll(<<To(k, "loggedIn", <<currentPlayerId, DOMAIN games>>)>>)
          /\ currentPlayerId' = currentPlayerId + 1
  /\ UNCHANGED <<sockets, playersGames, games>>

\* The reply carries the list of games.
Login(k) ==
  /\ currentPlayerId < MaxPlayers
  /\ IF k \in DOMAIN socketPlayers
     THEN UNCHANGED <<playerSockets, socketPlayers, playersLogins,
                      currentPlayerId, toClient>>
     ELSE /\ playerSockets' = Put(playerSockets, currentPlayerId, k)
          /\ socketPlayers' = Put(socketPlayers, k, currentPlayerId)
          /\ playersLogins' = Put(playersLogins, currentPlayerId, LoginFor)
          /\ SendAll(<<To(k, "loggedIn", <<currentPlayerId, DOMAIN games>>)>>)
          /\ currentPlayerId' = currentPlayerId + 1
  /\ UNCHANGED <<sockets, playersGames, games>>

\* The player goes over to the connection.  The client only logs the reply.
Reconnect(k, p) ==
  /\ IF k \in DOMAIN socketPlayers \/ p \notin DOMAIN playerSockets
     THEN UNCHANGED <<playerSockets, socketPlayers>>
     ELSE /\ socketPlayers' = Put(Erase(socketPlayers, playerSockets[p]), k, p)
          /\ playerSockets' = Put(playerSockets, p, k)
  /\ UNCHANGED <<sockets, playersLogins, playersGames, games, currentPlayerId,
                 toClient>>

\* The arguments of hostGame are built and not appended to the command.
HostGame(k) ==
  /\ IF k \notin DOMAIN socketPlayers
     THEN UNCHANGED <<playersGames, games, toClient>>
     ELSE LET p == socketPlayers[k] IN
          /\ games' = Put(GamesWithout(p), p, {p})
          /\ playersGames' = Put(playersGames, p, p)
          /\ SendAll(LeaveCommands(p) \o <<To(k, "hostGame", All),
                                           Gamelist(games')>>)
  /\ UNCHANGED <<sockets, playerSockets, socketPlayers, playersLogins,
                 currentPlayerId>>

LeaveGame(k) ==
  /\ IF k \notin DOMAIN socketPlayers
     THEN UNCHANGED <<playersGames, games, toClient>>
     ELSE LET p == socketPlayers[k] IN
          /\ games' = GamesWithout(p)
          /\ playersGames' = PlayersGamesWithout(p)
          /\ SendAll(LeaveCommands(p))
  /\ UNCHANGED <<sockets, playerSockets, socketPlayers, playersLogins,
                 currentPlayerId>>

\* Mutant: the joining player is not told of the players that are there.
JoinCommandsOneWay(p, g) ==
  <<To(SocketOf(g), "connectToPeer", p), To(SocketOf(p), "joinGame", g)>> \o
  ToEach(1, [f \in GamesWithout(p)[g] \ {p, g} |->
            <<To(SocketOf(f), "connectToPeer", p)>>])

\* What connects player p to game g: first the host, then each other player.
JoinCommands(p, g) ==
  <<To(SocketOf(g), "connectToPeer", p), To(SocketOf(p), "joinGame", g)>> \o
  ToEach(2, [f \in GamesWithout(p)[g] \ {p, g} |->
            <<To(SocketOf(f), "connectToPeer", p),
              To(SocketOf(p), "connectToPeer", f)>>])

\* A game that is not there any more answers an error, which nobody reads.
JoinGame(k, g) ==
  /\ IF k \notin DOMAIN socketPlayers
     THEN UNCHANGED <<playersGames, games, toClient>>
     ELSE LET p == socketPlayers[k]
              found == g \in DOMAIN GamesWithout(p) IN
          /\ games' = IF found THEN [GamesWithout(p) EXCEPT ![g] = @ \cup {p}]
                               ELSE GamesWithout(p)
          /\ playersGames' = IF found THEN Put(playersGames, p, g)
                                      ELSE PlayersGamesWithout(p)
          /\ SendAll(LeaveCommands(p) \o
                     (IF found THEN JoinCommands(p, g) ELSE <<>>))
  /\ UNCHANGED <<sockets, playerSockets, socketPlayers, playersLogins,
                 currentPlayerId>>

\* Mutant: the id in the message is not the sender's but the receiver's.
SendIceMsgBack(k, sender, receiver) ==
  /\ IF receiver \notin DOMAIN playerSockets
     THEN UNCHANGED <<socketPlayers, toClient>>
     ELSE /\ UNCHANGED socketPlayers
          /\ SendAll(<<To(playerSockets[receiver], "iceMsg",
                          <<receiver, sender>>)>>)
  /\ UNCHANGED <<sockets, playerSockets, playersLogins, playersGames, games,
                 currentPlayerId>>

\* The ICE message is passed on as one of mSocketPlayers[socket], which makes
\* an entry for player 0 if there is none.
SendIceMsg(k, sender, receiver) ==
  /\ IF receiver \notin DOMAIN playerSockets
     THEN UNCHANGED <<socketPlayers, toClient>>
     ELSE /\ socketPlayers' = IF k \in DOMAIN socketPlayers THEN socketPlayers
                              ELSE Put(socketPlayers, k, 0)
          /\ SendAll(<<To(playerSockets[receiver], "iceMsg",
                          <<socketPlayers'[k], sender>>)>>)
  /\ UNCHANGED <<sockets, playerSockets, playersLogins, playersGames, games,
                 currentPlayerId>>

\* Mutant: the entry of the connection stays.
DisconnectedKnown(k) ==
  /\ sockets' = sockets \ {k}
  /\ IF k \notin DOMAIN socketPlayers
     THEN UNCHANGED <<playerSockets, playersLogins, playersGames, games,
                      toClient>>
     ELSE LET p == socketPlayers[k] IN
          /\ games' = GamesWithout(p)
          /\ playersGames' = PlayersGamesWithout(p)
          /\ SendAll(LeaveCommands(p))
          /\ playerSockets' = Erase(playerSockets, p)
          /\ playersLogins' = Erase(playersLogins, p)
  /\ UNCHANGED <<socketPlayers, currentPlayerId>>

\* The lambda of disconnected: the player is logged out, unless it has
\* another connection by now.
Disconnected(k) ==
  /\ sockets' = sockets \ {k}
  /\ IF k \notin DOMAIN socketPlayers
     THEN UNCHANGED <<playerSockets, socketPlayers, playersLogins,
                      playersGames, games, toClient>>
     ELSE LET p == socketPlayers[k] IN
          /\ games' = GamesWithout(p)
          /\ playersGames' = PlayersGamesWithout(p)
          /\ SendAll(LeaveCommands(p))
          /\ playerSockets' = Erase(playerSockets, p)
          /\ socketPlayers' = Erase(socketPlayers, k)
          /\ playersLogins' = Erase(playersLogins, p)
  /\ UNCHANGED currentPlayerId

-----------------------------------------------------------------------------
(* The books.                                                              *)

\* The maps are inverse to each other, no two players share a login, and every
\* player in a game has a connection that is one of the server's: what is sent
\* to a player in a game never goes to all clients, however players
\* disconnected and reconnected.
BooksAgree ==
  /\ DOMAIN playersLogins = DOMAIN playerSockets
  /\ \A p, q \in DOMAIN playersLogins :
       playersLogins[p] = playersLogins[q] => p = q
  /\ \A k \in DOMAIN socketPlayers :
       /\ socketPlayers[k] \in DOMAIN playerSockets
       /\ playerSockets[socketPlayers[k]] = k
  /\ \A p \in DOMAIN playerSockets :
       /\ playerSockets[p] \in DOMAIN socketPlayers
       /\ socketPlayers[playerSockets[p]] = p
       /\ playerSockets[p] \in sockets
  /\ \A g \in DOMAIN games : games[g] \subseteq DOMAIN playerSockets

\* A host is in its own game, and a player in a game has joined that one and no
\* other, whatever it hosted, joined and left before.
OneGameEach ==
  \A g \in DOMAIN games :
    /\ g \in games[g]
    /\ \A p \in games[g] : p \in DOMAIN playersGames /\ playersGames[p] = g
=============================================================================
