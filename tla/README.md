# faf-ice-adapter in TLA+

The `faf-ice-adapter` is a process next to the game *Supreme Commander: Forged
Alliance*. It connects the game to the games of the other players through ICE
(libwebrtc) and is controlled by the player's client over JSON-RPC. The repository
also has a test client with a user interface and the lobby server that such clients
meet at (`legacy_testclient`). This directory holds specifications of its control logic, the TLC configurations
that check them and TLAPS proofs of what matters most.

Every definition is a translation of the C++ code at this commit; `PROJECT.json`
names the lines under `map`. Comments use the names of the code.

## 1. The system

    client  <-- JSON-RPC/TCP -->  IceAdapter  <-- GPGNet/TCP -->  game
                                      |                            |
                                 PeerRelay (one per remote player) |
                                      |    <------- UDP ---------->+
                                  libwebrtc  <== ICE/DTLS/SCTP ==>  the peer's adapter

    Testclient (client and game at once)  <-- JSON-RPC/TCP -->  Testserver  <-->  other Testclients

| Component (code) | State | Operations | Talks to |
| --- | --- | --- | --- |
| `IceAdapter` | `_gameTasks`, `_gpgnetGameState`, `_gametaskString`, `_relays`, `_iceServers`, `_lobbyInitMode` | the RPC methods `hostGame`, `joinGame`, `connectToPeer`, `disconnectFromPeer`, `setLobbyInitMode`, `setIceServers`, `iceMsg`, `sendToGpgNet`, `status`, `quit`; the reactions `_onGameConnected`, `_onGameDisconnected`, `_onGpgNetMessage` | owns all other components; calls them directly and is connected to their signals |
| `GPGNetServer` | `_connectedSockets`, messages posted to the thread | `_onNewClient`, `_onClientDisconnect`, `OnMessage`, `sendMessage` | signals to `IceAdapter`, bytes to every connected game |
| `PeerRelay` with its observers | `_peerConnection`, `_dataChannel`, `_iceState`, `_isConnected`, `_connectionChecker`, `_reinitTimer`, `_iceServerList` | `addIceMessage`, `_reinitPeerconnection`, `_close`, `_setIceState`, the callbacks of libwebrtc | callbacks to `IceAdapter`, which passes them on to the client |
| `PeerConnectivityChecker` | three timers, times of the last pong and the last data | `handleMessageFromPeer`, `_sendPing`, `_checkConnectivity` | calls `_reinitPeerconnection(1)` of its relay |
| `Timer` | callback, interval, one message of the thread | `start`, `singleShot`, `stop`, `OnMessage` | calls its callback |
| `JsonRpc`, `JsonRpcServer` | read buffers, `_currentRequests`, connected sockets | `_read`, `_processJsonMessage`, `sendRequest`, `_sendMessage` | dispatches to `IceAdapter` |
| `GPGNetMessage` | a read buffer per connection | `toBinary`, `parse` | called by `GPGNetServer` |
| `JsonRpcProtocol`, `JsonRpcQTcpSocket`, `JsonRpcQTcpServer` | `mCurrentRequests`, `mBuffer`, `mSockets` | `sendRequest`, `processBuffer`, `sendJson`, the signals of Qt's sockets | the same protocol for the test programs |
| `Testserver` | who is logged in over which socket (`mPlayerSockets`, `mSocketPlayers`, `mPlayersLogins`), who plays where (`mGames`, `mPlayersGames`) | `login`, `reconnect`, `hostGame`, `leaveGame`, `joinGame`, `sendIceMsg`, the signal `disconnected` | commands for the adapters of the players of a game, through their clients |
| `Testclient` | its connections, `mPlayerId`, `mGameId`, which buttons are enabled, `mPeersReady`, its trackers | the buttons, `connectRpcMethods`, the GPGNet messages of its adapter, the reconnect timer | passes commands from server to adapter and ICE messages from adapter to server |
| `Pingtracker` | pending pings, counts, two timers | `start`, `update`, `onPingPacket` | pings the peer's tracker through both adapters |
| start-up, options, logging | none that changes | | |

### What is hard

* **One thread, many sources of events.** Everything runs on one `rtc::Thread`:
  sockets of the client and of the game, timers, and the callbacks of libwebrtc.
  There is no data race, and handlers run to their end, but their order is open.
* **Two halves of a disconnection.** The close event of a game's socket only
  posts a message; the handler stays in `_connectedSockets` until it is handled.
  What happens in between meets a connection that is closed and counted.
* **A queue that outlives what it talks about.** `_gameTasks` waits for a game
  and for its lobby, survives the game, and refers to relays by the peer's id.
* **Recovery without agreement.** Offerer and answerer decide independently that
  a connection is lost. Three things start a retry (ICE state, connectivity
  checker, timer), and an answer does not say to which offer it belongs.
* **Shared state for several games.** The server accepts any number of games,
  the adapter has one game state, one queue and one set of relays.
* **A player on two connections.** A test client reconnects while the lobby server
  still takes the old connection for open. Both events change the same three maps.
* **Commands in flight.** The lobby server tells each player of a game about each
  other one by commands of their own, which meet players that have left, joined
  another game or become hosts when they arrive.
* **Two channels, one truth.** A test client hears of a peer over the GPGNet
  connection and of its being connected over the JSON-RPC connection.
* **Addresses as names.** The adapter knows a client by the address of its socket
  object, and answers to that address whenever an answer is ready.

### What makes the components correct

* `IceAdapter`: the game in its lobby knows exactly the peers that have a relay,
  at the port of that relay; it has the role the client asked for; commands wait
  for the lobby and are never forgotten; `status()` and the notifications agree
  with the connection.
* `GPGNetServer`: every handler is removed once.
* `PeerRelay`: never uses a missing peer connection; always has something that
  retries; keeps a working link; two relays that stay get connected; the client
  learns of both.
* `PeerConnectivityChecker`: no false alarm while packets pass, and an alarm in
  bounded time when they do not.
* `JsonRpc`, `GPGNetMessage`: what arrives in any pieces is what was sent; each
  request gets one response, at the client that asked.
* `Testserver`: its maps agree; a player is in one game, which lives as long as its
  host is in it.
* `Testclient`: when everything has arrived, the adapters of the players of a game
  know each other, and the client shows the games and the role that are true.
* `Pingtracker`: runs while there is a connected relay; counts each ping once.

## 2. The modules

| Module | Models | Composition |
| --- | --- | --- |
| `GPGNetServer` | connections and posted removals | extended by `IceAdapter` |
| `IceAdapter` | relay table, task queue, game state, client's view, and the games | |
| `GameLobby` | abstract: calls of the client take effect in the game as they are made | implemented by `IceAdapter` (`Lobby`) |
| `MCIceAdapter` | finite instance for TLC | extends `IceAdapter` |
| `IceAdapterProofs` | theorems | extends `IceAdapter` |
| `PeerRelay` | one relay: a record and operators for the methods | extended by `PeerLink` |
| `PeerLink` | the relays of two adapters, their clients, ICE between them | |
| `PeerLinkProofs` | theorems | extends `PeerLink` |
| `Timer` | a timer: a record and operators for the methods | extended by `Connectivity` |
| `Connectivity` | the connectivity checker in time, its channel, the pongs of the peer | |
| `ConnectivityProofs` | theorems | extends `Connectivity` |
| `GPGNetFraming` | the bytes of GPGNet messages, written, cut and parsed | |
| `MCGPGNetFraming` | finite instances for TLC | extends `GPGNetFraming` |
| `GPGNetFramingProofs` | theorems | extends `GPGNetFraming` |
| `JsonFraming` | the characters of JSON objects, cut and put together | |
| `MCJsonFraming` | finite instances for TLC | extends `JsonFraming` |
| `JsonFramingProofs` | theorems | extends `JsonFraming` |
| `MessageChannel` | abstract: messages arrive whole, once and in order | implemented by `GPGNetFraming` and `JsonFraming` (`Channel`) |
| `JsonRpc` | requests, responses and callbacks of a server and its clients | |
| `JsonRpcProofs` | theorems | extends `JsonRpc` |
| `Testserver` | the maps of the lobby server, a method each, what each sends | extended by `Testclient` |
| `Testclient` | the clients, their connections, their adapters as far as the lobby goes | |
| `GameRooms` | abstract: which room each player is in | implemented by `Testclient` (`Rooms`) |
| `MCTestclient` | finite instance for TLC | extends `Testclient` |
| `TestclientProofs` | lemmas about orders, queues and what is sent to whom; theorems about the maps, the refinement among them, and about what has become of commands when they have arrived | extends `Testclient` |
| `Pingtracker` | one tracker, the two channels that start and end it, its pings | |
| `PingtrackerProofs` | theorems | extends `Pingtracker` |

### `GPGNetServer` and `IceAdapter`

A step is one run of a handler: an RPC method, an event of a game's socket, or a
posted message. `TryExecuteGameTasks` stands for the whole loop of
`_tryExecuteGameTasks`: `Executes(n, ...)` says that exactly the tasks before the
first blocked one are sent, `After` and `RoleAfter` what a game makes of the
commands it receives in that order. A relay is the UDP port it opened
(`relays[p]`, with `NoPort` for none) and the list of ICE servers it was given;
what it does inside is `PeerLink`'s business.

`reported`, `lobby`, `view`, `role` and `clientSees` are not variables of the
program. They are what each game said and was told, and what the client was told
last, so that the properties can compare the adapter with its environment. A
command reaches the games in `Reachable`: `sendMessage` writes to all handlers,
and to a closed socket in vain.

The thread handles posted messages before it polls its sockets again. Therefore a
socket accepted while a removal is posted (`unpolled`) raises no event before the
removal ran, but a socket that was accepted earlier may: its event may have been
polled together with the close event.

A game reports `Lobby` only after it received a `CreateLobby` (README.md, steps
3.1 to 3.3); it may report any state repeatedly, reconnect at any time and drop
its connection at any time. The client calls anything at any time. An unknown
peer in `disconnectFromPeer` and a failed check of RPC parameters change nothing
and have no step.

`Overlap` says whether a game may connect while another connection is in the set.
With `FALSE` the adapter serves one game after the other, as its README describes;
with `TRUE` a crashed game is restarted faster than its old connection is removed,
or two games connect as in `test/GPGNetServerTest.cpp`.

`GameLobby` is what all this is for, and has no queue. While the game is in its lobby,
each call of the client gives the game the relays and the role in the same step; when
it enters its lobby it gets the relays there are, and hosts if the client said so last;
elsewhere its table only loses what has no relay. `Lobby` reads the adapter so: the
table and the role are those of the game that is there, if there is one, and the empty
ones otherwise. That calls wait, that a queue outlives its game and finds other relays,
and that a connection without a game is still in the set does not show.

### `PeerRelay` and `PeerLink`

`PeerRelay` takes a relay before a call to the relay after it. `PeerLink` has the
two relays of one pair of players, the ICE messages on their way between them, and
the events of libwebrtc and of the timers. One side was created by
`connectToPeer(.., true)`, the other by `joinGame` or `connectToPeer(.., false)`.
A peer connection is an identity from `Pc`, so that a description says which peer
connection it came from; identities that nothing refers to any more are reused.

What is assumed of libwebrtc, which is not part of the repository:

* `Close()` reports `closed` at once, while `_closing` is set.
* The calls `CreateOffer`, `CreateAnswer` and `Set*Description` take effect when
  they are made or when their observer is called, in the order they were made;
  `todo` is the one whose observer is still to be called. Calls that a peer
  connection did not complete die with it.
* Candidates are gathered after the local description was set. All candidates of
  a peer connection count as one message.
* `AddIceCandidate` fails before the remote description is set; the first
  candidate afterwards starts the checks.
* An answer is taken only in the state `have-local-offer`.
* `connected` needs both descriptions to belong to each other (ICE credentials and
  DTLS fingerprints), and `completed` is not told apart from it.

Clients transfer ICE messages reliably and in order, as README.md asks in step 9.
A message for a player without a relay is dropped.

### `Timer` and `Connectivity`

`PeerLink` leaves out time: a timeout is a step of its own. `Connectivity` is what
justifies it. Its unit of time is a parameter; the runs take 100 ms. `Tick` lets one
unit pass, unless something must happen first: a pong arrives, a message of a timer
would become later than `MaxLate`, the network gives up to open the channel, or the
reinitialisation is due (its 1 ms rounds to nothing).

The code compares three times with `now - _connectionTimeoutMs`: that of the start,
which counts only while nothing was received, of the last pong, and of the last
data. A connection is given up exactly when the latest of those that exist is too
old, so that one clock, `silence`, stands for the three.

The fate of a ping is decided when it is sent: it is lost, or its pong arrives `d`
units later. A ping on a channel that is not open is refused by `Send`. The answerer
returns each ping it receives (`PeerRelay::_onRemoteMessage`). What ICE says of the
connection is left to `PeerLink`: here the checker is alone with the channel.

### `GPGNetFraming` and `JsonFraming`

Both have one TCP connection: what was sent, what is under way, the buffer of the
reader, and what the reader passed on. A read takes any number of the bytes under
way. `IceAdapter` and `JsonRpc` take messages as wholes; these two say when they may:
both implement `MessageChannel`, on which some of the next messages arrive at a time,
and all have arrived when nothing is under way. For `GPGNetFraming` the messages of the
channel are what those sent mean to the receiver (`Meanings`), for `JsonFraming` the
values of the objects (`Values`).

`GPGNetFraming` has real bytes, with integers of four, because the question is
whether lengths, counts and payloads are told apart. Values stay in the range of
`int32_t`, as `toBinary` asks for with `asInt`; a negative length is not sent.
The game, which is not part of the repository, is taken to write and read the format
as `toBinary` and `parse` do.

`JsonFraming` has six characters: those that `_parseJsonFromMsgBuffer` and
`trim_whitespace` look at, the backslash, which they should look at, and any other. Of
jsoncpp's reader it has what decides whether a text is one object, and that blanks
between tokens mean nothing. Strings and braces are counts of positions (`Count`),
which is what the loop over the characters has in `inString` and `braceNestingLevel`
when it comes to a character. `Plain` says which objects the code can cut: no quote is
escaped, and no string has a blank.

### `JsonRpc`

Messages arrive whole and in order. A client sends a request with the next id and
keeps its callback; the server answers at once (`status`), never (`broken`, whose
callback throws), with an error (`absent`), or when the asynchronous callback of
`sendToPlayer` has its answer, which relays the request to another client. That
method is the one of `test/TestServer.cpp`, the only user of asynchronous callbacks
in the repository; `JsonRpc` allows them in general.

A socket is an address. It is deleted when the server has read what arrived, and
the next connection may have the address again. Callbacks are found by id alone on
both sides, so that an answer of any connection would do.

### `Testserver`, `Testclient` and `GameRooms`

`Testserver` has one operator per RPC method and one for `disconnected`. What a
handler sends is one sequence of commands: `To(socket, method, arg)`, where the
socket may be the null one, upon which every client gets it. `std::map::operator[]`
is `SocketOf`, and it makes an entry where the code's does and it matters
(`SendIceMsg`). Loops over sets of players run in ascending order (`ToEach`), since
commands to one client arrive in the order they were written. A command for a socket
that is not in `mSockets` goes to every client (`Mine`), as `sendJson` has it.

`Testclient` has the clients and the network. A client that loses its connection,
or whose user disconnects and connects again, uses the next connection `<<c, n>>`
while the server may still have the former one in `sockets`: it notices at any later
time (`ServerNotices`), after it has read what had arrived. The first connection of a
session logs in and a later one reconnects. A loss cuts off the end of what is under
way in both directions. If the cut is inside a message to the client, the client
is `deaf` from then on: `mBuffer` is not cleared, and its first half never ends.

Taken from the code, and easy to miss:

* `groupBox_lobby` is disabled when the user disconnects and enabled when the adapter
  connects, which it does once. Such a client can still be told things; its user can
  not click.
* `mPlayerId` is read by a reconnection that comes before the answer to the login, and
  has no initial value: any of `Garbage`. `mGameId` has none either, and is never read
  before it is assigned.
* The adapter is started with the id of the first login and keeps it.
* The lobby's buttons need the answer to the first login: it starts the adapter, and
  the box is enabled once that is connected.

Assumed: the game has connected to the adapter before the user clicks leave, and the
adapter notices that the game left before it handles the next command: a local
connection against a click and a round trip. The adapter is its role and its peers; what it does with commands until a game is there is `IceAdapter`'s.

`GameRooms` says what players may rely on: a room per player, three operations of one
player each. `Rooms` reads the server's maps as rooms: `mPlayersGames` for those
players that are in a game of `mGames`. The server erases a hosted game before it
looks up the game the player is in, and leaves the entries in `mPlayersGames` of all
who were in it; the refinement says that this is one step of one player nevertheless.

### `Pingtracker`

One client, one peer, its relay in the adapter, and the two channels from adapter to
client. A tick is the 100 ms of `mPingTimer`. A timer may be late and does not catch
up, so that there is at most one ping in a tick. A peer becomes connected only after
the game has read that the former relay was removed: a local message against an
exchange through the lobby server. What the tracker of the peer does is to return the
ping, or not.

### Mutants

A definition preceded by a comment `Mutant:` is not part of the specification. It
is the definition after it, changed the way a plausible bug would change the code;
with it in place, TLC must find the property violated that `PROJECT.json` lists.

## 3. What the runs check

| Run (cfg) | Instance | Shows |
| --- | --- | --- |
| `one_game` (`IceAdapterSerial`) | 2 connections one after the other, 2 peers, 2 ports, 1 list of ICE servers and the empty one, 3 waiting tasks | `Reconciles`, `LobbyInSync`, `HostsAsTold`, `HeadBlocked`, `IceServersInSync`, `GameStateCurrent`, `ClientKnows`, `ImplementsLobby` |
| `overlapping_games` (`IceAdapterOverlap`) | the same with overlapping connections, 2 waiting tasks | `RemovedOnce` |
| `link` (`PeerLink`) | 8 identities, 1 glitch, 2 removals, fairness | `ConnectionPresent`, `RecoveryArmed`, `CheckerBelongs`, `AnswersMatch`, `WorkingLinkKept`, `EventuallyConnected` |
| `connectivity` (`Connectivity`) | durations of the code in units of 100 ms; the channel opens within 7.1 s, 3 pings are lost in a row, a round trip takes 400 ms, the thread is 100 ms late; fairness | `NoFalseAlarm`, `LossNoticed`, `BrokenIsGivenUp` |
| `gpgnet_framing` (`GPGNetFraming`) | 2 messages of 37: headers of 0 to 2 bytes, up to 2 chunks of 5 kinds; every cut | `NothingHeldBack`, `ImplementsChannel` (and with it `InOrder`) |
| `json_framing` (`JsonFraming`) | 2 of all plain objects of up to 5 characters without a backslash, and one with; newlines between them or not; every cut | `ImplementsChannel` (and with it `InOrder` and `NothingHeldBack`) |
| `rpc` (`JsonRpc`) | 3 clients, 2 addresses, 1 request each, 1 connection closed; fairness | `AnswersMatch`, `NothingPending`, `Answered` |
| `lobby` (`Lobby`) | 3 clients with 2 connections each, 3 logins, 4 clicks and troubles, 1 ICE message or 1 loss | `BooksAgree`, `OneGameEach`, `FellowsConnected`, `MembersAgree`, `GamelistCurrent`, `IceFromSenderAtFirst`, `ImplementsRooms` |
| `pings` (`Pingtracker`) | pings expire after 1 tick, 3 pings, 2 relays, 1 connection lost; fairness | `Accounted`, `TrackerFollowsRelay`, `PingsSettle` |
| `lost_not_reported` (`PeerLinkLost`) | 0 glitches, 1 removal, fairness | a promise of the README that the code breaks |
| `json_escapes` (`JsonEscapes`) | one object, with escapes in strings | a bug |
| `lobby_hosts` (`LobbyHosts`) | 2 clients, no losses | a bug |

`Reconciles` is the core of the first run: *executing what is queued would give
the game exactly the addresses of the existing relays*, whatever was created,
removed and created again with another port while the queue waited, and also for
the next game, which starts with an empty table and inherits the queue.

`FellowsConnected` is its counterpart one level up: once nothing is under way, the
adapter of each player of a game has a relay for each other one, whatever the players
left, joined and hosted while commands were under way. Both together lead from a click
in a client to an address in a game.

**Bounds.** Two peers and two ports let a port pass from a relay to another and a
peer come back at another port. Three waiting tasks hold the longest history that
matters for one peer (connect, disconnect, connect) and a hostGame between
joinGames; the bound is a guard of the RPC methods that queue (`RoomForTask`). Two
connections are one that closes and one that comes. In `PeerLink` the eight
identities never run out: each relay and each remote description refers to one, and
the few messages under way to the others, so `PcAvailable` always holds. A glitch
is a timeout that happens although everything needed to succeed is under way; it
starts a second exchange in the middle of the first. Two removals let either side
come back while the other keeps its relay. Removals are bounded because the histories
repeat after them.

The bounds on the network in `Connectivity` are as large as the durations of the code
allow: 7.1 + 4 * (0.5 + 0.1) + 0.4 = 9.9 seconds, just below the timeout of 10. One
lost ping more, or a channel that takes 7.2 seconds to open, and a working channel
may be reinitialised. The checker starts with the offer, not with the channel: a slow
exchange of the descriptions counts as silence.

In the framing modules two messages suffice: what the first one leaves in the buffer
is all that the second one can meet, and `OnNewClient` or `OnClientDisconnect` leave
it in any state. Three to five bytes of text hold every order of braces and quotes
that can be confused with the end of an object.

In `lobby` three clients are a host, one that joins and one that was there, the least
with an existing fellow who is not the host. Four clicks and troubles are, for example,
to host, to join, to be lost and to reconnect; or two games opened and one joined and
left. The second connection is the one that races the end of the first. An ICE message
and a loss do not occur in one behaviour (`IceAndLosses`): the code forwards an ICE
message that arrives on a connection nobody is logged in on as one of player 0, and
the entry this makes breaks `BooksAgree`, see below.

In `rpc` two addresses for three clients make an address be used again, and every
client may be the relay's asker, its receiver, or wait for an address. In `pings` a
ping expires within the next tick, so that every order of pong, expiry and a new
tracker with the same ids happens within two or three pings.

**Symmetry.** Connections, peers and ports of `IceAdapter` and the clients of
`Testclient` are interchangeable; no run with symmetry checks liveness
(`ImplementsRooms` and `ImplementsLobby` are safety properties).

**Fairness** (`PeerLink`). The thread of each adapter runs every handler that is
due, libwebrtc calls each observer it owes a call, and clients pass on messages:
weak fairness of `IceMsg`, `Observer` and `ReinitTimerFires`. The timeouts of ICE
and of the checker are fair only in a state where nothing else can happen: seconds
pass then, and nothing is assumed about them otherwise. `EventuallyConnected` needs
in addition that the two relays stay, which is its hypothesis, and that packets
pass, which is `CanConnect`. `CHECK_DEADLOCK FALSE` in the runs of `PeerLink`: a
connected pair with nothing left to do is where the system is meant to stop.

In `Connectivity` the thread handles every message that is due and time passes; the
network is obliged to nothing, so that `BrokenIsGivenUp` rests on the timers alone.

In `JsonRpc` both ends read what arrives: weak fairness of `ClientReads` and
`ServerReads`, whose threads poll their sockets again and again. Nobody has to connect
or ask. In `Pingtracker` the timers fire: `Tick` and `Update`; no pong has to arrive.
`CHECK_DEADLOCK FALSE` in `lobby`, `rpc` and `pings`: a lobby where nobody clicks, and
an end of all messages, are where these systems are meant to stop.

### Findings

The runs with `"expect": "violation"` are disagreements between the code and what
its documentation says; `PROJECT.json` quotes both.

1. An offerer whose connectivity checker acts before ICE does, and whose peer is
   gone, says `connected` for ever (`lost_not_reported`).
2. An escaped quote ends the string for the brace counter, so that the object never
   ends (`json_escapes`).
3. `Testserver::hostGame` builds the arguments of the command `hostGame` and does not
   append them; the client rejects the command, and the adapter of a host never
   learns that it hosts (`lobby_hosts`).

Limits of what holds, which are no runs of their own:

* With overlapping connections `GameStateCurrent`, `ClientKnows` and `LobbyInSync` do
  not hold: the adapter has one game state for all of them, and the removal of an old
  connection resets it and tells the client `Disconnected` (IceAdapter.cpp:524) while
  a game is connected. They are checked with one game at a time.
* The task string is reset when the game goes (IceAdapter.cpp:526) and the queue is
  not: a `hostGame` that waited is executed by the next game while the status says
  `Idle`. `HostsAsTold` speaks of a status that names a task.
* `_read` trims an incomplete buffer (JsonRpc.cpp:310): a blank in a string is lost
  when a read ends after it. `json_framing` has no blanks in strings.
* A callback of a request is kept for ever if the peer goes away, and the client of
  one whose method throws waits for ever (JsonRpc.cpp:254). `Answered` excludes both.
* An answer is sent to an address (JsonRpc.cpp:157). If the client that asked has gone
  and another one got the address meanwhile, that one gets the answer, under an id
  which may be one of its own. `AnswersMatch` excludes clients that closed a
  connection. A failed write is noticed only if it returns 0: a negative value counts
  as success (JsonRpcServer.cpp:101).
* The lobby server forwards an ICE message of a connection nobody is logged in on
  under the id 0, and enters that connection as player 0 (Testserver.cpp:271). A client
  whose connection was lost reaches this; hence `IceFromSenderAtFirst` and
  `IceAndLosses`. README.md asks in step 10 that the message arrives from its sender.
* A game whose host leaves is erased before the loop commented "disconnect all fellow
  players from the game" (Testserver.cpp:324), which finds nobody then: the adapters
  keep the relays until their clients react to `onHostLeft` by leaving.
  `FellowsConnected` demands the relays of a game, and not that there are no others.
* A test client that lost its connection inside a message stays deaf, see above.
* The checkbox `c_tcp_relay` of a test client restores the state of `c_udp_relay`
  (Testclient.cpp:131).
* `toBinary` counts a chunk that is neither a number, a Boolean nor a string, and
  writes nothing for it; `GPGNetFraming` has the kinds it supports.
* A relay that is created in the middle of an exchange receives a candidate before it
  has a peer connection, which `addIceMessage` logs as unexpected. It recovers:
  `EventuallyConnected` covers it.

## 4. What is proved

For every number of peers, ports, connections, lists and tasks, under the
assumptions named in the modules (distinct "none" values, natural bounds):

* `Typing`, `HandlersRemovedOnce`, `NoLostWakeup`, `RelaysHaveIceServers` of
  `IceAdapter`, overlapping games included. `NoLostWakeup` needs that a posted removal
  is of a handler in the set: otherwise the set could become empty, and the state kept,
  without the queue being looked at.
* `StateAsReported`, `ClientIsTold`, `QueueReconcilesGame`, `GameInSync` and
  `HostsAsCalled`, with one game at a time. `Reconciles` is inductive only together
  with the invariants that there is at most one handler, that a game that left has an
  empty table, and that the state is `None` while no game is connected. The proof rests
  on lemmas about `After`: executing a queue in two parts is executing it at once, a
  `ConnectToPeer` at the end sets the peer's entry to its relay, a `DisconnectFromPeer`
  at the end removes it, and a relay that changes its port is mentioned by a later
  task. `GameInSync` follows: in the lobby nothing blocks, so the queue is empty.
  `HostsAsCalled` goes the same way with `RoleAfter`: the last `HostGame` or
  `JoinGame` in the queue decides.
* `CallsTakeEffect` of `IceAdapter`, with one game at a time: the adapter implements
  `GameLobby`, step by step (`NextLobby`). In the lobby the queue is empty, so that the
  loop executes the one task that is new (`LoopTells`), and the table is in sync after
  it. Elsewhere it executes nothing but a `DisconnectFromPeer` (`OnlyCloses`,
  `LoopFades`), and none that waited: a queue whose head is blocked stays as it is
  (`LoopWaits`), and while the state is `None`, when the queue of an earlier game may
  begin with one, the game has no address to lose. `LobbyInv` adds to the invariants above
  the last fact (`Unaddressed`), and that a game that left has no role (`RoleForgotten`).
* `LinkTyping`, `NoNullConnection`, `AlwaysRecovers`, `CheckerOfConnection` of
  `PeerLink`, for every bound on glitches and removals. The inductive invariant
  `LinkInv` says for each relay by itself what its fields imply about each other
  (`Good`) and that the offerer has its checker or its timer (`Armed`): no handler
  can break it whatever messages arrive.
* `AnswersOfLastOffer` and `WorkingLinkStays` of `PeerLink`, for the histories in which
  nothing was late and no relay was removed. Neither is inductive: an answer under way
  must not be to an old offer, a candidate under way must not be of an old peer
  connection, and a timer must not run while anything is under way. `Exchange` says that
  there is one exchange at a time: what may be on its way from each side, given what the
  side still has to do (`QueuesOK`); that what the answerer does or has sent belongs to
  the offerer's present connection, and an offer under way is none it has seen
  (`AnswersOK`); that a side which has the other's candidates has started to check them
  (`CandidatesOK`), so that a state in which only timeouts are left is connected or not
  paired; and that the timer runs only in a state with nothing under way (`TimerOK`). A
  new peer connection is one nothing refers to, which is what keeps old and new apart.
* `CheckerTyping`, `NeverFalseAlarm`, `LossIsNoticed` of `Connectivity`, for all
  durations that satisfy `TimingAssumption`: a pong fits between the last packet and
  the timeout. The inductive invariant accounts for the silence: while no pong is on
  its way, it is at most the wait for the first ping and one interval for each lost
  ping; otherwise one of the pongs ends it in time.

* `OneGameForEach` and `GamesAreRooms` of `Testclient`, for any number of clients,
  connections, players, losses and ICE messages. The induction is over what a handler
  does to the two maps of games (`LeftMaps`, `HostedMaps`, `JoinedMaps`): all else a
  step does has no part in it. For the refinement each of these is one operation of
  `GameRooms`, and the initial maps are the empty rooms.
* `LobbyTyping` of `Testclient`: the maps, the clients and everything under way. It
  needs what each handler sends, command by command (`HandlerSends`).
* `BooksAlwaysAgree` of `Testclient`, unless both ICE messages and lost connections
  occur in one behaviour (see the limits above for why): `~IceAndLosses`, which is how
  the run is bounded, or a bound of 0 on either. As long as no connection was lost
  the first request of a connection is its login (`LoginsFirst`), so that no request
  comes from an unknown player; as long as there was no ICE message none is under way
  (`NoIceYet`), and the other handlers check who asks. That a login is free is a
  pigeonhole argument: of the numbers up to the count of players one is not taken.
* `ListsAreCurrent`, `FellowsAreConnected`, `MembersDoAgree` and `IceIsFromSender` of
  `Testclient`, for any number of clients, connections, clicks and messages. Their
  properties speak of states in which all has arrived (the last one of the messages
  under way), and are not inductive. The invariant says what the commands on their way
  to a connection will make of its client. Three predicates on queues suffice: a command
  of a kind `Occurs`, one of kind A is there and none of B follows (`Ends`), one of A is
  there and none of B precedes (`Starts`). `TestclientProofs` says what they become
  when a queue grows at its end or loses its head, and what a handler adds
  to the queue of each connection, whatever the order of the loop.
  `LiveCases` reduces a step to four cases for each connection: it is new; nobody is
  logged in on it; it becomes a player's; or it is a player's, and either something was
  sent to it by a handler (`News`) or its client did something. Then
  - `Shows`: a list on its way to the client is the last word (`Ends`), or the client
    shows the present hosts;
  - `Meets`: for each fellow player a command to connect is under way with no
    `disconnectFromPeer` behind it, or the adapter has the peer and will keep it; unless
    a request of the player's own about games, or the news that its host left, is still
    under way;
  - `Agrees`: the last request under way about games asks for what the client takes for
    its game, or the server has it there; it needs `Introduced`, by which a client
    whose lobby is enabled is the player the server takes it for;
  - for `IceIsFromSender`, `AdapterIds` (over a first connection, adapter and server have
    the same id), `NoEarlyPeers` (the reply to the login precedes all peers), `OwnIce`
    (messages to the server name the adapter they are from) and `NoForged`.
  All hold while `Steady` does, which follows from `Calm`: no connection was lost, or no
  client has connected twice. Where a property says that all has arrived, it says that
  no connection was lost.
* `RpcTyping`, `AnswersGoHome` and `NoCallbackForgotten` of `JsonRpc`, for any number of
  clients, addresses, requests and closed connections. `RpcInv` says that a client whose
  address is still taken without being its own has left (`Addresses`), that what arrives
  at an address is from the client the server has there, with the ids that client has
  used (`FromPeer`), and that each relayed request is for who asked or for one that left
  (`Relayed`). `KeptInv` adds, for the last theorem, that each callback has its request
  or its answer under way (`Asking`, `UnderWay`): reading one message takes one away and
  puts its successor on the way.
* `EveryPingAccounted` of `Pingtracker`, for any bounds: a step moves pings between the
  three counts, and the id of the next ping is above all that are pending.
* `TrackersFollow` of `Pingtracker`, for any bounds. `TrackerFollowsRelay` speaks of
  empty channels only. `FollowInv` says what holds on the way: the last GPGNet message
  that is not read yet, or else the tracker, agrees with the relay; and of a connected
  relay either a notification is still to be read, or the peer is in `mPeersReady` and
  its tracker, if there is one, runs. With it goes the type invariant (`PingTyping`).

* `ReceivedInOrder` and `EveryMessageIsPassedOn` of `GPGNetFraming`, for all messages
  whose lengths fit four bytes (`FramingAssumption`, as `toBinary` casts them to
  `int32_t`), any bytes in headers and strings, any number of messages and connections,
  and every way to cut the stream. The inductive invariant `FramingInv` says that for
  some k the first k messages are received, that the buffer and the bytes on their way
  are together the bytes of the others (`Holds`), and that the buffer does not have all
  of the next one (`NoMore`). A read preserves it by `ParseHolds`: each pass of the loop
  over messages takes the next one, if it is all there (`OneMessage`), and the loop
  stops otherwise. Under it are the loop over chunks (`OneChunk`, `AllChunks`) and that
  four bytes give back the number they were made of (`Int32Bytes`), negative ones too.
  Two things the library offers only as theorems about operators are proved from the
  least number (`LeastNumber`): induction (`AllNumbers`), and that a function exists
  which a loop defines by recursion, if every pass brings it nearer to its end
  (`LoopEnds`); without this nothing follows from the definition of `ReadChunks` or
  `ParseFrom`. That the loops end on whatever bytes there are is part of the proof.
* `BytesAreMessages` of `GPGNetFraming` and `ObjectsAreMessages` of `JsonFraming`, from the
  same invariants: each step of a connection is one of `MessageChannel` or changes
  nothing of it (`NextChannel`). A read hands over the messages from the k-th to the
  l-th, none of them again, since what was received only grows; with nothing under way
  the buffer would be all the rest, of which the invariant says that it has no whole
  message, so that there is no rest (`ReceivedMeans`, `ConsistentMeans`).
* `ValuesInOrder` and `EveryObjectIsProcessed` of `JsonFraming`, for all plain objects
  (`PlainMessages`), of any length and nesting, with braces in strings and with blanks
  between tokens, any number of objects and connections, and every way to cut the stream.
  `PlainMessages` is a hypothesis of the theorems, and not of the module: without it
  `NothingHeldBack` is false (finding 2), and a blank in a string may get lost (see the
  limits above); the objects of `json_framing` are all plain.
  The buffer is not a part of what was sent, since `_read` trims it each time. What it
  has in common with it is its text without blanks (`Squeeze`), and the invariant
  (`Consistent`) says that this and the text on its way are together that of the objects
  after the first k, which have been processed; that no blank is in a string (`Outside`),
  counted from the beginning of the buffer; and that the buffer is not all of the next
  object (`NoMore`). Three things make it inductive. The scanner sees the same depth at
  a character of a text and at the same character of the text without blanks
  (`LevelSqueeze`), so that it ends where the object does (`EndIs`). `trim_whitespace`,
  whose `substr` takes more than the trimmed text, changes no text without blanks
  (`TrimIs`). And for a plain object the scanner's strings are those of the reader
  (`ProperIs`), with an even number of quotes in all (`ProperEnd`), so that what follows
  an object can be scanned as if nothing preceded it (`OutsideEven`). That the loop of
  `_read` ends is proved as for `GPGNetFraming` (`ReadsTo`).

Only model-checked:

* Liveness, which the prover cannot treat: `EventuallyConnected`, `BrokenIsGivenUp`,
  `Answered`, `PingsSettle`.
* `BooksAgree` where ICE messages and losses meet is not claimed: it is false there.

## 5. What is not modelled

* `quit`, `status`, `sendToGpgNet`: no state of the adapter changes.
* The copying of game packets (`_onPeerdataFromGame`, `_onRemoteMessage`) and the
  candidate statistics.
* Map names, logins and the wording of messages.
* The connection of the adapter's own client: it stays connected.
* Late completions of a destroyed peer connection; the observers would use the new
  one. Whether they exist depends on libwebrtc.
* Of JSON-RPC: requests that are no valid requests, and notifications to all clients.
* Of the test client: the filter for ICE candidates, which drops what the user unticks,
  the display of the status, the start and the restart of the adapter's process, tables
  and logs.
* An exception in `joinGame` of the lobby server (`mPlayersLogins.at`), which needs a
  host without login: only the entry for player 0 described above makes one.
* Start-up, options, logging and vendored code (`cxxopts`): sequential, without state
  that the rest depends on. The tests, which are read for how the adapter is used.

## 6. Plan

1. Done: `GPGNetServer`, `IceAdapter`, `PeerRelay`, `PeerLink` and their proofs.
2. Done: `Timer`, `Connectivity` and its proof.
3. Done: `GPGNetFraming`, `JsonFraming`, `JsonRpc` and their proofs.
4. Done: `Testserver`, `Testclient` with the refinement to `GameRooms`, `Pingtracker`,
   and their proofs.
5. Done: the abstract specifications `GameLobby` and `MessageChannel`. One of a link that is
   up or down, for `PeerLink`, would say what `WorkingLinkKept` and `EventuallyConnected` say.
