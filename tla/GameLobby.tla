------------------------------ MODULE GameLobby ------------------------------
(***************************************************************************)
(* What the adapter promises to a client whose players meet in the lobby   *)
(* of a game: in the lobby a call takes effect in the game as it is made,  *)
(* and what was called before has taken effect when the game is in its     *)
(* lobby.  Elsewhere the game is told nothing but that a relay is gone.    *)
(* That calls wait in a queue, which may outlive a game, does not show.    *)
(***************************************************************************)
CONSTANTS
  Peer,       \* ids of remote players
  Port,       \* ports of relays
  NoPort      \* no relay, or no address

VARIABLES
  relays,     \* the port of each peer's relay
  wanted,     \* what the client called last: "Hosting", "Joining" or "Idle"
  inLobby,    \* TRUE if a game is in its lobby
  table,      \* the address the game has for each peer
  role        \* what the game was told to do

vars == <<relays, wanted, inLobby, table, role>>

NoRelays == [p \in Peer |-> NoPort]

Init ==
  /\ relays = NoRelays
  /\ wanted = "Idle"
  /\ inLobby = FALSE
  /\ table = NoRelays
  /\ role = "none"

-----------------------------------------------------------------------------
(* Calls of the client.                                                    *)

\* The game has what it had, except what has no relay.
Fades ==
  \A p \in Peer :
    table'[p] = table[p] \/ (relays'[p] = NoPort /\ table'[p] = NoPort)

\* What a call makes of the game: in the lobby it has the relays and role r.
TakesEffect(r) ==
  /\ inLobby => table' = relays' /\ role' = r
  /\ ~inLobby => Fades /\ role' = role
  /\ UNCHANGED inLobby

\* A peer that has no relay gets one, at a port of its own.
Open(p) ==
  \/ /\ relays[p] # NoPort
     /\ UNCHANGED relays
  \/ /\ relays[p] = NoPort
     /\ \E port \in Port \ {relays[q] : q \in Peer} :
          relays' = [relays EXCEPT ![p] = port]

HostGame ==
  /\ wanted' = "Hosting"
  /\ TakesEffect("Hosting")
  /\ UNCHANGED relays

JoinGame(p) == Open(p) /\ wanted' = "Joining" /\ TakesEffect("Joining")

ConnectToPeer(p) == Open(p) /\ TakesEffect(role) /\ UNCHANGED wanted

DisconnectFromPeer(p) ==
  /\ relays[p] # NoPort
  /\ relays' = [relays EXCEPT ![p] = NoPort]
  /\ TakesEffect(role)
  /\ UNCHANGED wanted

-----------------------------------------------------------------------------
(* The game.                                                               *)

\* A peer it was told to join may be gone again; what the client told an
\* earlier game may be done now.
EnterLobby ==
  /\ ~inLobby /\ inLobby'
  /\ table' = relays
  /\ role' \in {role, "Hosting", "Joining"}
  /\ wanted = "Hosting" => role' = "Hosting"
  /\ UNCHANGED <<relays, wanted>>

LeaveLobby ==
  /\ inLobby /\ ~inLobby'
  /\ UNCHANGED <<relays, wanted, table, role>>

Exit ==
  /\ inLobby' = FALSE
  /\ table' = NoRelays
  /\ role' = "none"
  /\ UNCHANGED <<relays, wanted>>

\* The adapter notices that the game is gone.
Forget ==
  /\ ~inLobby /\ table = NoRelays
  /\ relays' = NoRelays
  /\ wanted' = "Idle"
  /\ UNCHANGED <<inLobby, table, role>>

Next ==
  \/ HostGame
  \/ \E p \in Peer : JoinGame(p) \/ ConnectToPeer(p) \/ DisconnectFromPeer(p)
  \/ EnterLobby \/ LeaveLobby \/ Exit \/ Forget

Spec == Init /\ [][Next]_vars
=============================================================================
