----------------------------- MODULE Pingtracker -----------------------------
(***************************************************************************)
(* How a test client, which is its own game, measures the connection to    *)
(* one peer (legacy_testclient/Pingtracker.cpp, and the trackers in        *)
(* Testclient.cpp).  The adapter tells the game over the GPGNet connection *)
(* which peers there are and the client over the JSON-RPC connection which *)
(* of them are connected: two channels, read by one thread in any order.   *)
(* The pings and pongs go through the adapters and may get lost or late.   *)
(*                                                                         *)
(* Time: a tick is the period of mPingTimer.  A timer may be late and then *)
(* does not catch up, so there is at most one ping in a tick.  ICE takes   *)
(* longer than a message on a local connection: by the time a peer is      *)
(* connected the game has read what it was sent before this relay.         *)
(***************************************************************************)
EXTENDS Naturals, FiniteSets, Sequences

CONSTANTS
  Expire,     \* 5000 ms, in ticks
  MaxPings,   \* bound on the pings of a tracker
  MaxRelays,  \* bound on the relays the adapter creates for the peer
  MaxLosses   \* bound on the connections a relay loses

ASSUME PingtrackerAssumption ==
  /\ Expire \in Nat
  /\ MaxPings \in Nat
  /\ MaxRelays \in Nat
  /\ MaxLosses \in Nat

VARIABLES
  relay,       \* the adapter's relay for the peer
  relays,      \* relays created so far
  losses,      \* connections lost so far
  gpgnet,      \* GPGNet messages on their way to the game
  rpc,         \* onConnected notifications on their way to the client
  peersReady,  \* whether the peer is in mPeersReady
  tracker,     \* its entry in mPeerIdPingtrackers
  pinged,      \* whether mPingTimer has fired in this tick
  packets      \* pings and pongs that may still arrive, with their tracker

vars == <<relay, relays, losses, gpgnet, rpc, peersReady, tracker, pinged,
          packets>>
adapterVars == <<relay, relays, losses>>
clientVars == <<peersReady, tracker, pinged>>

NoTracker == [exists |-> FALSE, started |-> FALSE, age |-> <<>>, next |-> 0,
              successful |-> 0, lost |-> 0]

Pending == DOMAIN tracker.age   \* the ids in mPendingPings

TypeOK ==
  /\ relay \in {"none", "connecting", "connected"}
  /\ relays \in 0 .. MaxRelays
  /\ losses \in 0 .. MaxLosses
  /\ gpgnet \in Seq({"ConnectToPeer", "DisconnectFromPeer"})
  /\ rpc \in Seq(BOOLEAN)
  /\ peersReady \in BOOLEAN
  /\ Pending \subseteq 0 .. tracker.next - 1
  /\ \A i \in Pending : tracker.age[i] \in 0 .. Expire + 1
  /\ tracker.next \in 0 .. MaxPings
  /\ packets \subseteq (1 .. MaxRelays) \X (0 .. MaxPings - 1)

Init ==
  /\ relay = "none"
  /\ relays = 0
  /\ losses = 0
  /\ gpgnet = <<>>
  /\ rpc = <<>>
  /\ peersReady = FALSE
  /\ tracker = NoTracker
  /\ pinged = FALSE
  /\ packets = {}

-----------------------------------------------------------------------------
(* The adapter (IceAdapter.tla and PeerLink.tla), as the client sees it.   *)

ConnectToPeer ==
  /\ relay = "none"
  /\ relays < MaxRelays
  /\ relays' = relays + 1
  /\ relay' = "connecting"
  /\ gpgnet' = Append(gpgnet, "ConnectToPeer")
  /\ UNCHANGED <<losses, rpc, clientVars, packets>>

DisconnectFromPeer ==
  /\ relay # "none"
  /\ relay' = "none"
  /\ gpgnet' = Append(gpgnet, "DisconnectFromPeer")
  /\ UNCHANGED <<relays, losses, rpc, clientVars, packets>>

Connects ==
  /\ relay = "connecting"
  /\ "DisconnectFromPeer" \notin {gpgnet[i] : i \in DOMAIN gpgnet}
  /\ relay' = "connected"
  /\ rpc' = Append(rpc, TRUE)
  /\ UNCHANGED <<relays, losses, gpgnet, clientVars, packets>>

LosesConnection ==
  /\ relay = "connected"
  /\ losses < MaxLosses
  /\ losses' = losses + 1
  /\ relay' = "connecting"
  /\ rpc' = Append(rpc, FALSE)
  /\ UNCHANGED <<relays, gpgnet, clientVars, packets>>

-----------------------------------------------------------------------------
(* The client.                                                             *)

\* Mutant: a new tracker waits for the next onConnected.
NewTrackerWaits == [NoTracker EXCEPT !.exists = TRUE]

\* The tracker made for ConnectToPeer and JoinGame starts at once if the
\* notification was read before.
NewTracker == [NoTracker EXCEPT !.exists = TRUE, !.started = peersReady]

\* onGPGNetMessageFromIceAdapter.
GpgnetRead ==
  /\ gpgnet # <<>>
  /\ gpgnet' = Tail(gpgnet)
  /\ IF Head(gpgnet) = "ConnectToPeer"
     THEN tracker' = NewTracker /\ UNCHANGED peersReady
     ELSE tracker' = NoTracker /\ peersReady' = FALSE
  /\ UNCHANGED <<adapterVars, rpc, pinged, packets>>

\* onConnected: a lost connection stops nothing.
OnConnected ==
  /\ rpc # <<>>
  /\ rpc' = Tail(rpc)
  /\ IF Head(rpc)
     THEN /\ peersReady' = TRUE
          /\ tracker' = [tracker EXCEPT !.started = @ \/ tracker.exists]
     ELSE UNCHANGED <<peersReady, tracker>>
  /\ UNCHANGED <<adapterVars, gpgnet, pinged, packets>>

\* on_pushButton_leave_clicked: all trackers go; the game closes the GPGNet
\* connection, upon which the adapter drops the relay.
LeaveClicked ==
  /\ relays > 0
  /\ tracker' = NoTracker
  /\ peersReady' = FALSE
  /\ gpgnet' = <<>>
  /\ relay' = "none"
  /\ UNCHANGED <<relays, losses, rpc, pinged, packets>>

-----------------------------------------------------------------------------
(* Pings.                                                                  *)

Tick ==
  /\ pinged' = FALSE
  /\ tracker' = [tracker EXCEPT !.age =
       [i \in Pending |-> IF @[i] <= Expire THEN @[i] + 1 ELSE @[i]]]
  /\ UNCHANGED <<adapterVars, gpgnet, rpc, peersReady, packets>>

\* Mutant: the id is incremented before it is remembered.
PingNext ==
  /\ tracker.started
  /\ ~pinged
  /\ tracker.next < MaxPings
  /\ pinged' = TRUE
  /\ tracker' = [tracker EXCEPT
       !.age = [i \in Pending \cup {tracker.next + 1} |->
                  IF i \in Pending THEN @[i] ELSE 0],
       !.next = @ + 1]
  /\ packets' = IF relay = "connected"
                THEN packets \cup {<<relays, tracker.next>>} ELSE packets
  /\ UNCHANGED <<adapterVars, gpgnet, rpc, peersReady>>

\* The timeout of mPingTimer.  The adapter passes the ping on to a connected
\* peer.
Ping ==
  /\ tracker.started
  /\ ~pinged
  /\ tracker.next < MaxPings
  /\ pinged' = TRUE
  /\ tracker' = [tracker EXCEPT
       !.age = [i \in Pending \cup {tracker.next} |->
                  IF i \in Pending THEN @[i] ELSE 0],
       !.next = @ + 1]
  /\ packets' = IF relay = "connected"
                THEN packets \cup {<<relays, tracker.next>>} ELSE packets
  /\ UNCHANGED <<adapterVars, gpgnet, rpc, peersReady>>

Without(ids) == [i \in Pending \ ids |-> tracker.age[i]]

\* Mutant: a pong is counted whether or not its ping is pending.
OnPongUnchecked(id) ==
  IF tracker.exists
  THEN tracker' = [tracker EXCEPT !.age = Without({id}), !.successful = @ + 1]
  ELSE UNCHANGED tracker

\* The PONG of onPingPacket, dispatched by onLobbyReadyRead: only a ping that
\* is pending counts, be it this tracker's or one before.
OnPong(id) ==
  IF tracker.exists /\ id \in Pending
  THEN tracker' = [tracker EXCEPT !.age = Without({id}), !.successful = @ + 1]
  ELSE UNCHANGED tracker

PongArrives ==
  \E p \in packets :
    /\ packets' = packets \ {p}
    /\ OnPong(p[2])
    /\ UNCHANGED <<adapterVars, gpgnet, rpc, peersReady, pinged>>

PacketLost ==
  \E p \in packets :
    /\ packets' = packets \ {p}
    /\ UNCHANGED <<adapterVars, gpgnet, rpc, clientVars>>

\* Mutant: the limit is above what is measured.
ExpiredNever ==
  {i \in Pending : \A j \in Pending : j <= i => tracker.age[j] > Expire + 1}

\* The pings the loop of update() drops: from the first on until one is fresh.
Expired == {i \in Pending : \A j \in Pending : j <= i => tracker.age[j] > Expire}

\* The timeout of updateTimer, every ten ticks.
Update ==
  /\ tracker.exists
  /\ tracker' = [tracker EXCEPT !.age = Without(Expired),
                                !.lost = @ + Cardinality(Expired)]
  /\ UNCHANGED <<adapterVars, gpgnet, rpc, peersReady, pinged, packets>>

Next ==
  \/ ConnectToPeer \/ DisconnectFromPeer \/ Connects \/ LosesConnection
  \/ GpgnetRead \/ OnConnected \/ LeaveClicked
  \/ Tick \/ Ping \/ PongArrives \/ PacketLost \/ Update

Spec == Init /\ [][Next]_vars

\* The timers of a running event loop fire again and again.
FairSpec == Spec /\ WF_vars(Tick) /\ WF_vars(Update)

-----------------------------------------------------------------------------

\* Every ping of a tracker is counted exactly once: as answered, as lost or as
\* pending, however late or after which tracker its pong arrives.
Accounted ==
  tracker.next = tracker.successful + tracker.lost + Cardinality(Pending)

\* When both channels are empty there is a tracker exactly while there is a
\* relay, and it runs if the relay is connected, in whichever order the
\* channels were read and whatever was left and joined meanwhile.
TrackerFollowsRelay ==
  gpgnet = <<>> /\ rpc = <<>> =>
    /\ tracker.exists <=> relay # "none"
    /\ relay = "connected" => tracker.started

\* No ping stays pending for ever.
PingsSettle ==
  \A i \in 0 .. MaxPings - 1 : (i \in Pending) ~> (i \notin Pending)
=============================================================================
