---------------------------- MODULE Connectivity ----------------------------
(***************************************************************************)
(* The offerer's connectivity checker (PeerConnectivityChecker.cpp) on one *)
(* data channel after the other, the pongs of the answerer, and the        *)
(* reinitialisation that gives the relay a new channel and a new checker.  *)
(*                                                                         *)
(* Time is discrete.  The network is the environment: it opens the channel *)
(* at most OpenBy after its creation, or breaks it; an open one loses at   *)
(* most MaxLost pings in a row and brings back the pong of every other one *)
(* within MaxRoundTrip.                                                    *)
(***************************************************************************)
EXTENDS Timer

CONSTANTS
  ConnectionTimeout,    \* _connectionTimeoutMs
  CheckInterval,        \* _connectionCheckIntervalMs
  PingStartDelay,       \* _connectionPingStartDelayTimeMs
  PingInterval,         \* _connectionPingIntervalMs
  OpenBy,
  MaxRoundTrip,
  MaxLost,
  MaxLate               \* how late the thread may handle a message

VARIABLES
  channel,              \* the data channel, as the network has it
  silence,              \* time since the last packet, or since the start
  connectivityCheckTimer,
  pingStartDelayTimer,
  pingTimer,
  pongs,                \* times until the pongs on their way arrive
  lost,                 \* pings lost in a row
  reinit                \* whether the relay's _reinitTimer runs

timers == <<connectivityCheckTimer, pingStartDelayTimer, pingTimer>>
vars == <<channel, silence, timers, pongs, lost, reinit>>

ASSUME DurationAssumption ==
  /\ ConnectionTimeout \in Nat \ {0}
  /\ CheckInterval \in Nat \ {0}
  /\ PingStartDelay \in Nat \ {0}
  /\ PingInterval \in Nat \ {0}
  /\ OpenBy \in Nat /\ MaxRoundTrip \in Nat /\ MaxLost \in Nat /\ MaxLate \in Nat

\* The longest time between two pings, or a ping and the one after the lost
\* ones, until the pong of the last arrives.
PongWithin == (MaxLost + 1) * (PingInterval + MaxLate) + MaxRoundTrip

\* The checker leaves enough time for the first pong, whether the channel
\* opens before or after the first ping.
ASSUME TimingAssumption ==
  /\ OpenBy + PongWithin < ConnectionTimeout
  /\ PingStartDelay + MaxLate + PongWithin < ConnectionTimeout

TypeOK ==
  /\ channel \in {"connecting", "open", "broken"}
  /\ silence \in Nat
  /\ connectivityCheckTimer \in Timer
  /\ connectivityCheckTimer.due \in -MaxLate .. CheckInterval
  /\ pingStartDelayTimer \in Timer
  /\ pingStartDelayTimer.due \in -MaxLate .. PingStartDelay
  /\ pingTimer \in Timer
  /\ pingTimer.due \in -MaxLate .. PingInterval
  /\ pongs \subseteq 0 .. MaxRoundTrip
  /\ lost \in 0 .. MaxLost
  /\ reinit \in BOOLEAN

-----------------------------------------------------------------------------

\* A new channel with its checker; the pongs of an older one never arrive.
Init ==
  /\ channel = "connecting"
  /\ silence = 0
  /\ connectivityCheckTimer = Start(CheckInterval)
  /\ pingStartDelayTimer = SingleShot(PingStartDelay)
  /\ pingTimer = Stopped
  /\ pongs = {}
  /\ lost = 0
  /\ reinit = FALSE

-----------------------------------------------------------------------------
(* The network.                                                            *)

Open ==
  /\ channel = "connecting"
  /\ channel' = "open"
  /\ UNCHANGED <<silence, timers, pongs, lost, reinit>>

\* The network fails, or does not manage to open the channel.
Break ==
  /\ channel \in {"connecting", "open"}
  /\ channel' = "broken"
  /\ pongs' = {}
  /\ UNCHANGED <<silence, timers, lost, reinit>>

-----------------------------------------------------------------------------
(* The checker.                                                            *)

\* Mutant: the interval and the delay are swapped.
StartPingDelayed ==
  /\ Fires(pingStartDelayTimer)
  /\ pingTimer' = Start(PingStartDelay)
  /\ pingStartDelayTimer' = OnMessage(pingStartDelayTimer)
  /\ UNCHANGED <<channel, silence, connectivityCheckTimer, pongs, lost, reinit>>

\* _startPing
StartPing ==
  /\ Fires(pingStartDelayTimer)
  /\ pingTimer' = Start(PingInterval)
  /\ pingStartDelayTimer' = OnMessage(pingStartDelayTimer)
  /\ UNCHANGED <<channel, silence, connectivityCheckTimer, pongs, lost, reinit>>

\* Mutant: the time of the ping is stored as that of a pong.
SendPingHeard ==
  /\ Fires(pingTimer)
  /\ pingTimer' = OnMessage(pingTimer)
  /\ silence' = 0
  /\ UNCHANGED <<channel, connectivityCheckTimer, pingStartDelayTimer, pongs, lost,
                 reinit>>

\* _sendPing.  A channel that is not open refuses the ping; the answerer
\* returns a pong for each ping it receives.
SendPing ==
  /\ Fires(pingTimer)
  /\ pingTimer' = OnMessage(pingTimer)
  /\ \/ /\ channel # "open"
        /\ UNCHANGED <<pongs, lost>>
     \/ /\ channel = "open"
        /\ lost < MaxLost
        /\ lost' = lost + 1
        /\ UNCHANGED pongs
     \/ /\ channel = "open"
        /\ lost' = 0
        /\ \E d \in 0 .. MaxRoundTrip : pongs' = pongs \cup {d}
  /\ UNCHANGED <<channel, silence, connectivityCheckTimer, pingStartDelayTimer,
                 reinit>>

\* Mutant: a pong is taken for game data of another channel.
ReceivePongUnnoticed ==
  /\ 0 \in pongs
  /\ pongs' = pongs \ {0}
  /\ UNCHANGED <<channel, silence, timers, lost, reinit>>

\* handleMessageFromPeer with a pong.
ReceivePong ==
  /\ 0 \in pongs
  /\ pongs' = pongs \ {0}
  /\ silence' = 0
  /\ UNCHANGED <<channel, timers, lost, reinit>>

\* handleMessageFromPeer with the data of the other game.
ReceiveData ==
  /\ channel = "open"
  /\ silence' = 0
  /\ UNCHANGED <<channel, timers, pongs, lost, reinit>>

\* _checkConnectivity.  The start counts only while nothing was received, so
\* the code's three times make one: the time since the latest of them.
CheckConnectivity ==
  /\ Fires(connectivityCheckTimer)
  /\ connectivityCheckTimer' = OnMessage(connectivityCheckTimer)
  /\ reinit' = (reinit \/ silence >= ConnectionTimeout)
  /\ UNCHANGED <<channel, silence, pingStartDelayTimer, pingTimer, pongs, lost>>

\* The reinitialisation a millisecond later.
Reinit ==
  /\ reinit
  /\ channel' = "connecting"
  /\ silence' = 0
  /\ connectivityCheckTimer' = Start(CheckInterval)
  /\ pingStartDelayTimer' = SingleShot(PingStartDelay)
  /\ pingTimer' = Stopped
  /\ pongs' = {}
  /\ lost' = 0
  /\ reinit' = FALSE

\* Time passes, unless something must happen before.
Tick ==
  /\ ~reinit
  /\ 0 \notin pongs
  /\ channel = "connecting" => silence < OpenBy
  /\ InTime(connectivityCheckTimer, MaxLate)
  /\ InTime(pingStartDelayTimer, MaxLate)
  /\ InTime(pingTimer, MaxLate)
  /\ silence' = silence + 1
  /\ connectivityCheckTimer' = Elapse(connectivityCheckTimer)
  /\ pingStartDelayTimer' = Elapse(pingStartDelayTimer)
  /\ pingTimer' = Elapse(pingTimer)
  /\ pongs' = {d - 1 : d \in pongs}
  /\ UNCHANGED <<channel, lost, reinit>>

Next ==
  \/ Open
  \/ Break
  \/ StartPing
  \/ SendPing
  \/ ReceivePong
  \/ ReceiveData
  \/ CheckConnectivity
  \/ Reinit
  \/ Tick

Spec == Init /\ [][Next]_vars

\* The thread handles every message that is due, and time passes.  The network
\* is obliged to nothing.
Fairness ==
  /\ WF_vars(StartPing)
  /\ WF_vars(SendPing)
  /\ WF_vars(CheckConnectivity)
  /\ WF_vars(Reinit)
  /\ WF_vars(Tick)

FairSpec == Spec /\ Fairness

-----------------------------------------------------------------------------

\* A channel that opened in time and did not break is never reinitialised,
\* even if no game data passes and pings are lost: the delay before the first
\* ping, the interval of pings and the timeout fit together.
NoFalseAlarm == reinit => channel = "broken"

\* A connection on which nothing is received is given up after the timeout and
\* at most one interval of the check: no order of the timers postpones it.
LossNoticed == silence < ConnectionTimeout + CheckInterval + MaxLate

\* A channel that broke is given up: neither the delays nor a message that
\* is still on its way keeps the checker quiet for ever.
BrokenIsGivenUp == channel = "broken" ~> channel = "connecting"
=============================================================================
