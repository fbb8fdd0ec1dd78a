------------------------------ MODULE PeerLink ------------------------------
(***************************************************************************)
(* Two adapters that connect their games: the relay of each for the other, *)
(* the clients that transfer the ICE messages, and the network that        *)
(* libwebrtc establishes a connection over.  One relay was created with    *)
(* createOffer, the other by joinGame or without it.                       *)
(*                                                                         *)
(* Time: the timeouts of ICE and of the connectivity checker take seconds. *)
(* A timely network and timely clients need less for a whole exchange, so  *)
(* a timeout happens either when nothing else can (Quiet), or as one of at *)
(* most MaxGlitches glitches.                                              *)
(***************************************************************************)
EXTENDS PeerRelay, Naturals, Sequences, SequencesExt

CONSTANTS
  MaxGlitches,   \* bound on untimely timeouts
  MaxRemovals    \* bound on calls of disconnectFromPeer

ASSUME PeerLinkAssumption == MaxGlitches \in Nat /\ MaxRemovals \in Nat

Side == {"offerer", "answerer"}
Other(s) == IF s = "offerer" THEN "answerer" ELSE "offerer"

VARIABLES
  exists,     \* whether the side's adapter has a relay for the other player
  relay,      \* the relay
  inbox,      \* messages on their way to iceMsg of the side
  glitches,   \* glitches that may still happen
  removals    \* disconnectFromPeer calls that may still happen

vars == <<exists, relay, inbox, glitches, removals>>

Message == [type : {"description", "candidate"}, pc : Pc]

TypeOK ==
  /\ exists \in [Side -> BOOLEAN]
  /\ relay \in [Side -> Relay]
  /\ inbox \in [Side -> Seq(Message)]
  /\ glitches \in 0 .. MaxGlitches
  /\ removals \in 0 .. MaxRemovals

Init ==
  /\ exists = [s \in Side |-> FALSE]
  /\ relay = [s \in Side |-> Blank]
  /\ inbox = [s \in Side |-> <<>>]
  /\ glitches = MaxGlitches
  /\ removals = MaxRemovals

-----------------------------------------------------------------------------

IsOfferer(s) == s = "offerer"

\* The peer connections something still refers to; a new one is another.
InUse == {relay[s].pc : s \in Side} \cup {relay[s].remote : s \in Side}
           \cup UNION {{m.pc : m \in ToSet(inbox[s])} : s \in Side}
PcAvailable == Pc \ InUse # {}
FreshPc == CHOOSE id \in Pc : id \notin InUse

Send(s, type) ==
  inbox' = [inbox EXCEPT ![Other(s)] =
              Append(@, [type |-> type, pc |-> relay[s].pc])]

\* Each side has the description of the other's peer connection, so that ICE
\* and DTLS succeed if packets pass.
Paired ==
  /\ \A s \in Side :
       /\ relay[s].pc # NoPc
       /\ relay[s].remote = relay[Other(s)].pc
       /\ relay[s].iceState # "failed"

CanConnect(s) == Paired /\ relay[s].iceState \in {"checking", "disconnected"}

CanOpen(s) ==
  /\ Paired
  /\ \A t \in Side : relay[t].iceState = "connected"
  /\ relay[s].dataChannel # "open"

\* Data, pings and pongs pass in both directions.
Alive ==
  /\ Paired
  /\ \A s \in Side : /\ relay[s].iceState = "connected"
                     /\ relay[s].dataChannel = "open"

\* Nothing is under way that takes less than a timeout.
Quiet ==
  \A s \in Side :
    /\ inbox[s] = <<>>
    /\ relay[s].todo = "none"
    /\ ~relay[s].reinitTimer
    /\ ~CanConnect(s)
    /\ ~CanOpen(s)

\* A timeout: due if the link does not work, or a glitch.
TimesOut ==
  \/ Quiet /\ ~Alive /\ UNCHANGED glitches
  \/ glitches > 0 /\ glitches' = glitches - 1

-----------------------------------------------------------------------------
(* The client: connectToPeer, joinGame, disconnectFromPeer, iceMsg.        *)

CreateRelay(s) ==
  /\ ~exists[s]
  /\ PcAvailable
  /\ exists' = [exists EXCEPT ![s] = TRUE]
  /\ relay' = [relay EXCEPT ![s] = Construct(IsOfferer(s), FreshPc)]
  /\ UNCHANGED <<inbox, glitches, removals>>

\* The destructor closes the connection, the timer's destructor stops it.
RemoveRelay(s) ==
  /\ exists[s]
  /\ removals > 0
  /\ removals' = removals - 1
  /\ exists' = [exists EXCEPT ![s] = FALSE]
  /\ relay' = [relay EXCEPT ![s] = Blank]
  /\ UNCHANGED <<inbox, glitches>>

\* What addIceMessage makes of m.
AddIceMessage(s, m) ==
  CASE m.type = "candidate" -> AddCandidate(relay[s], IsOfferer(s))
    [] m.type = "description" /\ s = "offerer" -> AddAnswer(relay[s], m.pc)
    [] m.type = "description" /\ s = "answerer" ->
         AddOffer(relay[s], m.pc, FreshPc)

\* A message for a relay that does not exist is dropped by IceAdapter::iceMsg.
IceMsg(s) ==
  /\ inbox[s] # <<>>
  /\ PcAvailable
  /\ inbox' = [inbox EXCEPT ![s] = Tail(@)]
  /\ relay' = IF exists[s]
                THEN [relay EXCEPT ![s] = AddIceMessage(s, Head(inbox[s]))]
                ELSE relay
  /\ UNCHANGED <<exists, glitches, removals>>

-----------------------------------------------------------------------------
(* libwebrtc calls an observer.                                            *)

DescriptionCreated(s) ==
  /\ relay[s].todo \in {"createOffer", "createAnswer"}
  /\ relay' = [relay EXCEPT ![s] = OnDescriptionCreated(@, IsOfferer(s))]
  /\ UNCHANGED <<exists, inbox, glitches, removals>>

RemoteDescriptionSet(s) ==
  /\ relay[s].todo = "setRemote"
  /\ relay' = [relay EXCEPT ![s] = OnRemoteDescriptionSet(@)]
  /\ UNCHANGED <<exists, inbox, glitches, removals>>

LocalDescriptionSet(s) ==
  /\ relay[s].todo = "setLocal"
  /\ Send(s, "description")
  /\ relay' = [relay EXCEPT ![s] = OnLocalDescriptionSet(@)]
  /\ UNCHANGED <<exists, glitches, removals>>

CandidateGathered(s) ==
  /\ relay[s].todo = "gather"
  /\ Send(s, "candidate")
  /\ relay' = [relay EXCEPT ![s] = OnIceCandidate(@)]
  /\ UNCHANGED <<exists, glitches, removals>>

IceConnects(s) ==
  /\ CanConnect(s)
  /\ relay' = [relay EXCEPT ![s] = SetIceState(@, IsOfferer(s), "connected")]
  /\ UNCHANGED <<exists, inbox, glitches, removals>>

DataChannelOpens(s) ==
  /\ CanOpen(s)
  /\ relay' = [relay EXCEPT ![s] = OnDataChannel(@)]
  /\ UNCHANGED <<exists, inbox, glitches, removals>>

-----------------------------------------------------------------------------
(* Timeouts.                                                               *)

\* No more packets are received on a connection.
IceLost(s) ==
  /\ relay[s].iceState = "connected"
  /\ TimesOut
  /\ relay' = [relay EXCEPT ![s] = SetIceState(@, IsOfferer(s), "disconnected")]
  /\ UNCHANGED <<exists, inbox, removals>>

\* No pair of candidates works, or none works again.
IceFails(s) ==
  /\ relay[s].iceState \in {"checking", "disconnected"}
  /\ TimesOut
  /\ relay' = [relay EXCEPT ![s] = SetIceState(@, IsOfferer(s), "failed")]
  /\ UNCHANGED <<exists, inbox, removals>>

\* PeerConnectivityChecker heard nothing for ten seconds.
ConnectivityLost(s) ==
  /\ relay[s].connectionChecker
  /\ ~relay[s].reinitTimer
  /\ TimesOut
  /\ relay' = [relay EXCEPT ![s] = OnConnectivityLost(@)]
  /\ UNCHANGED <<exists, inbox, removals>>

ReinitTimerFires(s) ==
  /\ relay[s].reinitTimer
  /\ PcAvailable
  /\ relay' = [relay EXCEPT ![s] = OnReinitTimer(@, IsOfferer(s), FreshPc)]
  /\ UNCHANGED <<exists, inbox, glitches, removals>>

-----------------------------------------------------------------------------

Observer(s) ==
  \/ DescriptionCreated(s)
  \/ RemoteDescriptionSet(s)
  \/ LocalDescriptionSet(s)
  \/ CandidateGathered(s)
  \/ IceConnects(s)
  \/ DataChannelOpens(s)

Timeout(s) == IceLost(s) \/ IceFails(s) \/ ConnectivityLost(s)

Next ==
  \E s \in Side :
    \/ CreateRelay(s)
    \/ RemoveRelay(s)
    \/ IceMsg(s)
    \/ Observer(s)
    \/ Timeout(s)
    \/ ReinitTimerFires(s)

Spec == Init /\ [][Next]_vars

\* The event loop of each adapter runs every handler that is due, libwebrtc
\* calls every observer it owes, and the clients transfer every message.
\* Nobody is obliged to create or to remove a relay.
Fairness ==
  \A s \in Side :
    /\ WF_vars(IceMsg(s))
    /\ WF_vars(Observer(s))
    /\ WF_vars(Quiet /\ IceLost(s))
    /\ WF_vars(Quiet /\ ConnectivityLost(s))
    /\ WF_vars(ReinitTimerFires(s))

FairSpec == Spec /\ Fairness
-----------------------------------------------------------------------------
(* Safety.                                                                 *)

Offerer == relay["offerer"]
Answerer == relay["answerer"]

\* addIceMessage dereferences the peer connection for a description, the
\* observers do for each call they complete: an offerer has one as long as it
\* exists, an answerer while it owes or is owed a call.
ConnectionPresent ==
  /\ exists["offerer"] => Offerer.pc # NoPc
  /\ \A s \in Side : relay[s].todo # "none" \/ relay[s].isConnected
                       => relay[s].pc # NoPc

\* An offerer always has something that will try again: its checker, or the
\* timer of the reinitialisation.  _setIceState drops one and needs the other.
RecoveryArmed ==
  exists["offerer"] => Offerer.connectionChecker \/ Offerer.reinitTimer

\* A checker never outlives the connection of its relay, whose data channel it
\* pings, and an answerer never has one.
CheckerBelongs ==
  /\ ~Answerer.connectionChecker /\ ~Answerer.reinitTimer
  /\ Offerer.connectionChecker => /\ Offerer.iceState \notin {"disconnected", "failed"}
                                  /\ Offerer.dataChannel # "none"

\* While nothing is late and no relay was removed, the offerer never takes an
\* answer that belongs to another offer than its last one, although the code
\* does not compare them.
Timely == glitches = MaxGlitches /\ removals = MaxRemovals
AnswersMatch ==
  Timely /\ Offerer.remote # NoPc =>
    /\ Offerer.remote = Answerer.pc
    /\ Answerer.remote = Offerer.pc

\* A link that works is not torn down unless a glitch happened or a relay was
\* removed: neither the checker, nor a timer that was armed before the link
\* came up, nor a late message replaces a peer connection of it.
WorkingLinkKept ==
  [][Timely /\ Alive /\ Timely' => Alive']_vars

-----------------------------------------------------------------------------
(* Liveness.                                                               *)

\* If both relays stay, they end up connected and say so, however the relays
\* were removed and created before, and whatever was lost or late.
EventuallyConnected ==
  <>[](\A s \in Side : exists[s])
    => <>[](Alive /\ \A s \in Side : relay[s].isConnected)

\* onConnected tells the client that the connectivity to the peer is no longer
\* established.  The code breaks it: _close only stores the state "closed".
LostIsReported ==
  \A s \in Side :
    <>[](exists[s] /\ ~exists[Other(s)]) => []<>~relay[s].isConnected
=============================================================================
