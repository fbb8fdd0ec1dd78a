------------------------------ MODULE PeerRelay ------------------------------
(***************************************************************************)
(* One peer relay (PeerRelay.cpp, PeerRelayObservers.cpp) as a record, and *)
(* its methods as operators that take the relay before a call to the relay *)
(* after it.  PeerLink.tla puts two of them together.                      *)
(*                                                                         *)
(* Of libwebrtc, which is not part of the repository, a relay keeps what   *)
(* belongs to its current peer connection: the signalling state, the peer  *)
(* connection the remote description came from, and the one call whose     *)
(* observer was not called yet.  They end with the peer connection.        *)
(***************************************************************************)

CONSTANTS
  Pc,     \* identities of peer connections
  NoPc    \* no peer connection

ASSUME PcAssumption == NoPc \notin Pc

\* createOffer, createAnswer, setLocal and setRemote wait for OnSuccess of the
\* observer of that call, gather for OnIceCandidate.
Todo == {"none", "createOffer", "createAnswer", "setLocal", "setRemote", "gather"}

\* _iceState.  "completed" is not told apart from "connected"; a new peer
\* connection reports nothing until it is checking.
IceStates == {"none", "checking", "connected", "disconnected", "failed", "closed"}

Relay == [pc : Pc \cup {NoPc}, signaling : {"stable", "haveLocalOffer"},
          remote : Pc \cup {NoPc}, todo : Todo, iceState : IceStates,
          isConnected : BOOLEAN, connectionChecker : BOOLEAN,
          reinitTimer : BOOLEAN, dataChannel : {"none", "connecting", "open"}]

-----------------------------------------------------------------------------

\* _close: PeerConnection::Close reports "closed" at once, but to a relay that
\* is closing, which only stores it.
Close(r) ==
  [r EXCEPT !.connectionChecker = FALSE, !.dataChannel = "none", !.pc = NoPc,
            !.signaling = "stable", !.remote = NoPc, !.todo = "none",
            !.iceState = IF r.pc = NoPc THEN @ ELSE "closed"]

\* The reinitFunction of _reinitPeerconnection; id is the new peer connection.
Reinit(r, isOfferer, id) ==
  [Close(r) EXCEPT !.pc = id,
                   !.todo = IF isOfferer THEN "createOffer" ELSE "none",
                   !.dataChannel = IF isOfferer THEN "connecting" ELSE "none",
                   !.connectionChecker = isOfferer]

\* The members of a relay before its constructor runs.
Blank == [pc |-> NoPc, signaling |-> "stable", remote |-> NoPc, todo |-> "none",
          iceState |-> "none", isConnected |-> FALSE, connectionChecker |-> FALSE,
          reinitTimer |-> FALSE, dataChannel |-> "none"]

\* Mutant: the offerer waits for something to connect with.
ConstructIdle(isOfferer, id) == Blank

\* The constructor: the answerer waits for an offer.
Construct(isOfferer, id) ==
  IF isOfferer THEN Reinit(Blank, TRUE, id) ELSE Blank

\* Mutant: a lost connection is left to the checker that was just removed.
SetIceStateWithoutReinit(r, isOfferer, state) ==
  LET lost == isOfferer /\ state \in {"failed", "disconnected"} IN
  [r EXCEPT !.iceState = state,
            !.isConnected = (state = "connected"),
            !.connectionChecker = @ /\ ~lost]

\* Mutant: the checker goes on while the reinitialisation waits.
SetIceStateKeepsChecker(r, isOfferer, state) ==
  [r EXCEPT !.iceState = state,
            !.isConnected = (state = "connected"),
            !.reinitTimer = @ \/ (isOfferer /\ state \in {"failed", "disconnected"})]

\* _setIceState while not closing, with _setConnected: the offerer drops the
\* checker and reinitialises in 100 ms, unless its timer runs already.  The
\* code lists "closed" too, which comes only while closing.
SetIceState(r, isOfferer, state) ==
  LET lost == isOfferer /\ state \in {"failed", "disconnected"} IN
  [r EXCEPT !.iceState = state,
            !.isConnected = (state = "connected"),
            !.connectionChecker = @ /\ ~lost,
            !.reinitTimer = @ \/ lost]

-----------------------------------------------------------------------------
(* addIceMessage.                                                          *)

\* An answer at the offerer.  libwebrtc takes it after a local offer only, but
\* cannot tell to which offer it belongs.
AddAnswer(r, from) ==
  IF r.signaling = "haveLocalOffer"
    THEN [r EXCEPT !.remote = from, !.signaling = "stable"]
    ELSE r

\* Mutant: an answerer that has a peer connection ignores further offers.
AddFirstOffer(r, from, id) ==
  IF r.pc # NoPc THEN r
  ELSE [Reinit(r, FALSE, id) EXCEPT !.remote = from, !.todo = "setRemote"]

\* An offer at the answerer: each one starts a new peer connection.
AddOffer(r, from, id) ==
  [Reinit(r, FALSE, id) EXCEPT !.remote = from, !.todo = "setRemote"]

\* A candidate.  Without a peer connection, or before its remote description,
\* it is lost; the first one that is used starts the connectivity checks.
AddCandidate(r, isOfferer) ==
  IF r.remote # NoPc /\ r.iceState \in {"none", "closed", "disconnected"}
    THEN SetIceState(r, isOfferer, "checking")
    ELSE r

-----------------------------------------------------------------------------
(* The observers.                                                          *)

\* CreateOfferObserver and CreateAnswerObserver::OnSuccess call
\* SetLocalDescription.
OnDescriptionCreated(r, isOfferer) ==
  [r EXCEPT !.signaling = IF isOfferer THEN "haveLocalOffer" ELSE "stable",
            !.todo = "setLocal"]

\* SetRemoteDescriptionObserver::OnSuccess; the offerer has nothing to do.
OnRemoteDescriptionSet(r) == [r EXCEPT !.todo = "createAnswer"]

\* SetLocalDescriptionObserver::OnSuccess, the description is sent.
OnLocalDescriptionSet(r) == [r EXCEPT !.todo = "gather"]

\* PeerConnectionObserver::OnIceCandidate; all candidates go as one message.
OnIceCandidate(r) == [r EXCEPT !.todo = "none"]

\* Mutant: the state has another name than the rest of the code uses.
OnDataChannelMisnamed(r) == [r EXCEPT !.dataChannel = "Open"]

\* PeerConnectionObserver::OnDataChannel at the answerer, the opening of its
\* own channel at the offerer.
OnDataChannel(r) == [r EXCEPT !.dataChannel = "open"]

\* The callback of the checker: _reinitPeerconnection(1).
OnConnectivityLost(r) == [r EXCEPT !.reinitTimer = TRUE]

\* Mutant: the timer repeats.
OnReinitTimerRepeats(r, isOfferer, id) == Reinit(r, isOfferer, id)

\* _reinitTimer fires: only after its callback it counts as stopped.
OnReinitTimer(r, isOfferer, id) ==
  [Reinit(r, isOfferer, id) EXCEPT !.reinitTimer = FALSE]
=============================================================================
