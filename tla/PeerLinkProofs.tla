--------------------------- MODULE PeerLinkProofs ---------------------------
(***************************************************************************)
(* Theorems about PeerLink, for every set of peer connections and every    *)
(* number of glitches and removals.                                        *)
(***************************************************************************)
EXTENDS PeerLink, SequenceTheorems, TLAPS

-----------------------------------------------------------------------------
(* One relay: what each method preserves.                                  *)

\* The part of the invariant that speaks of one relay.
Good(r, isOfferer) ==
  /\ r \in Relay
  /\ r.todo # "none" \/ r.isConnected => r.pc # NoPc
  /\ r.pc = NoPc => r.iceState = "none" /\ r.remote = NoPc
  /\ ~isOfferer => ~r.connectionChecker /\ ~r.reinitTimer
  /\ r.connectionChecker => /\ r.iceState \notin {"disconnected", "failed"}
                            /\ r.dataChannel # "none"

\* An offerer that exists has a connection and something that will try again.
Armed(r) == r.pc # NoPc /\ (r.connectionChecker \/ r.reinitTimer)

LEMMA BlankGood ==
  ASSUME NEW isOfferer \in BOOLEAN PROVE Good(Blank, isOfferer)
  BY DEF Good, Blank, Relay, Todo, IceStates

LEMMA CloseType ==
  ASSUME NEW r \in Relay
  PROVE  Close(r) \in Relay /\ Close(r).isConnected = r.isConnected
         /\ Close(r).reinitTimer = r.reinitTimer
         /\ Close(r).iceState \in {"closed", r.iceState}
         /\ (r.pc # NoPc => Close(r).iceState = "closed")
<1>1. CASE r.pc = NoPc
  BY <1>1 DEF Close, Relay, Todo
<1>2. CASE r.pc # NoPc
  BY <1>2 DEF Close, Relay, Todo, IceStates
<1>3. QED
  BY <1>1, <1>2

LEMMA ReinitType ==
  ASSUME NEW r \in Relay, NEW isOfferer \in BOOLEAN, NEW id \in Pc
  PROVE  /\ Reinit(r, isOfferer, id) \in Relay
         /\ Reinit(r, isOfferer, id).pc = id
         /\ Reinit(r, isOfferer, id).connectionChecker = isOfferer
         /\ Reinit(r, isOfferer, id).reinitTimer = r.reinitTimer
         /\ Reinit(r, isOfferer, id).iceState = Close(r).iceState
         /\ isOfferer => Reinit(r, isOfferer, id).dataChannel = "connecting"
<1> DEFINE c == Close(r)
<1>1. c \in Relay /\ c.reinitTimer = r.reinitTimer
  BY CloseType
<1> DEFINE t == IF isOfferer THEN "createOffer" ELSE "none"
           d == IF isOfferer THEN "connecting" ELSE "none"
<1>2. t \in Todo /\ d \in {"none", "connecting", "open"}
  BY DEF Todo
<1>3. isOfferer => d = "connecting"
  OBVIOUS
<1>4. Reinit(r, isOfferer, id) = [c EXCEPT !.pc = id, !.todo = t, !.dataChannel = d,
                                           !.connectionChecker = isOfferer]
  BY DEF Reinit
<1> HIDE DEF c, t, d
<1>5. /\ Reinit(r, isOfferer, id) \in Relay
      /\ Reinit(r, isOfferer, id).pc = id
      /\ Reinit(r, isOfferer, id).dataChannel = d
      /\ Reinit(r, isOfferer, id).connectionChecker = isOfferer
      /\ Reinit(r, isOfferer, id).reinitTimer = c.reinitTimer
      /\ Reinit(r, isOfferer, id).iceState = c.iceState
  BY <1>1, <1>2, <1>4 DEF Relay
<1>6. QED
  BY <1>1, <1>3, <1>5 DEF c

LEMMA ReinitGood ==
  ASSUME NEW isOfferer \in BOOLEAN, NEW r, Good(r, isOfferer), NEW id \in Pc
  PROVE  /\ Good(Reinit(r, isOfferer, id), isOfferer)
         /\ isOfferer => Armed(Reinit(r, isOfferer, id))
<1>1. r \in Relay /\ Close(r).iceState \in {"none", "closed"}
  BY CloseType DEF Good
<1>2. id # NoPc
  BY PcAssumption
<1>3. QED
  BY <1>1, <1>2, ReinitType DEF Good, Armed

\* _setIceState: what the offerer drops, its timer replaces.
LEMMA SetIceStateGood ==
  ASSUME NEW isOfferer \in BOOLEAN, NEW r, Good(r, isOfferer), r.pc # NoPc,
         NEW state \in {"checking", "connected", "disconnected", "failed"}
  PROVE  /\ Good(SetIceState(r, isOfferer, state), isOfferer)
         /\ isOfferer /\ Armed(r) => Armed(SetIceState(r, isOfferer, state))
<1> DEFINE q == SetIceState(r, isOfferer, state)
           lost == isOfferer /\ state \in {"failed", "disconnected"}
<1>1. r \in Relay
  BY DEF Good
<1>2. /\ q \in Relay /\ q.pc = r.pc /\ q.todo = r.todo
      /\ q.iceState = state /\ q.dataChannel = r.dataChannel
      /\ q.connectionChecker = (r.connectionChecker /\ ~lost)
      /\ q.reinitTimer = (r.reinitTimer \/ lost)
  <2>1. q = [r EXCEPT !.iceState = state,
                      !.isConnected = (state = "connected"),
                      !.connectionChecker = @ /\ ~lost,
                      !.reinitTimer = @ \/ lost]
    BY DEF SetIceState
  <2>2. state \in IceStates /\ (state = "connected") \in BOOLEAN /\ lost \in BOOLEAN
    BY DEF IceStates
  <2> HIDE DEF q, lost
  <2>3. QED
    BY <1>1, <2>1, <2>2 DEF Relay
<1> HIDE DEF q
<1>3. Good(q, isOfferer)
  BY <1>1, <1>2 DEF Good, Relay
<1>4. Armed(r) => Armed(q)
  BY <1>1, <1>2 DEF Armed, Relay
<1>5. QED
  BY <1>3, <1>4 DEF q

\* addIceMessage.  The constructor gave an offerer its connection.
LEMMA AddIceMessageGood ==
  ASSUME NEW s \in Side, NEW m \in Message, Good(relay[s], IsOfferer(s)),
         FreshPc \in Pc, IsOfferer(s) => Armed(relay[s])
  PROVE  /\ Good(AddIceMessage(s, m), IsOfferer(s))
         /\ IsOfferer(s) => Armed(AddIceMessage(s, m))
<1> DEFINE r == relay[s]
<1>1. r \in Relay /\ m.pc \in Pc /\ m.type \in {"description", "candidate"}
      /\ IsOfferer(s) \in BOOLEAN
  BY DEF Good, Message, IsOfferer
<1>2. CASE m.type = "candidate"
  <2>1. AddIceMessage(s, m) = AddCandidate(r, IsOfferer(s))
    BY <1>2 DEF AddIceMessage
  <2>2. CASE r.remote # NoPc /\ r.iceState \in {"none", "closed", "disconnected"}
    <3>1. r.pc # NoPc
      BY <2>2 DEF Good
    <3>2. QED
      BY <1>1, <2>1, <2>2, <3>1, SetIceStateGood DEF AddCandidate
  <2>3. CASE ~(r.remote # NoPc /\ r.iceState \in {"none", "closed", "disconnected"})
    BY <2>1, <2>3 DEF AddCandidate
  <2>4. QED
    BY <2>2, <2>3
<1>3. CASE m.type = "description" /\ s = "offerer"
  <2>1. AddIceMessage(s, m) = AddAnswer(r, m.pc) /\ r.pc # NoPc
    BY <1>3 DEF AddIceMessage, IsOfferer, Armed
  <2>2. AddAnswer(r, m.pc) = r
        \/ AddAnswer(r, m.pc) = [r EXCEPT !.remote = m.pc, !.signaling = "stable"]
    BY DEF AddAnswer
  <2>3. CASE AddAnswer(r, m.pc) = r
    BY <2>1, <2>3
  <2>4. CASE AddAnswer(r, m.pc) = [r EXCEPT !.remote = m.pc, !.signaling = "stable"]
    <3> DEFINE q == [r EXCEPT !.remote = m.pc, !.signaling = "stable"]
    <3>1. /\ q \in Relay /\ q.pc = r.pc /\ q.todo = r.todo
          /\ q.isConnected = r.isConnected /\ q.iceState = r.iceState
          /\ q.connectionChecker = r.connectionChecker
          /\ q.reinitTimer = r.reinitTimer /\ q.dataChannel = r.dataChannel
      BY <1>1 DEF Relay
    <3> HIDE DEF q
    <3>2. Good(q, IsOfferer(s)) /\ (Armed(r) => Armed(q))
      BY <1>1, <2>1, <3>1 DEF Good, Armed
    <3>3. QED
      BY <2>1, <2>4, <3>2 DEF q
  <2>5. QED
    BY <2>2, <2>3, <2>4
<1>4. CASE m.type = "description" /\ s = "answerer"
  <2> DEFINE q == Reinit(r, FALSE, FreshPc)
  <2>1. AddIceMessage(s, m) = [q EXCEPT !.remote = m.pc, !.todo = "setRemote"]
    BY <1>4 DEF AddIceMessage, AddOffer
  <2>2. Good(q, FALSE) /\ q.pc = FreshPc /\ FreshPc # NoPc
    BY <1>1, <1>4, ReinitGood, ReinitType, PcAssumption DEF IsOfferer
  <2> HIDE DEF q
  <2>3. QED
    BY <1>1, <1>4, <2>1, <2>2, ZenonT(60) DEF Good, Relay, Todo, IsOfferer
<1>5. QED
  BY <1>1, <1>2, <1>3, <1>4 DEF Side

\* The observers.
LEMMA ObserverGood ==
  ASSUME NEW isOfferer \in BOOLEAN, NEW r, Good(r, isOfferer), r.pc # NoPc,
         NEW q \in {OnDescriptionCreated(r, isOfferer), OnRemoteDescriptionSet(r),
                    OnLocalDescriptionSet(r), OnIceCandidate(r), OnDataChannel(r)}
  PROVE  Good(q, isOfferer) /\ (Armed(r) => Armed(q))
<1>1. r \in Relay
  BY DEF Good
<1>2. /\ q \in Relay /\ q.pc = r.pc /\ q.iceState = r.iceState
      /\ q.connectionChecker = r.connectionChecker
      /\ q.reinitTimer = r.reinitTimer
      /\ r.dataChannel # "none" => q.dataChannel # "none"
  BY <1>1 DEF OnDescriptionCreated, OnRemoteDescriptionSet,
     OnLocalDescriptionSet, OnIceCandidate, OnDataChannel, Relay, Todo
<1>3. QED
  BY <1>1, <1>2 DEF Good, Armed

\* The loss of connectivity and the timer.
LEMMA OnConnectivityLostGood ==
  ASSUME NEW isOfferer \in BOOLEAN, NEW r, Good(r, isOfferer), r.connectionChecker
  PROVE  Good(OnConnectivityLost(r), isOfferer)
         /\ (Armed(r) => Armed(OnConnectivityLost(r)))
  BY DEF Good, OnConnectivityLost, Relay, Armed

LEMMA OnReinitTimerGood ==
  ASSUME NEW isOfferer \in BOOLEAN, NEW r, Good(r, isOfferer), NEW id \in Pc
  PROVE  /\ Good(OnReinitTimer(r, isOfferer, id), isOfferer)
         /\ isOfferer => Armed(OnReinitTimer(r, isOfferer, id))
<1> DEFINE q == Reinit(r, isOfferer, id)
<1>1. Good(q, isOfferer) /\ q.pc = id /\ q.connectionChecker = isOfferer
      /\ id # NoPc /\ r \in Relay
  BY ReinitGood, ReinitType, PcAssumption DEF Good
<1>2. OnReinitTimer(r, isOfferer, id) = [q EXCEPT !.reinitTimer = FALSE]
  BY DEF OnReinitTimer
<1> HIDE DEF q
<1>3. QED
  BY <1>1, <1>2 DEF Good, Relay, Armed

-----------------------------------------------------------------------------
(* The link.                                                               *)

\* TypeOK and the two invariants of the code it needs.
LinkInv ==
  /\ TypeOK
  /\ \A s \in Side : Good(relay[s], IsOfferer(s))
  /\ \A s \in Side : exists[s] /\ IsOfferer(s) => Armed(relay[s])

LEMMA FreshPcType == PcAvailable => FreshPc \in Pc
  BY DEF PcAvailable, FreshPc

\* A step that changes the relay of s into a good one keeps LinkInv.
LEMMA RelayStep ==
  ASSUME LinkInv, NEW s \in Side, NEW q, relay' = [relay EXCEPT ![s] = q],
         Good(q, IsOfferer(s)), exists'[s] /\ IsOfferer(s) => Armed(q),
         \A t \in Side \ {s} : exists'[t] = exists[t],
         exists' \in [Side -> BOOLEAN], inbox' \in [Side -> Seq(Message)],
         glitches' \in 0 .. MaxGlitches, removals' \in 0 .. MaxRemovals
  PROVE  LinkInv'
<1>1. relay \in [Side -> Relay] /\ q \in Relay
  BY DEF LinkInv, TypeOK, Good
<1>2. \A t \in Side : relay'[t] = IF t = s THEN q ELSE relay[t]
  BY <1>1
<1>3. relay' \in [Side -> Relay]
  BY <1>1
<1>4. QED
  BY <1>2, <1>3 DEF LinkInv, TypeOK, IsOfferer

LEMMA NextLinkInv == LinkInv /\ [Next]_vars => LinkInv'
<1> SUFFICES ASSUME LinkInv, [Next]_vars PROVE LinkInv'
  OBVIOUS
<1> USE PeerLinkAssumption
<1>1. /\ exists \in [Side -> BOOLEAN] /\ relay \in [Side -> Relay]
      /\ inbox \in [Side -> Seq(Message)]
      /\ glitches \in 0 .. MaxGlitches /\ removals \in 0 .. MaxRemovals
      /\ \A s \in Side : Good(relay[s], IsOfferer(s))
      /\ \A s \in Side : exists[s] /\ IsOfferer(s) => Armed(relay[s])
      /\ \A s \in Side : IsOfferer(s) \in BOOLEAN
  BY DEF LinkInv, TypeOK, IsOfferer
<1>2. ASSUME NEW s \in Side, relay[s].pc # NoPc, NEW type \in {"description", "candidate"},
             Send(s, type)
      PROVE  inbox' \in [Side -> Seq(Message)]
  <2>1. [type |-> type, pc |-> relay[s].pc] \in Message
    BY <1>1, <1>2 DEF Message, Relay
  <2>2. Append(inbox[Other(s)], [type |-> type, pc |-> relay[s].pc]) \in Seq(Message)
    BY <1>1, <2>1, AppendProperties DEF Side, Other
  <2>3. QED
    BY <1>1, <1>2, <2>2 DEF Send
<1>3. ASSUME TimesOut PROVE glitches' \in 0 .. MaxGlitches
  BY <1>1, <1>3 DEF TimesOut
<1>4. ASSUME NEW s \in Side, CreateRelay(s) PROVE LinkInv'
  <2>1. FreshPc \in Pc
    BY <1>4, FreshPcType DEF CreateRelay
  <2>2. Good(Construct(IsOfferer(s), FreshPc), IsOfferer(s))
        /\ (IsOfferer(s) => Armed(Construct(IsOfferer(s), FreshPc)))
    BY <1>1, <2>1, BlankGood, ReinitGood DEF Construct
  <2>3. QED
    BY <1>1, <1>4, <2>2, RelayStep DEF CreateRelay
<1>5. ASSUME NEW s \in Side, RemoveRelay(s) PROVE LinkInv'
  <2>1. Good(Blank, IsOfferer(s))
    BY <1>1, BlankGood
  <2>2. /\ exists' \in [Side -> BOOLEAN] /\ ~exists'[s]
        /\ \A t \in Side \ {s} : exists'[t] = exists[t]
    BY <1>1, <1>5 DEF RemoveRelay
  <2>3. removals' \in 0 .. MaxRemovals
    BY <1>1, <1>5 DEF RemoveRelay
  <2>4. QED
    BY <1>1, <1>5, <2>1, <2>2, <2>3, RelayStep DEF RemoveRelay
<1>6. ASSUME NEW s \in Side, IceMsg(s) PROVE LinkInv'
  <2>1. inbox' \in [Side -> Seq(Message)] /\ Head(inbox[s]) \in Message
    BY <1>1, <1>6, HeadTailProperties DEF IceMsg
  <2>2. FreshPc \in Pc
    BY <1>6, FreshPcType DEF IceMsg
  <2>3. CASE exists[s]
    BY <1>1, <1>6, <2>1, <2>2, <2>3, AddIceMessageGood, RelayStep DEF IceMsg
  <2>4. CASE ~exists[s]
    BY <1>1, <1>6, <2>1, <2>4 DEF IceMsg, LinkInv, TypeOK
  <2>5. QED
    BY <2>3, <2>4
<1>7. ASSUME NEW s \in Side, Observer(s) PROVE LinkInv'
  <2>1. relay[s].pc # NoPc
    <3>1. relay[s].todo # "none" => relay[s].pc # NoPc
      BY <1>1 DEF Good
    <3>2. QED
      BY <1>7, <3>1 DEF Observer, DescriptionCreated, RemoteDescriptionSet,
         LocalDescriptionSet, CandidateGathered, IceConnects, DataChannelOpens,
         CanConnect, CanOpen, Paired
  <2>2. CASE DescriptionCreated(s)
    BY <1>1, <2>1, <2>2, ObserverGood, RelayStep DEF DescriptionCreated
  <2>3. CASE RemoteDescriptionSet(s)
    BY <1>1, <2>1, <2>3, ObserverGood, RelayStep DEF RemoteDescriptionSet
  <2>4. CASE LocalDescriptionSet(s)
    BY <1>1, <1>2, <2>1, <2>4, ObserverGood, RelayStep DEF LocalDescriptionSet
  <2>5. CASE CandidateGathered(s)
    BY <1>1, <1>2, <2>1, <2>5, ObserverGood, RelayStep DEF CandidateGathered
  <2>6. CASE IceConnects(s)
    BY <1>1, <2>1, <2>6, SetIceStateGood, RelayStep DEF IceConnects
  <2>7. CASE DataChannelOpens(s)
    BY <1>1, <2>1, <2>7, ObserverGood, RelayStep DEF DataChannelOpens
  <2>8. QED
    BY <1>7, <2>2, <2>3, <2>4, <2>5, <2>6, <2>7 DEF Observer
<1>8. ASSUME NEW s \in Side, Timeout(s) PROVE LinkInv'
  <2>1. glitches' \in 0 .. MaxGlitches
    BY <1>3, <1>8 DEF Timeout, IceLost, IceFails, ConnectivityLost
  <2>2. relay[s].iceState # "none" => relay[s].pc # NoPc
    BY <1>1 DEF Good
  <2>3. CASE IceLost(s)
    BY <1>1, <2>1, <2>2, <2>3, SetIceStateGood, RelayStep DEF IceLost
  <2>4. CASE IceFails(s)
    BY <1>1, <2>1, <2>2, <2>4, SetIceStateGood, RelayStep DEF IceFails
  <2>5. CASE ConnectivityLost(s)
    BY <1>1, <2>1, <2>5, OnConnectivityLostGood, RelayStep DEF ConnectivityLost
  <2>6. QED
    BY <1>8, <2>3, <2>4, <2>5 DEF Timeout
<1>9. ASSUME NEW s \in Side, ReinitTimerFires(s) PROVE LinkInv'
  <2>1. FreshPc \in Pc
    BY <1>9, FreshPcType DEF ReinitTimerFires
  <2>2. QED
    BY <1>1, <1>9, <2>1, OnReinitTimerGood, RelayStep DEF ReinitTimerFires
<1>10. CASE UNCHANGED vars
  BY <1>10 DEF vars, LinkInv, TypeOK
<1>11. QED
  BY <1>4, <1>5, <1>6, <1>7, <1>8, <1>9, <1>10 DEF Next

LEMMA LinkInvariant == Spec => []LinkInv
<1>1. Init => LinkInv
  <2> SUFFICES ASSUME Init PROVE LinkInv
    OBVIOUS
  <2>1. \A s \in Side : Good(Blank, IsOfferer(s)) /\ Blank \in Relay
    BY BlankGood DEF IsOfferer, Good
  <2>2. TypeOK
    BY <2>1, PeerLinkAssumption DEF Init, TypeOK
  <2>3. QED
    BY <2>1, <2>2 DEF Init, LinkInv
<1>2. QED
  BY <1>1, NextLinkInv, PTL DEF Spec

\* The variables keep their types.
THEOREM LinkTyping == Spec => []TypeOK
  BY LinkInvariant, PTL DEF LinkInv

\* addIceMessage and the observers find the peer connection they dereference
\* (PeerRelay.cpp and PeerRelayObservers.cpp do not test for it).
THEOREM NoNullConnection == Spec => []ConnectionPresent
<1>1. LinkInv => ConnectionPresent
  BY DEF LinkInv, ConnectionPresent, Good, Armed, IsOfferer, Side, Offerer
<1>2. QED
  BY <1>1, LinkInvariant, PTL

\* The offerer's watchdog is never lost (_setIceState, _reinitPeerconnection).
THEOREM AlwaysRecovers == Spec => []RecoveryArmed
<1>1. LinkInv => RecoveryArmed
  BY DEF LinkInv, RecoveryArmed, Armed, IsOfferer, Side, Offerer
<1>2. QED
  BY <1>1, LinkInvariant, PTL

\* A checker is only there with the data channel it pings, and only at the
\* offerer.
THEOREM CheckerOfConnection == Spec => []CheckerBelongs
<1>1. LinkInv => CheckerBelongs
  BY DEF LinkInv, CheckerBelongs, Good, IsOfferer, Side, Offerer, Answerer
<1>2. QED
  BY <1>1, LinkInvariant, PTL

-----------------------------------------------------------------------------
(* One exchange at a time: as long as nothing is late and no relay was     *)
(* removed, everything that is under way belongs to the offerer's present  *)
(* peer connection.                                                        *)

Sent(s, type) == [type |-> type, pc |-> relay[s].pc]

\* s has not sent its description yet.
Preparing(s) == relay[s].todo \notin {"none", "gather"}

\* What may be on its way from s: the rest of one description and candidate.
UnderWay(s) ==
  CASE Preparing(s) -> {<<>>}
    [] relay[s].todo = "gather" -> {<<>>, <<Sent(s, "description")>>}
    [] relay[s].todo = "none" -> {<<>>, <<Sent(s, "candidate")>>,
                                  <<Sent(s, "description"), Sent(s, "candidate")>>}

QueuesOK == \A s \in Side : inbox[Other(s)] \in UnderWay(s)

OfferPending ==
  \/ Preparing("offerer")
  \/ inbox["answerer"] # <<>> /\ Head(inbox["answerer"]).type = "description"

Answering == inbox["offerer"] # <<>> \/ Answerer.todo # "none"

\* The answerer has not seen an offer that is still to come, and answers the
\* last one; an answer that was taken is the answerer's last one.
AnswersOK ==
  /\ OfferPending => Answerer.remote # Offerer.pc
  /\ Answering => Offerer.pc # NoPc /\ Answerer.remote = Offerer.pc
  /\ Offerer.remote # NoPc => /\ Offerer.remote = Answerer.pc
                              /\ Answerer.remote = Offerer.pc

\* Candidates of the other side that arrived have been used.
CandidatesOK ==
  \A s \in Side :
    /\ relay[s].remote # NoPc
    /\ relay[s].remote = relay[Other(s)].pc
    /\ relay[Other(s)].todo = "none"
    /\ inbox[s] = <<>>
    => relay[s].iceState \notin {"none", "closed"}

\* While the timer runs nothing is under way, and nothing can connect.
TimerOK ==
  Offerer.reinitTimer =>
    /\ ~Paired
    /\ \A s \in Side : inbox[s] = <<>> /\ relay[s].todo = "none"

AbsentBlank == \A s \in Side : ~exists[s] => relay[s] = Blank

Exchange == QueuesOK /\ AnswersOK /\ CandidatesOK /\ TimerOK

TimelyInv == AbsentBlank /\ (Timely => Exchange)

LEMMA QueueFacts ==
  ASSUME NEW d, NEW c
  PROVE  /\ <<d>> # <<>> /\ <<d, c>> # <<>>
         /\ Head(<<d>>) = d /\ Tail(<<d>>) = <<>> /\ Append(<<>>, d) = <<d>>
         /\ Head(<<d, c>>) = d /\ Tail(<<d, c>>) = <<c>>
         /\ Append(<<d>>, c) = <<d, c>>
<1>1. <<d>> \in Seq({c, d}) /\ <<d, c>> \in Seq({c, d}) /\ <<>> \in Seq({c, d})
  OBVIOUS
<1>2. Len(<<d>>) = 1 /\ Len(<<d, c>>) = 2 /\ Len(<<>>) = 0
  OBVIOUS
<1>3. Tail(<<d>>) = <<>>
  BY <1>1, <1>2, HeadTailProperties, EmptySeq
<1>4. Append(<<>>, d) = <<d>>
  <2>1. Append(<<>>, d) \in Seq({c, d}) /\ Len(Append(<<>>, d)) = 1
        /\ Append(<<>>, d)[1] = d
    BY <1>1, <1>2, AppendProperties
  <2>2. QED
    BY <1>1, <1>2, <2>1, SeqEqual
<1>7. Append(<<d>>, c) = <<d, c>>
  <2>1. Append(<<d>>, c) \in Seq({c, d}) /\ Len(Append(<<d>>, c)) = 2
        /\ Append(<<d>>, c)[1] = d /\ Append(<<d>>, c)[2] = c
    BY <1>1, <1>2, AppendProperties
  <2>2. \A i \in 1 .. 2 : Append(<<d>>, c)[i] = <<d, c>>[i]
    <3>1. \A i \in 1 .. 2 : i = 1 \/ i = 2
      OBVIOUS
    <3>2. QED
      BY <2>1, <3>1
  <2>3. QED
    BY <1>1, <1>2, <2>1, <2>2, SeqEqual
<1>5. Tail(<<d, c>>) = <<c>>
  OBVIOUS
<1>6. QED
  BY <1>2, <1>3, <1>4, <1>5, <1>7

LEMMA Sides ==
  /\ Other("offerer") = "answerer" /\ Other("answerer") = "offerer"
  /\ Side = {"offerer", "answerer"} /\ "offerer" # "answerer"
  /\ \A s \in Side : Other(s) \in Side /\ Other(s) # s /\ Other(Other(s)) = s
  BY DEF Side, Other

\* The queue of s by what s still has to do.
LEMMA UnderWayCases ==
  ASSUME NEW s, relay[s].todo \in Todo
  PROVE  /\ Preparing(s) => UnderWay(s) = {<<>>}
         /\ relay[s].todo = "gather" =>
              UnderWay(s) = {<<>>, <<Sent(s, "description")>>}
         /\ relay[s].todo = "none" =>
              UnderWay(s) = {<<>>, <<Sent(s, "candidate")>>,
                             <<Sent(s, "description"), Sent(s, "candidate")>>}
  BY DEF UnderWay, Preparing, Todo

\* Timely states have timely predecessors, in which a timeout is due.
LEMMA TimelyStep ==
  ASSUME LinkInv, [Next]_vars, Timely'
  PROVE  /\ Timely
         /\ TimesOut => Quiet /\ ~Alive
         /\ \A s \in Side : ~RemoveRelay(s)
<1> USE PeerLinkAssumption DEF PeerLinkAssumption
<1>1. glitches \in 0 .. MaxGlitches /\ removals \in 0 .. MaxRemovals
  BY DEF LinkInv, TypeOK
<1>2. glitches' <= glitches /\ removals' <= removals
  <2>1. TimesOut => glitches' <= glitches
    BY <1>1 DEF TimesOut
  <2>2. QED
    BY <1>1, <2>1 DEF Next, CreateRelay, RemoveRelay, IceMsg, Observer,
       DescriptionCreated, RemoteDescriptionSet, LocalDescriptionSet,
       CandidateGathered, IceConnects, DataChannelOpens, Timeout, IceLost,
       IceFails, ConnectivityLost, ReinitTimerFires, vars
<1>3. Timely
  BY <1>1, <1>2 DEF Timely
<1>4. TimesOut => Quiet /\ ~Alive
  BY <1>1, <1>3 DEF TimesOut, Timely
<1>5. \A s \in Side : ~RemoveRelay(s)
  BY <1>1, <1>3 DEF RemoveRelay, Timely
<1>6. QED
  BY <1>3, <1>4, <1>5

\* When only timeouts are left and the sides are paired, they are connected.
LEMMA QuietPaired ==
  ASSUME LinkInv, QueuesOK, CandidatesOK, Quiet, ~Alive
  PROVE  ~Paired
<1> SUFFICES ASSUME Paired PROVE FALSE
  OBVIOUS
<1>1. \A s \in Side : relay[s].iceState \in IceStates \ {"none", "closed", "failed"}
  BY Sides DEF LinkInv, TypeOK, Relay, CandidatesOK, Paired, Quiet
<1>2. \A s \in Side : relay[s].iceState = "connected"
  BY <1>1 DEF Quiet, CanConnect, IceStates
<1>3. \A s \in Side : relay[s].dataChannel = "open"
  BY <1>2 DEF Quiet, CanOpen
<1>4. QED
  BY <1>2, <1>3 DEF Alive

LEMMA NextAbsentBlank == AbsentBlank /\ LinkInv /\ [Next]_vars => AbsentBlank'
<1> SUFFICES ASSUME AbsentBlank, LinkInv, [Next]_vars PROVE AbsentBlank'
  OBVIOUS
<1>1. exists \in [Side -> BOOLEAN] /\ relay \in [Side -> Relay]
  BY DEF LinkInv, TypeOK
<1>2. ASSUME NEW s \in Side, NEW r, relay' = [relay EXCEPT ![s] = r],
             \A t \in Side : ~exists'[t] => t # s /\ ~exists[t]
      PROVE  AbsentBlank'
  BY <1>1, <1>2 DEF AbsentBlank
<1>3. \A s \in Side : ~exists[s] =>
        /\ relay[s].todo = "none"
        /\ relay[s].iceState = "none"
        /\ relay[s].pc = NoPc
        /\ relay[s].connectionChecker = FALSE
        /\ relay[s].reinitTimer = FALSE
  BY DEF AbsentBlank, Blank
<1>4. ASSUME NEW s \in Side, CreateRelay(s) PROVE AbsentBlank'
  <2>1. \A t \in Side : ~exists'[t] => t # s /\ ~exists[t]
    BY <1>1, <1>4 DEF CreateRelay
  <2>2. \E r : relay' = [relay EXCEPT ![s] = r]
    BY <1>4 DEF CreateRelay
  <2>3. QED
    BY <1>2, <2>1, <2>2
<1>5. ASSUME NEW s \in Side, RemoveRelay(s) PROVE AbsentBlank'
  BY <1>1, <1>5 DEF RemoveRelay, AbsentBlank
<1>6. ASSUME NEW s \in Side, IceMsg(s) PROVE AbsentBlank'
  <2>1. CASE exists[s]
    <3>1. exists' = exists /\ \E r : relay' = [relay EXCEPT ![s] = r]
      BY <1>6, <2>1 DEF IceMsg
    <3>2. QED
      BY <1>2, <2>1, <3>1
  <2>2. CASE ~exists[s]
    <3>1. relay' = relay /\ exists' = exists
      BY <1>6, <2>2 DEF IceMsg
    <3>2. QED
      BY <3>1 DEF AbsentBlank
  <2>3. QED
    BY <2>1, <2>2
<1>7. ASSUME NEW s \in Side, Observer(s) PROVE AbsentBlank'
  <2>1. exists[s]
    BY <1>3, <1>7 DEF Observer, DescriptionCreated, RemoteDescriptionSet,
       LocalDescriptionSet, CandidateGathered, IceConnects, DataChannelOpens,
       CanConnect, CanOpen, Paired
  <2>2. exists' = exists /\ \E r : relay' = [relay EXCEPT ![s] = r]
    BY <1>7 DEF Observer, DescriptionCreated, RemoteDescriptionSet,
       LocalDescriptionSet, CandidateGathered, IceConnects, DataChannelOpens
  <2>3. QED
    BY <1>2, <2>1, <2>2
<1>8. ASSUME NEW s \in Side, Timeout(s) \/ ReinitTimerFires(s) PROVE AbsentBlank'
  <2>1. exists[s]
    BY <1>3, <1>8 DEF Timeout, IceLost, IceFails, ConnectivityLost,
       ReinitTimerFires
  <2>2. exists' = exists /\ \E r : relay' = [relay EXCEPT ![s] = r]
    BY <1>8 DEF Timeout, IceLost, IceFails, ConnectivityLost, ReinitTimerFires
  <2>3. QED
    BY <1>2, <2>1, <2>2
<1>9. CASE UNCHANGED vars
  BY <1>9 DEF vars, AbsentBlank
<1>10. QED
  BY <1>4, <1>5, <1>6, <1>7, <1>8, <1>9 DEF Next

LEMMA RelayTypes ==
  ASSUME LinkInv
  PROVE  /\ \A s \in Side : /\ relay[s].pc \in Pc \cup {NoPc}
                            /\ relay[s].todo \in Todo
                            /\ relay[s].remote # NoPc => relay[s].pc # NoPc
                            /\ inbox[s] \in Seq(Message)
                            /\ relay[s].reinitTimer \in BOOLEAN
         /\ ~Answerer.reinitTimer
         /\ relay \in [Side -> Relay] /\ inbox \in [Side -> Seq(Message)]
  BY DEF LinkInv, TypeOK, Relay, Good, IsOfferer, Answerer, Side

\* A step that sends and takes nothing and keeps the peer connections.
LEMMA SameExchange ==
  ASSUME LinkInv, LinkInv', Exchange, UNCHANGED inbox, TimerOK',
         \A s \in Side :
           /\ relay'[s].pc = relay[s].pc
           /\ relay'[s].remote = relay[s].remote
           /\ \/ relay'[s].todo = relay[s].todo
              \/ Preparing(s) /\ Preparing(s)'
           /\ relay[s].iceState \notin {"none", "closed"}
                => relay'[s].iceState \notin {"none", "closed"}
  PROVE  Exchange'
<1>1. \A s \in Side : UnderWay(s)' = UnderWay(s)
  BY DEF UnderWay, Preparing, Sent
<1>2. QueuesOK'
  BY <1>1 DEF Exchange, QueuesOK
<1>3. \A s \in Side : /\ Preparing(s)' <=> Preparing(s)
                      /\ relay'[s].todo = "none" <=> relay[s].todo = "none"
  BY DEF Preparing
<1>4. AnswersOK'
  BY <1>3, Sides DEF Exchange, AnswersOK, OfferPending, Answering, Offerer, Answerer
<1>5. CandidatesOK'
  BY <1>3, Sides DEF Exchange, CandidatesOK
<1>6. QED
  BY <1>2, <1>4, <1>5 DEF Exchange

\* The offerer starts with a new peer connection while nothing is under way.
LEMMA NewOffer ==
  ASSUME LinkInv, LinkInv', UNCHANGED inbox,
         \A s \in Side : inbox[s] = <<>>, Answerer.todo = "none",
         Answerer' = Answerer, Answerer.remote # Offerer'.pc,
         Offerer'.remote = NoPc, Offerer'.todo = "createOffer",
         ~Offerer'.reinitTimer
  PROVE  Exchange'
<1>1. Preparing("offerer")' /\ ~Preparing("answerer")'
  BY DEF Preparing, Offerer, Answerer
<1>2. \A s \in Side : <<>> \in UnderWay(s)'
  <2>1. \A s \in Side : relay'[s].todo \in Todo
    BY RelayTypes DEF LinkInv, TypeOK, Relay
  <2>2. QED
    BY <2>1 DEF UnderWay, Preparing, Todo
<1>3. QueuesOK'
  BY <1>2, Sides DEF QueuesOK
<1>4. AnswersOK'
  BY Sides DEF AnswersOK, Answering
<1>5. CandidatesOK'
  BY Sides DEF CandidatesOK, Offerer, Answerer
<1>6. TimerOK'
  BY DEF TimerOK
<1>7. QED
  BY <1>3, <1>4, <1>5, <1>6 DEF Exchange

\* What the head of a queue says about its sender.
LEMMA HeadOfQueue ==
  ASSUME LinkInv, Exchange, NEW s \in Side, inbox[Other(s)] # <<>>
  PROVE  /\ ~Preparing(s)
         /\ relay[s].pc \in Pc
         /\ Head(inbox[Other(s)]).pc = relay[s].pc
         /\ Head(inbox[Other(s)]).type \in {"description", "candidate"}
         /\ Tail(inbox[Other(s)]) \in UnderWay(s)
         /\ Tail(inbox[Other(s)]) # <<>> =>
              Head(Tail(inbox[Other(s)])).type = "candidate"
         /\ Head(inbox[Other(s)]).type = "candidate" =>
              relay[s].todo = "none" /\ Tail(inbox[Other(s)]) = <<>>
         /\ Head(inbox[Other(s)]).type = "description" /\ relay[s].todo = "none" =>
              Tail(inbox[Other(s)]) # <<>>
<1> DEFINE q == inbox[Other(s)]
           d == Sent(s, "description")
           c == Sent(s, "candidate")
<1>1. q \in UnderWay(s) /\ q # <<>> /\ relay[s].todo \in Todo
  BY RelayTypes DEF Exchange, QueuesOK
<1>2. d.type = "description" /\ d.pc = relay[s].pc
      /\ c.type = "candidate" /\ c.pc = relay[s].pc
  BY DEF Sent
<1>3. Head(q).pc \in Pc
  <2>1. q \in Seq(Message)
    BY Sides, RelayTypes
  <2>2. Head(q) \in Message
    BY <1>1, <2>1, HeadTailProperties
  <2>3. QED
    BY <2>2 DEF Message
<1> HIDE DEF q, d, c
<1>4. ~Preparing(s)
  BY <1>1, UnderWayCases
<1>5. CASE relay[s].todo = "gather"
  <2>1. UnderWay(s) = {<<>>, <<d>>}
    BY <1>1, <1>5, UnderWayCases DEF d
  <2>2. q = <<d>>
    BY <1>1, <2>1
  <2>3. Head(q) = d /\ Tail(q) = <<>>
    BY <2>2, QueueFacts
  <2>4. QED
    BY <1>2, <1>3, <1>4, <1>5, <2>1, <2>3 DEF q
<1>6. CASE relay[s].todo = "none"
  <2>1. UnderWay(s) = {<<>>, <<c>>, <<d, c>>}
    BY <1>1, <1>6, UnderWayCases DEF d, c
  <2>2. CASE q = <<c>>
    <3>1. Head(q) = c /\ Tail(q) = <<>>
      BY <2>2, QueueFacts
    <3>2. QED
      BY <1>2, <1>3, <1>4, <1>6, <2>1, <3>1 DEF q
  <2>3. CASE q = <<d, c>>
    <3>1. Head(q) = d /\ Tail(q) = <<c>> /\ <<c>> # <<>> /\ Head(<<c>>) = c
      BY <2>3, QueueFacts
    <3>2. QED
      BY <1>2, <1>3, <1>4, <1>6, <2>1, <3>1 DEF q
  <2>4. QED
    BY <1>1, <2>1, <2>2, <2>3
<1>7. QED
  BY <1>1, <1>4, <1>5, <1>6 DEF Preparing

\* The answerer takes the offer that is on its way.
LEMMA OfferArrives ==
  ASSUME LinkInv, LinkInv', Exchange, IceMsg("answerer"), exists["answerer"],
         Head(inbox["answerer"]).type = "description"
  PROVE  Exchange'
<1> DEFINE q == inbox["answerer"]
<1>1. /\ inbox["answerer"] # <<>> /\ PcAvailable
      /\ inbox' = [inbox EXCEPT !["answerer"] = Tail(@)]
      /\ relay' = [relay EXCEPT !["answerer"] =
                     AddIceMessage("answerer", Head(inbox["answerer"]))]
  BY DEF IceMsg
<1>2. /\ ~Preparing("offerer") /\ Offerer.pc \in Pc /\ Head(q).pc = Offerer.pc
      /\ Tail(q) \in UnderWay("offerer")
      /\ Tail(q) # <<>> => Head(Tail(q)).type = "candidate"
      /\ Offerer.todo = "none" => Tail(q) # <<>>
  BY <1>1, Sides, HeadOfQueue DEF Offerer
<1>3. OfferPending
  BY <1>1 DEF OfferPending
<1>4. inbox["offerer"] = <<>> /\ Offerer.remote = NoPc
  BY <1>3 DEF Exchange, AnswersOK, Answering
<1>5. ~Offerer.reinitTimer
  BY <1>1 DEF Exchange, TimerOK, Side
<1>6. /\ Answerer'.remote = Offerer.pc /\ Answerer'.todo = "setRemote"
      /\ Answerer' = AddOffer(Answerer, Offerer.pc, FreshPc)
  <2>1. Answerer' = AddOffer(Answerer, Head(q).pc, FreshPc)
    BY <1>1, RelayTypes, Sides DEF AddIceMessage, Answerer
  <2>2. Reinit(Answerer, FALSE, FreshPc) \in Relay
    BY <1>1, FreshPcType, ReinitType, RelayTypes, Sides DEF Answerer
  <2> DEFINE r == Reinit(Answerer, FALSE, FreshPc)
  <2>3. Answerer' = [r EXCEPT !.remote = Offerer.pc, !.todo = "setRemote"]
    BY <1>2, <2>1 DEF AddOffer
  <2> HIDE DEF r
  <2>4. Answerer'.remote = Offerer.pc /\ Answerer'.todo = "setRemote"
    BY <2>2, <2>3 DEF Relay, r
  <2>5. QED
    BY <1>2, <2>1, <2>4
<1>7. /\ Offerer' = Offerer /\ inbox'["offerer"] = <<>> /\ inbox'["answerer"] = Tail(q)
      /\ UnderWay("offerer")' = UnderWay("offerer")
  BY <1>1, <1>4, RelayTypes, Sides DEF Offerer, UnderWay, Preparing, Sent
<1>8. Preparing("answerer")' /\ ~Preparing("offerer")'
  BY <1>2, <1>6, <1>7 DEF Preparing, Offerer, Answerer
<1> HIDE DEF q
<1>9. QueuesOK'
  <2>1. <<>> \in UnderWay("answerer")'
    BY <1>8 DEF UnderWay
  <2>2. QED
    BY <1>2, <1>7, <2>1, Sides DEF QueuesOK
<1>10. AnswersOK'
  BY <1>2, <1>4, <1>6, <1>7, <1>8, PcAssumption DEF AnswersOK, OfferPending
<1>11. CandidatesOK'
  BY <1>2, <1>4, <1>6, <1>7, <1>8, Sides DEF CandidatesOK, Offerer, Answerer
<1>12. TimerOK'
  BY <1>5, <1>7 DEF TimerOK
<1>13. QED
  BY <1>9, <1>10, <1>11, <1>12 DEF Exchange

LEMMA SetIceStateFields ==
  ASSUME NEW r \in Relay, NEW isOfferer \in BOOLEAN, NEW state
  PROVE  LET q == SetIceState(r, isOfferer, state) IN
         /\ q.pc = r.pc /\ q.remote = r.remote /\ q.todo = r.todo
         /\ q.iceState = state /\ q.dataChannel = r.dataChannel
         /\ state \notin {"failed", "disconnected"} => q.reinitTimer = r.reinitTimer
<1> DEFINE q == SetIceState(r, isOfferer, state)
           conn == state = "connected"
           lost == isOfferer /\ state \in {"failed", "disconnected"}
<1>1. q = [r EXCEPT !.iceState = state,
                    !.isConnected = conn,
                    !.connectionChecker = @ /\ ~lost,
                    !.reinitTimer = @ \/ lost]
  BY DEF SetIceState
<1>2. state \notin {"failed", "disconnected"} => lost = FALSE
  OBVIOUS
<1> HIDE DEF q, conn, lost
<1>3. /\ q.pc = r.pc /\ q.remote = r.remote /\ q.todo = r.todo
      /\ q.iceState = state /\ q.dataChannel = r.dataChannel
      /\ q.reinitTimer = (r.reinitTimer \/ lost)
  BY <1>1 DEF Relay
<1>4. lost = FALSE => q.reinitTimer = r.reinitTimer
  BY <1>3 DEF Relay
<1>5. QED
  BY <1>2, <1>3, <1>4 DEF q

\* A candidate is used, or lost for want of a peer connection.
LEMMA CandidateArrives ==
  ASSUME LinkInv, LinkInv', Exchange, AbsentBlank, NEW s \in Side, IceMsg(s),
         Head(inbox[s]).type = "candidate"
  PROVE  Exchange'
<1> DEFINE t == Other(s)
<1>1. /\ inbox[s] # <<>> /\ PcAvailable
      /\ inbox' = [inbox EXCEPT ![s] = Tail(@)]
      /\ t \in Side /\ t # s /\ Other(t) = s /\ Side = {s, t}
      /\ relay' = IF exists[s]
                    THEN [relay EXCEPT ![s] = AddIceMessage(s, Head(inbox[s]))]
                    ELSE relay
  BY Sides DEF IceMsg
<1>2. ~Preparing(t) /\ relay[t].todo = "none" /\ Tail(inbox[s]) = <<>>
      /\ <<>> \in UnderWay(t)
  <2> HIDE DEF t
  <2>1. ~Preparing(t) /\ relay[t].todo = "none" /\ Tail(inbox[s]) = <<>>
        /\ Tail(inbox[s]) \in UnderWay(t)
    BY <1>1, HeadOfQueue
  <2>2. QED
    BY <2>1
<1>3. /\ relay'[t] = relay[t]
      /\ relay'[s].pc = relay[s].pc /\ relay'[s].remote = relay[s].remote
      /\ relay'[s].todo = relay[s].todo
      /\ relay'[s].reinitTimer = relay[s].reinitTimer
      /\ relay'[s].remote # NoPc => relay'[s].iceState \notin {"none", "closed"}
  <2>1. CASE exists[s]
    <3>1. relay' = [relay EXCEPT ![s] = AddIceMessage(s, Head(inbox[s]))]
      BY <1>1, <2>1
    <3>2. AddIceMessage(s, Head(inbox[s])) = AddCandidate(relay[s], IsOfferer(s))
      BY DEF AddIceMessage
    <3>3. relay'[s] = AddCandidate(relay[s], IsOfferer(s)) /\ relay'[t] = relay[t]
      BY <1>1, <3>1, <3>2, RelayTypes
    <3> DEFINE r == relay[s]
    <3>5. CASE r.remote # NoPc /\ r.iceState \in {"none", "closed", "disconnected"}
      <4>1. relay'[s] = SetIceState(r, IsOfferer(s), "checking")
        BY <3>3, <3>5 DEF AddCandidate
      <4>2. r \in Relay /\ IsOfferer(s) \in BOOLEAN
        BY RelayTypes DEF IsOfferer
      <4>3. QED
        BY <3>3, <4>1, <4>2, SetIceStateFields
    <3>6. CASE ~(r.remote # NoPc /\ r.iceState \in {"none", "closed", "disconnected"})
      BY <3>3, <3>6 DEF AddCandidate
    <3>7. QED
      BY <3>5, <3>6
  <2>2. CASE ~exists[s]
    <3>1. relay' = relay /\ relay[s].remote = NoPc
      BY <1>1, <2>2 DEF AbsentBlank, Blank
    <3>2. QED
      BY <3>1
  <2>3. QED
    BY <2>1, <2>2
<1>4. inbox'[s] = <<>> /\ inbox'[t] = inbox[t]
  BY <1>1, <1>2, RelayTypes
<1> HIDE DEF t
<1>5. QueuesOK'
  <2>1. UnderWay(s)' = UnderWay(s) /\ UnderWay(t)' = UnderWay(t)
    BY <1>3 DEF UnderWay, Preparing, Sent
  <2>2. QED
    BY <1>1, <1>2, <1>4, <2>1 DEF Exchange, QueuesOK, t
<1>6. AnswersOK'
  <2>1. Offerer'.pc = Offerer.pc /\ Answerer'.pc = Answerer.pc
        /\ Offerer'.remote = Offerer.remote /\ Answerer'.remote = Answerer.remote
        /\ Offerer'.todo = Offerer.todo /\ Answerer'.todo = Answerer.todo
    BY <1>1, <1>3, Sides DEF Offerer, Answerer
  <2>2. OfferPending' => OfferPending
    BY <1>1, <1>3, <1>4, <2>1, Sides DEF OfferPending, Preparing, Offerer
  <2>3. Answering' => Answering
    BY <1>1, <1>4, <2>1, Sides DEF Answering
  <2>4. QED
    BY <2>1, <2>2, <2>3 DEF Exchange, AnswersOK
<1>7. CandidatesOK'
  <2>1. \A u \in Side : u = s \/ u = t
    BY <1>1
  <2>2. QED
    BY <1>1, <1>3, <1>4, <2>1 DEF Exchange, CandidatesOK, t
<1>8. TimerOK'
  <2>1. ~Offerer.reinitTimer
    BY <1>1 DEF Exchange, TimerOK
  <2>2. ~Offerer'.reinitTimer
    BY <1>1, <1>3, <2>1, Sides DEF Offerer
  <2>3. QED
    BY <2>2 DEF TimerOK
<1>9. QED
  BY <1>5, <1>6, <1>7, <1>8 DEF Exchange

\* The offerer is there to receive what the answerer sends it.
LEMMA OffererThere ==
  ASSUME LinkInv, Exchange, AbsentBlank, inbox["offerer"] # <<>>
  PROVE  exists["offerer"] /\ Offerer.pc # NoPc /\ Answerer.remote = Offerer.pc
<1>1. Offerer.pc # NoPc /\ Answerer.remote = Offerer.pc
  BY DEF Exchange, AnswersOK, Answering
<1>2. ~exists["offerer"] => Offerer.pc = NoPc
  BY Sides DEF AbsentBlank, Blank, Offerer
<1>3. QED
  BY <1>1, <1>2

\* The offerer takes the answer, if it waits for one.
LEMMA AnswerArrives ==
  ASSUME LinkInv, LinkInv', Exchange, AbsentBlank, IceMsg("offerer"),
         Head(inbox["offerer"]).type = "description"
  PROVE  Exchange'
<1> DEFINE q == inbox["offerer"]
<1>1. /\ q # <<>> /\ exists["offerer"]
      /\ inbox' = [inbox EXCEPT !["offerer"] = Tail(@)]
      /\ relay' = [relay EXCEPT !["offerer"] =
                     AddIceMessage("offerer", Head(inbox["offerer"]))]
      /\ Offerer.pc # NoPc /\ Answerer.remote = Offerer.pc
  BY OffererThere DEF IceMsg
<1>2. /\ ~Preparing("answerer") /\ Answerer.pc \in Pc /\ Head(q).pc = Answerer.pc
      /\ Tail(q) \in UnderWay("answerer")
      /\ Answerer.todo = "none" => Tail(q) # <<>>
  BY <1>1, Sides, HeadOfQueue DEF Answerer
<1>3. ~OfferPending
  BY <1>1 DEF Exchange, AnswersOK
<1>4. ~Offerer.reinitTimer
  BY <1>1 DEF Exchange, TimerOK, Side
<1>5. Offerer' = AddAnswer(Offerer, Answerer.pc)
  <2>1. Offerer' = AddAnswer(Offerer, Head(q).pc)
    BY <1>1, RelayTypes, Sides DEF AddIceMessage, Offerer
  <2>2. QED
    BY <1>2, <2>1
<1>6. /\ Offerer'.pc = Offerer.pc /\ Offerer'.todo = Offerer.todo
      /\ Offerer'.reinitTimer = Offerer.reinitTimer
      /\ Offerer'.iceState = Offerer.iceState
      /\ Offerer'.remote \in {Offerer.remote, Answerer.pc}
  BY <1>5, RelayTypes, Sides DEF AddAnswer, Relay, Offerer
<1>7. /\ Answerer' = Answerer /\ inbox'["answerer"] = inbox["answerer"]
      /\ inbox'["offerer"] = Tail(q)
  BY <1>1, RelayTypes, Sides DEF Answerer
<1>8. /\ UnderWay("answerer")' = UnderWay("answerer")
      /\ UnderWay("offerer")' = UnderWay("offerer")
      /\ Preparing("offerer")' <=> Preparing("offerer")
  BY <1>6, <1>7 DEF UnderWay, Preparing, Sent, Offerer, Answerer
<1> HIDE DEF q
<1>9. QueuesOK'
  BY <1>2, <1>7, <1>8, Sides DEF Exchange, QueuesOK
<1>10. AnswersOK'
  <2>1. ~OfferPending'
    BY <1>3, <1>7, <1>8 DEF OfferPending
  <2>2. Offerer'.remote # NoPc => Offerer'.remote = Answerer.pc
    BY <1>6 DEF Exchange, AnswersOK
  <2>3. QED
    BY <1>1, <1>6, <1>7, <2>1, <2>2 DEF AnswersOK
<1>11. CandidatesOK'
  <2>1. \A s \in Side : s = "offerer" \/ s = "answerer"
    BY Sides
  <2>2. QED
    BY <1>2, <1>6, <1>7, <2>1, Sides DEF Exchange, CandidatesOK, Offerer, Answerer
<1>12. TimerOK'
  BY <1>4, <1>6 DEF TimerOK
<1>13. QED
  BY <1>9, <1>10, <1>11, <1>12 DEF Exchange

\* An offer for a player that the other adapter does not know is dropped.
LEMMA OfferDropped ==
  ASSUME LinkInv, LinkInv', Exchange, AbsentBlank, IceMsg("answerer"),
         ~exists["answerer"], Head(inbox["answerer"]).type = "description"
  PROVE  Exchange'
<1> DEFINE q == inbox["answerer"]
<1>1. /\ q # <<>> /\ relay' = relay
      /\ inbox' = [inbox EXCEPT !["answerer"] = Tail(@)]
      /\ Answerer.remote = NoPc
  BY Sides DEF IceMsg, AbsentBlank, Blank, Answerer
<1>2. /\ ~Preparing("offerer") /\ Tail(q) \in UnderWay("offerer")
      /\ Tail(q) # <<>> => Head(Tail(q)).type = "candidate"
  BY <1>1, Sides, HeadOfQueue
<1>3. ~Offerer.reinitTimer
  BY <1>1 DEF Exchange, TimerOK, Side
<1>4. /\ Offerer' = Offerer /\ Answerer' = Answerer
      /\ inbox'["offerer"] = inbox["offerer"] /\ inbox'["answerer"] = Tail(q)
      /\ UnderWay("answerer")' = UnderWay("answerer")
      /\ UnderWay("offerer")' = UnderWay("offerer")
      /\ Preparing("offerer")' <=> Preparing("offerer")
  BY <1>1, RelayTypes, Sides DEF Offerer, Answerer, UnderWay, Preparing, Sent
<1> HIDE DEF q
<1>5. QueuesOK'
  BY <1>2, <1>4, Sides DEF Exchange, QueuesOK
<1>6. AnswersOK'
  <2>1. ~OfferPending'
    BY <1>2, <1>4 DEF OfferPending
  <2>2. Answering' => Answering
    BY <1>4 DEF Answering
  <2>3. QED
    BY <1>4, <2>1, <2>2 DEF Exchange, AnswersOK
<1>7. CandidatesOK'
  <2>1. \A s \in Side : s = "offerer" \/ s = "answerer"
    BY Sides
  <2>2. QED
    BY <1>1, <1>4, <2>1, Sides DEF Exchange, CandidatesOK, Answerer
<1>8. TimerOK'
  BY <1>3, <1>4 DEF TimerOK
<1>9. QED
  BY <1>5, <1>6, <1>7, <1>8 DEF Exchange

\* A side that sends goes on to its next step, and keeps the rest.
LEMMA SendStep ==
  ASSUME LinkInv, NEW s \in Side, NEW todo, NEW type, Send(s, type),
         relay' = [relay EXCEPT ![s] = [@ EXCEPT !.todo = todo]]
  PROVE  /\ inbox'[Other(s)] = Append(inbox[Other(s)], Sent(s, type))
         /\ inbox'[s] = inbox[s]
         /\ relay'[Other(s)] = relay[Other(s)]
         /\ relay'[s].todo = todo
         /\ relay'[s].pc = relay[s].pc /\ relay'[s].remote = relay[s].remote
         /\ relay'[s].iceState = relay[s].iceState
         /\ relay'[s].reinitTimer = relay[s].reinitTimer
         /\ UnderWay(Other(s))' = UnderWay(Other(s))
         /\ \A m \in {"description", "candidate"} : Sent(s, m)' = Sent(s, m)
<1>1. Other(s) \in Side /\ Other(s) # s
  BY Sides
<1>2. inbox'[Other(s)] = Append(inbox[Other(s)], Sent(s, type))
      /\ inbox'[s] = inbox[s]
  BY <1>1, RelayTypes DEF Send, Sent
<1>3. relay'[Other(s)] = relay[Other(s)]
  BY <1>1, RelayTypes
<1>4. relay'[s] = [relay[s] EXCEPT !.todo = todo] /\ relay[s] \in Relay
  BY RelayTypes
<1>5. /\ relay'[s].todo = todo
      /\ relay'[s].pc = relay[s].pc /\ relay'[s].remote = relay[s].remote
      /\ relay'[s].iceState = relay[s].iceState
      /\ relay'[s].reinitTimer = relay[s].reinitTimer
  BY <1>4 DEF Relay
<1>6. UnderWay(Other(s))' = UnderWay(Other(s))
  BY <1>3 DEF UnderWay, Preparing, Sent
<1>7. \A m \in {"description", "candidate"} : Sent(s, m)' = Sent(s, m)
  BY <1>5 DEF Sent
<1>8. QED
  BY <1>2, <1>3, <1>5, <1>6, <1>7

\* What a side sends belongs to its present peer connection.
LEMMA SendKeeps ==
  ASSUME LinkInv, Exchange, NEW s \in Side, NEW todo \in {"gather", "none"},
         NEW type, Send(s, type),
         relay' = [relay EXCEPT ![s] = [@ EXCEPT !.todo = todo]],
         relay[s].todo # "none",
         inbox'[Other(s)] \in UnderWay(s)', inbox'[Other(s)] # <<>>,
         \/ Preparing(s)
         \/ Head(inbox'[Other(s)]).type # "description"
         \/ /\ inbox[Other(s)] # <<>>
            /\ Head(inbox[Other(s)]).type = "description"
  PROVE  Exchange'
<1> DEFINE t == Other(s)
<1>1. t \in Side /\ t # s /\ Other(t) = s /\ \A u \in Side : u = s \/ u = t
  BY Sides
<1>2. /\ inbox'[s] = inbox[s] /\ relay'[t] = relay[t] /\ relay'[s].todo = todo
      /\ relay'[s].pc = relay[s].pc /\ relay'[s].remote = relay[s].remote
      /\ relay'[s].iceState = relay[s].iceState
      /\ relay'[s].reinitTimer = relay[s].reinitTimer
      /\ UnderWay(t)' = UnderWay(t)
  BY SendStep
<1> HIDE DEF t
<1>3. QueuesOK'
  BY <1>1, <1>2 DEF Exchange, QueuesOK, t
<1>4. AnswersOK'
  <2>1. /\ Offerer'.pc = Offerer.pc /\ Offerer'.remote = Offerer.remote
        /\ Answerer'.pc = Answerer.pc /\ Answerer'.remote = Answerer.remote
    BY <1>1, <1>2, Sides DEF Offerer, Answerer
  <2>2. OfferPending' => OfferPending
    <3>1. CASE s = "offerer"
      <4>1. ~Preparing(s)'
        BY <1>2 DEF Preparing
      <4>2. QED
        BY <3>1, <4>1, Sides DEF OfferPending
    <3>2. CASE s = "answerer"
      <4>1. inbox'["answerer"] = inbox["answerer"] /\ relay'["offerer"] = relay["offerer"]
        BY <1>2, <3>2, Sides DEF t
      <4>2. QED
        BY <4>1 DEF OfferPending, Preparing
    <3>3. QED
      BY <3>1, <3>2, Sides
  <2>3. Answering' => Answering
    <3>1. CASE s = "offerer"
      <4>1. inbox'["offerer"] = inbox["offerer"] /\ Answerer' = Answerer
        BY <1>2, <3>1, Sides DEF t, Answerer
      <4>2. QED
        BY <4>1 DEF Answering
    <3>2. CASE s = "answerer"
      BY <3>2 DEF Answering, Answerer
    <3>3. QED
      BY <3>1, <3>2, Sides
  <2>4. QED
    BY <2>1, <2>2, <2>3 DEF Exchange, AnswersOK
<1>5. CandidatesOK'
  <2>1. inbox'[t] # <<>>
    BY DEF t
  <2>2. QED
    BY <1>1, <1>2, <2>1 DEF Exchange, CandidatesOK, t
<1>6. TimerOK'
  <2>1. ~Offerer.reinitTimer
    BY DEF Exchange, TimerOK
  <2>2. Offerer'.reinitTimer = Offerer.reinitTimer
    BY <1>1, <1>2, Sides DEF Offerer
  <2>3. QED
    BY <2>1, <2>2 DEF TimerOK
<1>7. QED
  BY <1>3, <1>4, <1>5, <1>6 DEF Exchange

LEMMA DescriptionSent ==
  ASSUME LinkInv, LinkInv', Exchange, NEW s \in Side, LocalDescriptionSet(s)
  PROVE  Exchange'
<1> DEFINE d == Sent(s, "description")
<1>1. /\ relay[s].todo = "setLocal" /\ Send(s, "description")
      /\ relay' = [relay EXCEPT ![s] = [@ EXCEPT !.todo = "gather"]]
  BY DEF LocalDescriptionSet, OnLocalDescriptionSet
<1>2. Preparing(s) /\ inbox[Other(s)] = <<>>
  <2>1. Preparing(s) /\ relay[s].todo \in Todo
    BY <1>1, RelayTypes DEF Preparing
  <2>2. UnderWay(s) = {<<>>}
    BY <2>1, UnderWayCases
  <2>3. inbox[Other(s)] \in UnderWay(s)
    BY DEF Exchange, QueuesOK
  <2>4. QED
    BY <2>1, <2>2, <2>3
<1>3. /\ inbox'[Other(s)] = Append(inbox[Other(s)], d) /\ d' = d
      /\ relay'[s].todo = "gather"
  BY <1>1, SendStep, ZenonT(60)
<1>4. inbox'[Other(s)] = <<d>> /\ <<d>> # <<>>
  BY <1>2, <1>3, QueueFacts
<1>5. <<d'>> \in UnderWay(s)'
  BY <1>3 DEF UnderWay, Preparing
<1> HIDE DEF d
<1>6. inbox'[Other(s)] \in UnderWay(s)' /\ inbox'[Other(s)] # <<>>
  BY <1>3, <1>4, <1>5
<1>7. Preparing(s) /\ relay[s].todo # "none"
  BY <1>1, <1>2
<1>8. QED
  BY <1>1, <1>6, <1>7, SendKeeps

LEMMA CandidateSent ==
  ASSUME LinkInv, LinkInv', Exchange, NEW s \in Side, CandidateGathered(s)
  PROVE  Exchange'
<1> DEFINE d == Sent(s, "description")
           c == Sent(s, "candidate")
           q == inbox[Other(s)]
<1>1. /\ relay[s].todo = "gather" /\ Send(s, "candidate")
      /\ relay' = [relay EXCEPT ![s] = [@ EXCEPT !.todo = "none"]]
  BY DEF CandidateGathered, OnIceCandidate
<1>2. q = <<>> \/ q = <<d>>
  BY <1>1, RelayTypes, UnderWayCases DEF Exchange, QueuesOK
<1>3. /\ inbox'[Other(s)] = Append(q, c) /\ d' = d /\ c' = c
      /\ relay'[s].todo = "none"
  BY <1>1, SendStep, ZenonT(60)
<1>4. <<c'>> \in UnderWay(s)' /\ <<d', c'>> \in UnderWay(s)'
  BY <1>3 DEF UnderWay, Preparing
<1>5. d.type = "description" /\ c.type = "candidate"
  BY DEF Sent
<1> HIDE DEF d, c, q
<1>6. CASE q = <<>>
  <2>1. inbox'[Other(s)] = <<c>> /\ <<c>> # <<>> /\ Head(<<c>>) = c
    BY <1>3, <1>6, QueueFacts
  <2>2. Head(inbox'[Other(s)]).type # "description"
    BY <1>5, <2>1
  <2>3. inbox'[Other(s)] \in UnderWay(s)' /\ inbox'[Other(s)] # <<>>
    BY <1>3, <1>4, <2>1
  <2>4. QED
    BY <1>1, <2>2, <2>3, SendKeeps
<1>7. CASE q = <<d>>
  <2>1. inbox'[Other(s)] = <<d, c>> /\ <<d, c>> # <<>>
        /\ <<d>> # <<>> /\ Head(<<d>>) = d
    BY <1>3, <1>7, QueueFacts
  <2>2. inbox[Other(s)] # <<>> /\ Head(inbox[Other(s)]).type = "description"
    BY <1>5, <1>7, <2>1 DEF q
  <2>3. inbox'[Other(s)] \in UnderWay(s)' /\ inbox'[Other(s)] # <<>>
    BY <1>3, <1>4, <2>1
  <2>4. QED
    BY <1>1, <2>2, <2>3, SendKeeps
<1>8. QED
  BY <1>2, <1>6, <1>7

LEMMA NewConnectionFields ==
  ASSUME NEW r \in Relay, NEW id \in Pc
  PROVE  /\ Reinit(r, TRUE, id).pc = id
         /\ Reinit(r, TRUE, id).remote = NoPc
         /\ Reinit(r, TRUE, id).todo = "createOffer"
         /\ OnReinitTimer(r, TRUE, id).pc = id
         /\ OnReinitTimer(r, TRUE, id).remote = NoPc
         /\ OnReinitTimer(r, TRUE, id).todo = "createOffer"
         /\ OnReinitTimer(r, TRUE, id).reinitTimer = FALSE
<1> DEFINE q == Reinit(r, TRUE, id)
<1>1. Close(r) \in Relay /\ Close(r).remote = NoPc
  BY CloseType DEF Close, Relay
<1>2. q = [Close(r) EXCEPT !.pc = id, !.todo = "createOffer",
                           !.dataChannel = "connecting",
                           !.connectionChecker = TRUE]
  BY DEF Reinit
<1>3. q \in Relay /\ q.pc = id /\ q.remote = NoPc /\ q.todo = "createOffer"
  BY <1>1, <1>2 DEF Relay, Todo
<1>4. OnReinitTimer(r, TRUE, id) = [q EXCEPT !.reinitTimer = FALSE]
  BY DEF OnReinitTimer
<1> HIDE DEF q
<1>5. QED
  BY <1>3, <1>4 DEF q, Relay

\* A new peer connection is none that the answerer ever saw.
LEMMA FreshForAnswerer == PcAvailable => Answerer.remote # FreshPc /\ FreshPc \in Pc
<1> SUFFICES ASSUME PcAvailable PROVE Answerer.remote # FreshPc /\ FreshPc \in Pc
  OBVIOUS
<1>1. FreshPc \in Pc /\ FreshPc \notin InUse
  BY DEF PcAvailable, FreshPc
<1>2. Answerer.remote \in InUse
  BY Sides DEF InUse, Answerer
<1>3. QED
  BY <1>1, <1>2

\* connectToPeer at the offerer.
LEMMA OffererCreated ==
  ASSUME LinkInv, LinkInv', Exchange, AbsentBlank, CreateRelay("offerer")
  PROVE  Exchange'
<1>1. /\ Offerer = Blank /\ UNCHANGED inbox /\ PcAvailable
      /\ relay' = [relay EXCEPT !["offerer"] = Construct(TRUE, FreshPc)]
  BY Sides DEF CreateRelay, AbsentBlank, Offerer, IsOfferer
<1>2. Offerer.pc = NoPc
  BY <1>1 DEF Blank
<1>3. inbox["answerer"] = <<>>
  BY <1>2, HeadOfQueue, Sides, PcAssumption DEF Offerer
<1>4. ~Answering
  BY <1>2 DEF Exchange, AnswersOK
<1>5. \A s \in Side : inbox[s] = <<>>
  BY <1>3, <1>4, Sides DEF Answering
<1>6. Offerer' = Reinit(Blank, TRUE, FreshPc) /\ Answerer' = Answerer
  BY <1>1, RelayTypes, Sides DEF Construct, Offerer, Answerer
<1>7. Blank \in Relay /\ Blank.reinitTimer = FALSE
  BY DEF Blank, Relay, Todo, IceStates
<1>8. FreshPc \in Pc /\ Answerer.remote # FreshPc
  BY <1>1, FreshForAnswerer
<1>9. /\ Offerer'.pc = FreshPc /\ Offerer'.remote = NoPc
      /\ Offerer'.todo = "createOffer" /\ ~Offerer'.reinitTimer
  <2> DEFINE q == Reinit(Blank, TRUE, FreshPc)
  <2>1. q.pc = FreshPc /\ q.remote = NoPc /\ q.todo = "createOffer"
    BY <1>7, <1>8, NewConnectionFields
  <2>2. q.reinitTimer = Blank.reinitTimer
    BY <1>7, <1>8, ReinitType
  <2> HIDE DEF q
  <2>3. QED
    BY <1>6, <1>7, <2>1, <2>2 DEF q
<1>10. QED
  BY <1>1, <1>4, <1>5, <1>6, <1>8, <1>9, NewOffer DEF Answering

\* The offerer reinitialises after 100 ms.
LEMMA OffererReinitialises ==
  ASSUME LinkInv, LinkInv', Exchange, ReinitTimerFires("offerer")
  PROVE  Exchange'
<1>1. /\ Offerer.reinitTimer /\ UNCHANGED inbox /\ PcAvailable
      /\ relay' = [relay EXCEPT !["offerer"] = OnReinitTimer(Offerer, TRUE, FreshPc)]
  BY DEF ReinitTimerFires, Offerer, IsOfferer
<1>2. /\ \A s \in Side : inbox[s] = <<>>
      /\ Answerer.todo = "none"
  BY <1>1, Sides DEF Exchange, TimerOK, Answerer
<1>3. Offerer' = OnReinitTimer(Offerer, TRUE, FreshPc) /\ Answerer' = Answerer
      /\ Offerer \in Relay
  BY <1>1, RelayTypes, Sides DEF Offerer, Answerer
<1>4. FreshPc \in Pc /\ Answerer.remote # FreshPc
  BY <1>1, FreshForAnswerer
<1>5. /\ Offerer'.pc = FreshPc /\ Offerer'.remote = NoPc
      /\ Offerer'.todo = "createOffer" /\ ~Offerer'.reinitTimer
  BY <1>3, <1>4, NewConnectionFields
<1>6. QED
  BY <1>1, <1>2, <1>3, <1>4, <1>5, NewOffer

\* joinGame or connectToPeer at the answerer: it waits for an offer.
LEMMA AnswererCreated ==
  ASSUME LinkInv, LinkInv', Exchange, AbsentBlank, CreateRelay("answerer")
  PROVE  Exchange'
<1>1. /\ relay["answerer"] = Blank /\ UNCHANGED inbox
      /\ relay' = [relay EXCEPT !["answerer"] = Blank]
  BY Sides DEF CreateRelay, AbsentBlank, Construct, IsOfferer
<1>2. relay' = relay
  BY <1>1, RelayTypes, Sides
<1>3. TimerOK'
  <2>1. (Paired' <=> Paired) /\ Offerer' = Offerer
    BY <1>2 DEF Paired, Offerer
  <2>2. QED
    BY <1>1, <1>2, <2>1 DEF Exchange, TimerOK
<1>4. \A s \in Side :
        /\ relay'[s].pc = relay[s].pc
        /\ relay'[s].remote = relay[s].remote
        /\ \/ relay'[s].todo = relay[s].todo
           \/ Preparing(s) /\ Preparing(s)'
        /\ relay[s].iceState \notin {"none", "closed"}
             => relay'[s].iceState \notin {"none", "closed"}
  BY <1>2
<1>5. QED
  BY <1>1, <1>3, <1>4, SameExchange

\* An observer that sends nothing, and a timeout, keep the exchange.
LEMMA QuietStep ==
  ASSUME LinkInv, LinkInv', Exchange, NEW s \in Side, NEW q, UNCHANGED inbox,
         relay' = [relay EXCEPT ![s] = q],
         q.pc = relay[s].pc, q.remote = relay[s].remote,
         \/ q.todo = relay[s].todo
         \/ Preparing(s) /\ q.todo \notin {"none", "gather"},
         relay[s].iceState \notin {"none", "closed"}
           => q.iceState \notin {"none", "closed"},
         relay[s].iceState = "failed" => q.iceState = "failed",
         \/ q.reinitTimer = relay[s].reinitTimer
         \/ Quiet /\ ~Paired
  PROVE  Exchange'
<1>1. \A t \in Side : relay'[t] = IF t = s THEN q ELSE relay[t]
  BY RelayTypes
<1>2. /\ \A t \in Side :
           /\ relay'[t].pc = relay[t].pc
           /\ relay'[t].remote = relay[t].remote
           /\ relay[t].iceState = "failed" => relay'[t].iceState = "failed"
           /\ relay[t].iceState \notin {"none", "closed"}
                => relay'[t].iceState \notin {"none", "closed"}
      /\ \A t \in Side \ {s} : relay'[t] = relay[t]
      /\ relay'[s] = q
  BY <1>1
<1>3. \A t \in Side : \/ relay'[t].todo = relay[t].todo
                      \/ Preparing(t) /\ Preparing(t)'
  BY <1>1 DEF Preparing
<1>4. Paired' => Paired
  BY <1>2, Sides DEF Paired
<1>5. TimerOK'
  <2>1. CASE Quiet /\ ~Paired
    <3>1. \A t \in Side : inbox[t] = <<>> /\ relay[t].todo = "none"
      BY <2>1 DEF Quiet
    <3>2. \A t \in Side : relay'[t].todo = "none"
      BY <1>3, <3>1 DEF Preparing
    <3>3. QED
      BY <1>4, <2>1, <3>1, <3>2 DEF TimerOK
  <2>2. CASE q.reinitTimer = relay[s].reinitTimer
    <3>1. Offerer'.reinitTimer = Offerer.reinitTimer
      BY <1>2, <2>2, Sides DEF Offerer
    <3>2. Offerer.reinitTimer => \A t \in Side : relay'[t].todo = "none"
      BY <1>3 DEF Exchange, TimerOK, Preparing
    <3>3. QED
      BY <1>4, <3>1, <3>2 DEF Exchange, TimerOK
  <2>3. QED
    BY <2>1, <2>2
<1>6. \A t \in Side :
        /\ relay'[t].pc = relay[t].pc
        /\ relay'[t].remote = relay[t].remote
        /\ \/ relay'[t].todo = relay[t].todo
           \/ Preparing(t) /\ Preparing(t)'
        /\ relay[t].iceState \notin {"none", "closed"}
             => relay'[t].iceState \notin {"none", "closed"}
  BY <1>2, <1>3
<1>7. QED
  BY <1>5, <1>6, SameExchange

LEMMA ObserverExchange ==
  ASSUME LinkInv, LinkInv', Exchange, NEW s \in Side, Observer(s)
  PROVE  Exchange'
<1>1. relay[s] \in Relay /\ IsOfferer(s) \in BOOLEAN
  BY RelayTypes DEF IsOfferer
<1>2. CASE DescriptionCreated(s)
  <2> DEFINE q == OnDescriptionCreated(relay[s], IsOfferer(s))
  <2>1. /\ relay' = [relay EXCEPT ![s] = q] /\ UNCHANGED inbox /\ Preparing(s)
    BY <1>2 DEF DescriptionCreated, Preparing
  <2>2. /\ q.pc = relay[s].pc /\ q.remote = relay[s].remote
        /\ q.todo = "setLocal" /\ q.iceState = relay[s].iceState
        /\ q.reinitTimer = relay[s].reinitTimer
    BY <1>1 DEF OnDescriptionCreated, Relay
  <2> HIDE DEF q
  <2>3. QED
    BY <2>1, <2>2, QuietStep
<1>3. CASE RemoteDescriptionSet(s)
  <2> DEFINE q == OnRemoteDescriptionSet(relay[s])
  <2>1. /\ relay' = [relay EXCEPT ![s] = q] /\ UNCHANGED inbox /\ Preparing(s)
    BY <1>3 DEF RemoteDescriptionSet, Preparing
  <2>2. /\ q.pc = relay[s].pc /\ q.remote = relay[s].remote
        /\ q.todo = "createAnswer" /\ q.iceState = relay[s].iceState
        /\ q.reinitTimer = relay[s].reinitTimer
    BY <1>1 DEF OnRemoteDescriptionSet, Relay
  <2> HIDE DEF q
  <2>3. QED
    BY <2>1, <2>2, QuietStep
<1>4. CASE IceConnects(s)
  <2> DEFINE q == SetIceState(relay[s], IsOfferer(s), "connected")
  <2>1. /\ relay' = [relay EXCEPT ![s] = q] /\ UNCHANGED inbox
        /\ relay[s].iceState # "failed"
    BY <1>4 DEF IceConnects, CanConnect
  <2>2. /\ q.pc = relay[s].pc /\ q.remote = relay[s].remote
        /\ q.todo = relay[s].todo /\ q.iceState = "connected"
        /\ q.reinitTimer = relay[s].reinitTimer
    BY <1>1, SetIceStateFields
  <2> HIDE DEF q
  <2>3. QED
    BY <2>1, <2>2, QuietStep
<1>5. CASE DataChannelOpens(s)
  <2> DEFINE q == OnDataChannel(relay[s])
  <2>1. /\ relay' = [relay EXCEPT ![s] = q] /\ UNCHANGED inbox
    BY <1>5 DEF DataChannelOpens
  <2>2. /\ q.pc = relay[s].pc /\ q.remote = relay[s].remote
        /\ q.todo = relay[s].todo /\ q.iceState = relay[s].iceState
        /\ q.reinitTimer = relay[s].reinitTimer
    BY <1>1 DEF OnDataChannel, Relay
  <2> HIDE DEF q
  <2>3. QED
    BY <2>1, <2>2, QuietStep
<1>6. QED
  BY <1>2, <1>3, <1>4, <1>5, DescriptionSent, CandidateSent DEF Observer

\* A timeout is due only if the link does not work and nothing is under way.
LEMMA TimeoutExchange ==
  ASSUME LinkInv, LinkInv', Exchange, NEW s \in Side, Timeout(s), Quiet, ~Alive
  PROVE  Exchange'
<1>1. relay[s] \in Relay /\ IsOfferer(s) \in BOOLEAN
  BY RelayTypes DEF IsOfferer
<1>2. ~Paired
  BY QuietPaired DEF Exchange
<1>3. ASSUME NEW state \in {"disconnected", "failed"}, UNCHANGED inbox,
             relay' = [relay EXCEPT ![s] = SetIceState(@, IsOfferer(s), state)],
             relay[s].iceState # "failed"
      PROVE  Exchange'
  <2> DEFINE q == SetIceState(relay[s], IsOfferer(s), state)
  <2>1. relay' = [relay EXCEPT ![s] = q]
    BY <1>3
  <2>2. /\ q.pc = relay[s].pc /\ q.remote = relay[s].remote
        /\ q.todo = relay[s].todo /\ q.iceState = state
    BY <1>1, SetIceStateFields
  <2> HIDE DEF q
  <2>3. QED
    BY <1>2, <1>3, <2>1, <2>2, QuietStep
<1>4. CASE IceLost(s)
  BY <1>3, <1>4 DEF IceLost
<1>5. CASE IceFails(s)
  BY <1>3, <1>5 DEF IceFails
<1>6. CASE ConnectivityLost(s)
  <2> DEFINE q == OnConnectivityLost(relay[s])
  <2>1. relay' = [relay EXCEPT ![s] = q] /\ UNCHANGED inbox
    BY <1>6 DEF ConnectivityLost
  <2>2. /\ q.pc = relay[s].pc /\ q.remote = relay[s].remote
        /\ q.todo = relay[s].todo /\ q.iceState = relay[s].iceState
    BY <1>1 DEF OnConnectivityLost, Relay
  <2> HIDE DEF q
  <2>3. QED
    BY <1>2, <2>1, <2>2, QuietStep
<1>7. QED
  BY <1>4, <1>5, <1>6 DEF Timeout

LEMMA IceMsgExchange ==
  ASSUME LinkInv, LinkInv', Exchange, AbsentBlank, NEW s \in Side, IceMsg(s)
  PROVE  Exchange'
<1>1. inbox[s] # <<>> /\ Other(s) \in Side /\ Other(Other(s)) = s
  BY Sides DEF IceMsg
<1>2. Head(inbox[s]).type \in {"description", "candidate"}
  BY <1>1, HeadOfQueue
<1>3. CASE Head(inbox[s]).type = "candidate"
  BY <1>3, CandidateArrives
<1>4. CASE s = "offerer" /\ Head(inbox[s]).type = "description"
  BY <1>4, AnswerArrives
<1>5. CASE s = "answerer" /\ Head(inbox[s]).type = "description"
  BY <1>5, OfferArrives, OfferDropped
<1>6. QED
  BY <1>2, <1>3, <1>4, <1>5, Sides

LEMMA NextTimely == LinkInv /\ LinkInv' /\ TimelyInv /\ [Next]_vars => TimelyInv'
<1> SUFFICES ASSUME LinkInv, LinkInv', TimelyInv, [Next]_vars PROVE TimelyInv'
  OBVIOUS
<1>1. AbsentBlank /\ AbsentBlank'
  BY NextAbsentBlank DEF TimelyInv
<1>2. SUFFICES ASSUME Timely' PROVE Exchange'
  BY <1>1 DEF TimelyInv
<1>3. /\ Exchange
      /\ TimesOut => Quiet /\ ~Alive
      /\ \A s \in Side : ~RemoveRelay(s)
  BY <1>2, TimelyStep DEF TimelyInv
<1>4. ASSUME NEW s \in Side, CreateRelay(s) PROVE Exchange'
  <2>1. CASE s = "offerer"
    BY <1>1, <1>3, <1>4, <2>1, OffererCreated
  <2>2. CASE s = "answerer"
    BY <1>1, <1>3, <1>4, <2>2, AnswererCreated
  <2>3. QED
    BY <2>1, <2>2, Sides
<1>5. ASSUME NEW s \in Side, IceMsg(s) PROVE Exchange'
  BY <1>1, <1>3, <1>5, IceMsgExchange
<1>6. ASSUME NEW s \in Side, Observer(s) PROVE Exchange'
  BY <1>3, <1>6, ObserverExchange
<1>7. ASSUME NEW s \in Side, Timeout(s) PROVE Exchange'
  <2>1. TimesOut
    BY <1>7 DEF Timeout, IceLost, IceFails, ConnectivityLost
  <2>2. QED
    BY <1>3, <1>7, <2>1, TimeoutExchange
<1>8. ASSUME NEW s \in Side, ReinitTimerFires(s) PROVE Exchange'
  <2>1. s = "offerer"
    BY <1>8, RelayTypes, Sides DEF ReinitTimerFires, Answerer
  <2>2. QED
    BY <1>3, <1>8, <2>1, OffererReinitialises
<1>9. CASE UNCHANGED vars
  <2>1. /\ inbox' = inbox /\ relay' = relay
    BY <1>9 DEF vars
  <2>2. QED
    BY <1>3, <2>1 DEF Exchange, QueuesOK, UnderWay, Preparing, Sent, AnswersOK,
       OfferPending, Answering, CandidatesOK, TimerOK, Paired, Offerer, Answerer
<1>10. QED
  BY <1>3, <1>4, <1>5, <1>6, <1>7, <1>8, <1>9 DEF Next

LEMMA InitTimely == Init => TimelyInv
<1> SUFFICES ASSUME Init PROVE TimelyInv
  OBVIOUS
<1>1. /\ \A s \in Side : inbox[s] = <<>> /\ relay[s] = Blank
      /\ Offerer = Blank /\ Answerer = Blank
      /\ inbox["offerer"] = <<>> /\ inbox["answerer"] = <<>>
  BY Sides DEF Init, Offerer, Answerer
<1>2. Blank.todo = "none" /\ Blank.remote = NoPc /\ Blank.reinitTimer = FALSE
  BY DEF Blank
<1>3. QueuesOK
  <2>1. \A s \in Side : <<>> \in UnderWay(s)
    BY <1>1, <1>2 DEF UnderWay, Preparing
  <2>2. QED
    BY <1>1, <2>1, Sides DEF QueuesOK
<1>4. AnswersOK
  BY <1>1, <1>2, Sides DEF AnswersOK, OfferPending, Answering, Preparing
<1>5. CandidatesOK /\ TimerOK
  BY <1>1, <1>2 DEF CandidatesOK, TimerOK
<1>6. AbsentBlank
  BY <1>1 DEF AbsentBlank
<1>7. QED
  BY <1>3, <1>4, <1>5, <1>6 DEF TimelyInv, Exchange

LEMMA TimelyInvariant == Spec => []TimelyInv
  BY LinkInvariant, InitTimely, NextTimely, PTL DEF Spec

\* Nothing in addIceMessage compares an answer with the offer it is for, and
\* yet the offerer only ever takes the answer to its last offer: the timers
\* and the checker leave an exchange the time to end.
THEOREM AnswersOfLastOffer == Spec => []AnswersMatch
<1>1. TimelyInv => AnswersMatch
  BY DEF TimelyInv, Exchange, AnswersOK, AnswersMatch
<1>2. QED
  BY <1>1, TimelyInvariant, PTL

-----------------------------------------------------------------------------
(* A link that works stays.                                                *)

\* What a working link consists of.
LEMMA AliveSame ==
  ASSUME Alive,
         \A s \in Side : /\ relay'[s].pc = relay[s].pc
                         /\ relay'[s].remote = relay[s].remote
                         /\ relay'[s].iceState = relay[s].iceState
                         /\ relay'[s].dataChannel = relay[s].dataChannel
  PROVE  Alive'
<1>1. Paired'
  BY Sides DEF Alive, Paired
<1>2. QED
  BY <1>1 DEF Alive

\* Candidates change nothing of a link that is up, an answer names the peer
\* connection that the offerer has already, and no offer is left.
LEMMA AliveIceMsg ==
  ASSUME LinkInv, Exchange, Alive, NEW s \in Side, IceMsg(s)
  PROVE  Alive'
<1> DEFINE m == Head(inbox[s])
<1>1. /\ inbox[s] # <<>> /\ Other(s) \in Side /\ Other(Other(s)) = s
      /\ relay' = IF exists[s] THEN [relay EXCEPT ![s] = AddIceMessage(s, m)]
                               ELSE relay
  BY Sides DEF IceMsg
<1>2. /\ m.type \in {"description", "candidate"}
      /\ m.pc = relay[Other(s)].pc
  BY <1>1, HeadOfQueue
<1>3. /\ relay[s].iceState = "connected"
      /\ relay[s].remote = relay[Other(s)].pc
      /\ Answerer.remote = Offerer.pc
      /\ relay[s] \in Relay
  BY RelayTypes, Sides DEF Alive, Paired, Answerer, Offerer
<1> HIDE DEF m
<1>4. ASSUME NEW q, relay' = [relay EXCEPT ![s] = q],
             q.pc = relay[s].pc, q.remote = relay[s].remote,
             q.iceState = relay[s].iceState, q.dataChannel = relay[s].dataChannel
      PROVE  Alive'
  <2>1. \A t \in Side : relay'[t] = IF t = s THEN q ELSE relay[t]
    BY <1>4, RelayTypes
  <2>2. QED
    BY <1>4, <2>1, AliveSame
<1>5. CASE m.type = "candidate"
  <2>1. AddIceMessage(s, m) = relay[s]
    BY <1>3, <1>5 DEF AddIceMessage, AddCandidate
  <2>2. relay' = [relay EXCEPT ![s] = relay[s]]
    BY <1>1, <2>1, RelayTypes
  <2>3. QED
    BY <1>4, <2>2
<1>6. CASE s = "offerer" /\ m.type = "description"
  <2>1. AddIceMessage(s, m) = AddAnswer(relay[s], relay[s].remote)
    BY <1>2, <1>3, <1>6 DEF AddIceMessage
  <2> DEFINE q == AddAnswer(relay[s], relay[s].remote)
  <2>2. /\ q.pc = relay[s].pc /\ q.remote = relay[s].remote
        /\ q.iceState = relay[s].iceState /\ q.dataChannel = relay[s].dataChannel
    BY <1>3 DEF AddAnswer, Relay
  <2> HIDE DEF q
  <2>3. CASE exists[s]
    <3>1. relay' = [relay EXCEPT ![s] = q]
      BY <1>1, <2>1, <2>3 DEF q
    <3>2. QED
      BY <1>4, <2>2, <3>1
  <2>4. CASE ~exists[s]
    BY <1>1, <2>4, AliveSame
  <2>5. QED
    BY <2>3, <2>4
<1>7. CASE s = "answerer" /\ m.type = "description"
  <2>1. OfferPending
    BY <1>1, <1>7 DEF OfferPending, m
  <2>2. QED
    BY <1>3, <2>1 DEF Exchange, AnswersOK
<1>8. QED
  BY <1>2, <1>5, <1>6, <1>7, Sides

\* No observer of a link that is up changes what it consists of.
LEMMA AliveObserver ==
  ASSUME LinkInv, Alive, NEW s \in Side, Observer(s)
  PROVE  Alive'
<1>1. /\ relay[s].iceState = "connected" /\ relay[s].dataChannel = "open"
      /\ relay[s] \in Relay
  BY RelayTypes DEF Alive
<1>2. ~IceConnects(s) /\ ~DataChannelOpens(s)
  BY <1>1 DEF IceConnects, CanConnect, DataChannelOpens, CanOpen
<1>3. \E q \in {OnDescriptionCreated(relay[s], IsOfferer(s)),
                OnRemoteDescriptionSet(relay[s]), OnLocalDescriptionSet(relay[s]),
                OnIceCandidate(relay[s])} :
        relay' = [relay EXCEPT ![s] = q]
  BY <1>2 DEF Observer, DescriptionCreated, RemoteDescriptionSet,
     LocalDescriptionSet, CandidateGathered
<1>4. PICK q \in {OnDescriptionCreated(relay[s], IsOfferer(s)),
                  OnRemoteDescriptionSet(relay[s]), OnLocalDescriptionSet(relay[s]),
                  OnIceCandidate(relay[s])} :
        relay' = [relay EXCEPT ![s] = q]
  BY <1>3
<1>5. /\ q.pc = relay[s].pc /\ q.remote = relay[s].remote
      /\ q.iceState = relay[s].iceState /\ q.dataChannel = relay[s].dataChannel
  BY <1>1, <1>4 DEF OnDescriptionCreated, OnRemoteDescriptionSet,
     OnLocalDescriptionSet, OnIceCandidate, Relay
<1>6. \A t \in Side : relay'[t] = IF t = s THEN q ELSE relay[t]
  BY <1>4, RelayTypes
<1>7. QED
  BY <1>5, <1>6, AliveSame

LEMMA AliveStays ==
  LinkInv /\ TimelyInv /\ [Next]_vars => (Timely /\ Alive /\ Timely' => Alive')
<1> SUFFICES ASSUME LinkInv, TimelyInv, [Next]_vars, Timely', Alive PROVE Alive'
  OBVIOUS
<1>1. /\ Exchange /\ AbsentBlank
      /\ TimesOut => Quiet /\ ~Alive
      /\ \A s \in Side : ~RemoveRelay(s)
  BY TimelyStep DEF TimelyInv
<1>2. Paired
  BY DEF Alive
<1>3. ASSUME NEW s \in Side, CreateRelay(s) PROVE Alive'
  <2>1. relay[s].pc = NoPc
    BY <1>1, <1>3 DEF CreateRelay, AbsentBlank, Blank
  <2>2. QED
    BY <1>2, <2>1 DEF Paired
<1>4. ASSUME NEW s \in Side, IceMsg(s) PROVE Alive'
  BY <1>1, <1>4, AliveIceMsg
<1>5. ASSUME NEW s \in Side, Observer(s) PROVE Alive'
  BY <1>5, AliveObserver
<1>6. ASSUME NEW s \in Side, Timeout(s) PROVE Alive'
  BY <1>1, <1>6 DEF Timeout, IceLost, IceFails, ConnectivityLost
<1>7. ASSUME NEW s \in Side, ReinitTimerFires(s) PROVE Alive'
  <2>1. Offerer.reinitTimer
    BY <1>7, RelayTypes, Sides DEF ReinitTimerFires, Answerer, Offerer
  <2>2. QED
    BY <1>1, <1>2, <2>1 DEF Exchange, TimerOK
<1>8. CASE UNCHANGED vars
  BY <1>8, AliveSame DEF vars
<1>9. QED
  BY <1>1, <1>3, <1>4, <1>5, <1>6, <1>7, <1>8 DEF Next

\* Unless a timeout came too early or a relay was removed, a link that works is
\* not torn down: not by a timer or a checker armed before it came up, nor by a
\* message that was still under way.
THEOREM WorkingLinkStays == Spec => WorkingLinkKept
<1>1. LinkInv /\ TimelyInv /\ [Next]_vars
      => [Timely /\ Alive /\ Timely' => Alive']_vars
  BY AliveStays
<1>2. QED
  BY <1>1, LinkInvariant, TimelyInvariant, PTL DEF Spec, WorkingLinkKept
=============================================================================
