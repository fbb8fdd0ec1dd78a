-------------------------- MODULE PingtrackerProofs --------------------------
(***************************************************************************)
(* Theorems about Pingtracker: every ping is counted once, for any bounds. *)
(***************************************************************************)
EXTENDS Pingtracker, FiniteSetTheorems, SequenceTheorems, TLAPS

\* The counts of a tracker.  What it counted and what it waits for are pings it
\* sent.
CountsOK ==
  /\ tracker.next \in Nat
  /\ tracker.successful \in Nat
  /\ tracker.lost \in Nat
  /\ Pending \subseteq 0 .. tracker.next - 1

AccountedInv == CountsOK /\ Accounted

\* The fields of a tracker, so that EXCEPT means what it says.
IsTracker ==
  tracker = [exists |-> tracker.exists, started |-> tracker.started,
             age |-> tracker.age, next |-> tracker.next,
             successful |-> tracker.successful, lost |-> tracker.lost]

LEMMA PendingFinite ==
  ASSUME CountsOK
  PROVE  IsFiniteSet(Pending)
<1>1. tracker.next - 1 \in Int /\ 0 \in Int
  BY DEF CountsOK
<1>2. IsFiniteSet(0 .. tracker.next - 1)
  BY <1>1, FS_Interval
<1>3. QED
  BY <1>2, FS_Subset DEF CountsOK

\* A tracker that has sent nothing has nothing to account for.
LEMMA FreshAccounted ==
  ASSUME IsTracker', tracker'.next = 0, tracker'.successful = 0,
         tracker'.lost = 0, tracker'.age = <<>>
  PROVE  AccountedInv'
<1>1. Pending' = {}
  BY DEF Pending
<1>2. QED
  BY <1>1, FS_EmptySet DEF AccountedInv, CountsOK, Accounted

\* A step that leaves the pending pings and the counts alone.
LEMMA SameAccounted ==
  ASSUME AccountedInv, Pending' = Pending, tracker'.next = tracker.next,
         tracker'.successful = tracker.successful,
         tracker'.lost = tracker.lost
  PROVE  AccountedInv'
  BY DEF AccountedInv, CountsOK, Accounted

\* Counting pending pings as answered or lost.
LEMMA CountedAccounted ==
  ASSUME AccountedInv, NEW ids \in SUBSET Pending,
         Pending' = Pending \ ids, tracker'.next = tracker.next,
         tracker'.successful \in Nat, tracker'.lost \in Nat,
         tracker'.successful + tracker'.lost
           = tracker.successful + tracker.lost + Cardinality(ids)
  PROVE  AccountedInv'
<1>1. IsFiniteSet(Pending) /\ IsFiniteSet(ids)
  BY PendingFinite, FS_Subset DEF AccountedInv
<1>2. /\ Cardinality(Pending \ ids) \in Nat
      /\ Cardinality(ids) \in Nat
      /\ Cardinality(Pending) = Cardinality(Pending \ ids) + Cardinality(ids)
  <2>1. Pending \cap ids = ids
    OBVIOUS
  <2>2. Cardinality(Pending \ ids) = Cardinality(Pending) - Cardinality(ids)
    <3>1. Cardinality(Pending \ ids)
            = Cardinality(Pending) - Cardinality(Pending \cap ids)
      BY <1>1, FS_Difference
    <3>2. QED
      BY <2>1, <3>1
  <2>3. /\ Cardinality(Pending) \in Nat
        /\ Cardinality(ids) \in Nat
        /\ Cardinality(Pending \ ids) \in Nat
    BY <1>1, FS_CardinalityType, FS_Difference
  <2>4. QED
    BY <2>2, <2>3
<1>3. CountsOK'
  BY DEF AccountedInv, CountsOK
<1>4. Cardinality(Pending') = Cardinality(Pending \ ids)
  OBVIOUS
<1>5. Accounted'
  BY <1>2, <1>4 DEF AccountedInv, CountsOK, Accounted
<1>6. QED
  BY <1>3, <1>5 DEF AccountedInv

LEMMA InitTracker == Init => IsTracker /\ AccountedInv
<1> SUFFICES ASSUME Init PROVE IsTracker /\ AccountedInv
  OBVIOUS
<1>1. Pending = {}
  BY DEF Init, NoTracker, Pending
<1>2. QED
  BY <1>1, FS_EmptySet
     DEF Init, NoTracker, IsTracker, AccountedInv, CountsOK, Accounted

LEMMA NextTracker ==
  ASSUME IsTracker, AccountedInv, [Next]_vars
  PROVE  IsTracker' /\ AccountedInv'
<1>1. ASSUME UNCHANGED tracker PROVE IsTracker' /\ AccountedInv'
  <2>1. IsTracker'
    BY <1>1 DEF IsTracker
  <2>2. QED
    BY <1>1, <2>1, SameAccounted DEF Pending
<1>2. ASSUME tracker' = NoTracker \/ tracker' = NewTracker
      PROVE  IsTracker' /\ AccountedInv'
  <2>1. IsTracker'
    BY <1>2 DEF IsTracker, NoTracker, NewTracker
  <2>2. QED
    <3>1. /\ tracker'.next = 0
          /\ tracker'.successful = 0
          /\ tracker'.lost = 0
          /\ tracker'.age = <<>>
      <4>1. /\ NoTracker.next = 0
            /\ NoTracker.successful = 0
            /\ NoTracker.lost = 0
            /\ NoTracker.age = <<>>
        BY DEF NoTracker
      <4>2. /\ NewTracker.next = 0
            /\ NewTracker.successful = 0
            /\ NewTracker.lost = 0
        BY DEF NoTracker, NewTracker
      <4>3. NewTracker.age = NoTracker.age
        BY DEF NoTracker, NewTracker
      <4>4. QED
        BY <1>2, <4>1, <4>2, <4>3
    <3>2. QED
      BY <2>1, <3>1, FreshAccounted
<1>3. CASE OnConnected
  <2>1. CASE tracker' = [tracker EXCEPT !.started = @ \/ tracker.exists]
    <3>1. /\ IsTracker'
          /\ tracker'.age = tracker.age
          /\ tracker'.next = tracker.next
          /\ tracker'.successful = tracker.successful
          /\ tracker'.lost = tracker.lost
      BY <2>1 DEF IsTracker
    <3>2. QED
      BY <3>1, SameAccounted DEF Pending
  <2>2. QED
    BY <1>1, <1>3, <2>1 DEF OnConnected
<1>4. CASE Tick
  <2>1. /\ IsTracker'
        /\ DOMAIN tracker'.age = DOMAIN tracker.age
        /\ tracker'.next = tracker.next
        /\ tracker'.successful = tracker.successful
        /\ tracker'.lost = tracker.lost
    BY <1>4 DEF Tick, IsTracker, Pending
  <2>2. QED
    BY <2>1, SameAccounted DEF Pending
<1>5. CASE Ping
  <2>1. /\ IsTracker'
        /\ Pending' = Pending \cup {tracker.next}
        /\ tracker'.next = tracker.next + 1
        /\ tracker'.successful = tracker.successful
        /\ tracker'.lost = tracker.lost
    BY <1>5 DEF Ping, IsTracker, Pending
  <2>2. tracker.next \notin Pending
    BY DEF AccountedInv, CountsOK
  <2>3. /\ Cardinality(Pending) \in Nat
        /\ Cardinality(Pending') = Cardinality(Pending) + 1
    <3>1. IsFiniteSet(Pending)
      BY PendingFinite DEF AccountedInv
    <3>2. QED
      BY <2>1, <2>2, <3>1, FS_AddElement, FS_CardinalityType
  <2>4. CountsOK'
    <3>1. /\ tracker'.next \in Nat
          /\ tracker'.successful \in Nat
          /\ tracker'.lost \in Nat
      BY <2>1 DEF AccountedInv, CountsOK
    <3>2. Pending' \subseteq 0 .. tracker'.next - 1
      <4>1. tracker.next \in Nat /\ Pending \subseteq 0 .. tracker.next - 1
        BY DEF AccountedInv, CountsOK
      <4>2. tracker.next \in 0 .. tracker.next
        BY <4>1
      <4>3. 0 .. tracker.next - 1 \subseteq 0 .. tracker.next
        BY <4>1
      <4>4. tracker'.next - 1 = tracker.next
        BY <2>1, <4>1
      <4>5. QED
        BY <2>1, <4>1, <4>2, <4>3, <4>4
    <3>3. QED
      BY <3>1, <3>2 DEF CountsOK
  <2>5. QED
    BY <2>1, <2>3, <2>4 DEF AccountedInv, CountsOK, Accounted
<1>6. CASE PongArrives
  <2>1. PICK p \in packets : OnPong(p[2])
    BY <1>6 DEF PongArrives
  <2>2. CASE tracker.exists /\ p[2] \in Pending
    <3>1. /\ IsTracker'
          /\ Pending' = Pending \ {p[2]}
          /\ tracker'.next = tracker.next
          /\ tracker'.successful = tracker.successful + 1
          /\ tracker'.lost = tracker.lost
      <4>1. tracker' = [tracker EXCEPT !.age = Without({p[2]}),
                                       !.successful = @ + 1]
        BY <2>1, <2>2 DEF OnPong
      <4>2. DOMAIN Without({p[2]}) = Pending \ {p[2]}
        BY DEF Without
      <4>3. /\ IsTracker'
            /\ tracker'.age = Without({p[2]})
            /\ tracker'.next = tracker.next
            /\ tracker'.successful = tracker.successful + 1
            /\ tracker'.lost = tracker.lost
        BY <4>1 DEF IsTracker
      <4>4. QED
        BY <4>2, <4>3 DEF Pending
    <3>2. Cardinality({p[2]}) = 1
      BY FS_Singleton
    <3>3. /\ tracker'.successful \in Nat
          /\ tracker'.lost \in Nat
          /\ tracker'.successful + tracker'.lost
               = tracker.successful + tracker.lost + Cardinality({p[2]})
      BY <3>1, <3>2 DEF AccountedInv, CountsOK
    <3>4. AccountedInv'
      BY <2>2, <3>1, <3>3, CountedAccounted
    <3>5. QED
      BY <3>1, <3>4
  <2>3. QED
    BY <1>1, <2>1, <2>2 DEF OnPong
<1>7. CASE Update
  <2>1. /\ IsTracker'
        /\ Pending' = Pending \ Expired
        /\ tracker'.next = tracker.next
        /\ tracker'.successful = tracker.successful
        /\ tracker'.lost = tracker.lost + Cardinality(Expired)
    BY <1>7 DEF Update, Without, IsTracker, Pending
  <2>2. Expired \in SUBSET Pending
    BY DEF Expired
  <2>3. Cardinality(Expired) \in Nat
    <3>1. IsFiniteSet(Pending)
      BY PendingFinite DEF AccountedInv
    <3>2. QED
      BY <2>2, <3>1, FS_Subset, FS_CardinalityType
  <2>4. /\ tracker'.successful \in Nat
        /\ tracker'.lost \in Nat
        /\ tracker'.successful + tracker'.lost
             = tracker.successful + tracker.lost + Cardinality(Expired)
    BY <2>1, <2>3 DEF AccountedInv, CountsOK
  <2>5. AccountedInv'
    BY <2>1, <2>2, <2>4, CountedAccounted
  <2>6. QED
    BY <2>1, <2>5
<1>8. QED
  BY <1>1, <1>2, <1>3, <1>4, <1>5, <1>6, <1>7
     DEF Next, ConnectToPeer, DisconnectFromPeer, Connects, LosesConnection,
         GpgnetRead, LeaveClicked, PacketLost, vars, clientVars

\* Every ping of a tracker is counted once, as answered, as lost or as pending,
\* for any number of pings, relays and losses and any time a ping may take.
THEOREM EveryPingAccounted == Spec => []Accounted
<1>1. Spec => [](IsTracker /\ AccountedInv)
  BY InitTracker, NextTracker, PTL DEF Spec
<1>2. IsTracker /\ AccountedInv => Accounted
  BY DEF AccountedInv
<1>3. QED
  BY <1>1, <1>2, PTL

-----------------------------------------------------------------------------
(* Types.                                                                  *)

TrackerOK ==
  /\ IsTracker
  /\ tracker.exists \in BOOLEAN
  /\ tracker.started \in BOOLEAN
  /\ tracker.next \in 0 .. MaxPings
  /\ Pending \subseteq 0 .. tracker.next - 1
  /\ \A i \in Pending : tracker.age[i] \in 0 .. Expire + 1

LEMMA AppendType ==
  ASSUME NEW S, NEW q \in Seq(S), NEW x \in S
  PROVE  Append(q, x) \in Seq(S)
  OBVIOUS

LEMMA TailType ==
  ASSUME NEW S, NEW q \in Seq(S), q # <<>>
  PROVE  Head(q) \in S /\ Tail(q) \in Seq(S)
  OBVIOUS

\* A relay that is there has been created.
TypeInv ==
  /\ TypeOK
  /\ TrackerOK
  /\ relay # "none" => relays > 0

LEMMA FreshTracker ==
  ASSUME peersReady \in BOOLEAN,
         tracker' = NoTracker \/ tracker' = NewTracker
  PROVE  TrackerOK'
<1>1. NoTracker.age = <<>> /\ NewTracker.age = NoTracker.age
  BY DEF NoTracker, NewTracker
<1>2. Pending' = {}
  BY <1>1 DEF Pending
<1>3. /\ IsTracker'
      /\ tracker'.exists \in BOOLEAN
      /\ tracker'.started \in BOOLEAN
      /\ tracker'.next = 0
  <2>1. CASE tracker' = NoTracker
    BY <2>1 DEF NoTracker, IsTracker
  <2>2. CASE tracker' = NewTracker
    <3>1. tracker' = [exists |-> TRUE, started |-> peersReady, age |-> <<>>,
                      next |-> 0, successful |-> 0, lost |-> 0]
      BY <2>2 DEF NoTracker, NewTracker
    <3>2. QED
      BY <3>1 DEF IsTracker
  <2>3. QED
    BY <2>1, <2>2
<1>4. QED
  BY <1>2, <1>3, PingtrackerAssumption DEF TrackerOK

\* A step that drops pending pings, lets them age or changes the counts.
LEMMA SameTracker ==
  ASSUME TrackerOK, IsTracker',
         tracker'.exists = tracker.exists, tracker'.started \in BOOLEAN,
         tracker'.next = tracker.next, Pending' \subseteq Pending,
         \A i \in Pending' : tracker'.age[i] \in 0 .. Expire + 1
  PROVE  TrackerOK'
  BY DEF TrackerOK

LEMMA NextTypes ==
  ASSUME TypeInv, [Next]_vars
  PROVE  TypeInv'
<1> USE PingtrackerAssumption
<1>1. CASE UNCHANGED vars
  BY <1>1 DEF vars, TypeInv, TypeOK, TrackerOK, IsTracker, Pending
<1>2. ASSUME UNCHANGED tracker PROVE TrackerOK'
  BY <1>2 DEF TypeInv, TrackerOK, IsTracker, Pending
<1>3. TypeOK' <=>
        /\ relay' \in {"none", "connecting", "connected"}
        /\ relays' \in 0 .. MaxRelays
        /\ losses' \in 0 .. MaxLosses
        /\ gpgnet' \in Seq({"ConnectToPeer", "DisconnectFromPeer"})
        /\ rpc' \in Seq(BOOLEAN)
        /\ peersReady' \in BOOLEAN
        /\ Pending' \subseteq 0 .. tracker'.next - 1
        /\ \A i \in Pending' : tracker'.age[i] \in 0 .. Expire + 1
        /\ tracker'.next \in 0 .. MaxPings
        /\ packets' \subseteq (1 .. MaxRelays) \X (0 .. MaxPings - 1)
  BY DEF TypeOK
<1>4. CASE ConnectToPeer \/ DisconnectFromPeer \/ Connects \/ LosesConnection
  <2>1. UNCHANGED <<tracker, peersReady, packets>>
    BY <1>4 DEF ConnectToPeer, DisconnectFromPeer, Connects, LosesConnection,
                clientVars
  <2>2. /\ gpgnet' \in Seq({"ConnectToPeer", "DisconnectFromPeer"})
        /\ rpc' \in Seq(BOOLEAN)
    <3>1. /\ gpgnet \in Seq({"ConnectToPeer", "DisconnectFromPeer"})
          /\ rpc \in Seq(BOOLEAN)
      BY DEF TypeInv, TypeOK
    <3>2. \/ gpgnet' = gpgnet
          \/ gpgnet' = Append(gpgnet, "ConnectToPeer")
          \/ gpgnet' = Append(gpgnet, "DisconnectFromPeer")
      BY <1>4 DEF ConnectToPeer, DisconnectFromPeer, Connects, LosesConnection
    <3>3. rpc' = rpc \/ rpc' = Append(rpc, TRUE) \/ rpc' = Append(rpc, FALSE)
      BY <1>4 DEF ConnectToPeer, DisconnectFromPeer, Connects, LosesConnection
    <3>4. rpc' \in Seq(BOOLEAN)
      BY <3>1, <3>3, AppendType
    <3>5. QED
      BY <3>1, <3>2, <3>4, AppendType
  <2>3. /\ relay' \in {"none", "connecting", "connected"}
        /\ relays' \in 0 .. MaxRelays
        /\ losses' \in 0 .. MaxLosses
        /\ relay' # "none" => relays' > 0
    <3>1. /\ relay \in {"none", "connecting", "connected"}
          /\ relays \in 0 .. MaxRelays
          /\ losses \in 0 .. MaxLosses
          /\ relay # "none" => relays > 0
      BY DEF TypeInv, TypeOK
    <3>2. CASE ConnectToPeer
      BY <3>1, <3>2 DEF ConnectToPeer
    <3>3. CASE DisconnectFromPeer
      BY <3>1, <3>3 DEF DisconnectFromPeer
    <3>4. CASE Connects
      BY <3>1, <3>4 DEF Connects
    <3>5. CASE LosesConnection
      BY <3>1, <3>5 DEF LosesConnection
    <3>6. QED
      BY <1>4, <3>2, <3>3, <3>4, <3>5
  <2>4. QED
    BY <1>2, <1>3, <2>1, <2>2, <2>3 DEF TypeInv, TypeOK, TrackerOK
<1>5. ASSUME TrackerOK', UNCHANGED adapterVars,
             gpgnet' \in Seq({"ConnectToPeer", "DisconnectFromPeer"}),
             rpc' \in Seq(BOOLEAN), peersReady' \in BOOLEAN,
             packets' \subseteq (1 .. MaxRelays) \X (0 .. MaxPings - 1)
      PROVE  TypeInv'
  BY <1>3, <1>5 DEF TypeInv, TypeOK, TrackerOK, adapterVars
<1>6. CASE GpgnetRead
  <2>1. TrackerOK'
    BY <1>6, FreshTracker DEF GpgnetRead, TypeInv, TypeOK
  <2>2. gpgnet' \in Seq({"ConnectToPeer", "DisconnectFromPeer"})
    BY <1>6, TailType DEF GpgnetRead, TypeInv, TypeOK
  <2>3. QED
    BY <1>5, <1>6, <2>1, <2>2 DEF GpgnetRead, TypeInv, TypeOK
<1>7. CASE OnConnected
  <2>1. rpc' \in Seq(BOOLEAN) /\ Head(rpc) \in BOOLEAN
    BY <1>7, TailType DEF OnConnected, TypeInv, TypeOK
  <2>2. CASE tracker' = [tracker EXCEPT !.started = @ \/ tracker.exists]
    <3>1. /\ IsTracker'
          /\ tracker'.exists = tracker.exists
          /\ tracker'.started = (tracker.started \/ tracker.exists)
          /\ tracker'.next = tracker.next
          /\ tracker'.age = tracker.age
      BY <2>2 DEF TypeInv, TrackerOK, IsTracker
    <3>2. TrackerOK'
      BY <3>1, SameTracker DEF TypeInv, TrackerOK, Pending
    <3>3. QED
      BY <1>5, <1>7, <2>1, <3>2 DEF OnConnected, TypeInv, TypeOK
  <2>3. CASE UNCHANGED <<peersReady, tracker>>
    BY <1>2, <1>5, <1>7, <2>1, <2>3 DEF OnConnected, TypeInv, TypeOK
  <2>4. QED
    BY <1>7, <2>2, <2>3 DEF OnConnected
<1>8. CASE LeaveClicked
  <2>1. TrackerOK'
    BY <1>8, FreshTracker DEF LeaveClicked, TypeInv, TypeOK
  <2>2. <<>> \in Seq({"ConnectToPeer", "DisconnectFromPeer"})
    OBVIOUS
  <2>3. QED
    BY <1>3, <1>8, <2>1, <2>2 DEF LeaveClicked, TypeInv, TypeOK, TrackerOK
<1>9. CASE Tick
  <2>1. /\ IsTracker'
        /\ tracker'.exists = tracker.exists
        /\ tracker'.started = tracker.started
        /\ tracker'.next = tracker.next
        /\ tracker'.age = [i \in Pending |-> IF tracker.age[i] <= Expire
                                             THEN tracker.age[i] + 1
                                             ELSE tracker.age[i]]
    BY <1>9 DEF Tick, TypeInv, TrackerOK, IsTracker
  <2>2. \A i \in Pending : tracker'.age[i] \in 0 .. Expire + 1
    BY <2>1 DEF TypeInv, TrackerOK
  <2>3. TrackerOK'
    BY <2>1, <2>2, SameTracker DEF TypeInv, TrackerOK, Pending
  <2>4. QED
    BY <1>5, <1>9, <2>3 DEF Tick, TypeInv, TypeOK
<1>10. CASE Ping
  <2>1. /\ IsTracker'
        /\ tracker'.exists = tracker.exists
        /\ tracker'.started = tracker.started
        /\ tracker'.next = tracker.next + 1
        /\ tracker'.age = [i \in Pending \cup {tracker.next} |->
                             IF i \in Pending THEN tracker.age[i] ELSE 0]
    BY <1>10 DEF Ping, TypeInv, TrackerOK, IsTracker
  <2>2. tracker.next \in 0 .. MaxPings - 1 /\ tracker.next \in Nat
    BY <1>10 DEF Ping, TypeInv, TrackerOK
  <2>3. Pending' = Pending \cup {tracker.next}
    BY <2>1 DEF Pending
  <2>4. \A i \in Pending' : tracker'.age[i] \in 0 .. Expire + 1
    BY <2>1, <2>3 DEF TypeInv, TrackerOK
  <2>5. Pending' \subseteq 0 .. tracker'.next - 1
    <3>1. Pending \subseteq 0 .. tracker.next - 1
      BY DEF TypeInv, TrackerOK
    <3>2. 0 .. tracker.next - 1 \subseteq 0 .. tracker.next
      BY <2>2
    <3>3. tracker.next \in 0 .. tracker.next /\ tracker'.next - 1 = tracker.next
      BY <2>1, <2>2
    <3>4. QED
      BY <2>3, <3>1, <3>2, <3>3
  <2>6. TrackerOK'
    <3>1. tracker'.next \in 0 .. MaxPings
      BY <2>1, <2>2
    <3>2. tracker'.exists \in BOOLEAN /\ tracker'.started \in BOOLEAN
      BY <2>1 DEF TypeInv, TrackerOK
    <3>3. QED
      BY <2>1, <2>4, <2>5, <3>1, <3>2 DEF TrackerOK
  <2>7. packets' \subseteq (1 .. MaxRelays) \X (0 .. MaxPings - 1)
    <3>1. CASE relay = "connected"
      <4>1. relays \in 1 .. MaxRelays
        BY <3>1 DEF TypeInv, TypeOK
      <4>2. packets' = packets \cup {<<relays, tracker.next>>}
        BY <1>10, <3>1 DEF Ping
      <4>3. QED
        BY <2>2, <4>1, <4>2 DEF TypeInv, TypeOK
    <3>2. CASE relay # "connected"
      BY <1>10, <3>2 DEF Ping, TypeInv, TypeOK
    <3>3. QED
      BY <3>1, <3>2
  <2>8. QED
    BY <1>5, <1>10, <2>6, <2>7 DEF Ping, TypeInv, TypeOK
<1>11. ASSUME NEW ids,
              /\ IsTracker'
              /\ tracker'.exists = tracker.exists
              /\ tracker'.started = tracker.started
              /\ tracker'.next = tracker.next
              /\ tracker'.age = Without(ids)
       PROVE  TrackerOK'
  BY <1>11, SameTracker DEF TypeInv, TrackerOK, Pending, Without
<1>12. CASE PongArrives
  <2>1. PICK p \in packets :
          /\ packets' = packets \ {p}
          /\ OnPong(p[2])
          /\ UNCHANGED <<adapterVars, gpgnet, rpc, peersReady, pinged>>
    BY <1>12 DEF PongArrives
  <2>2. CASE tracker' = [tracker EXCEPT !.age = Without({p[2]}),
                                        !.successful = @ + 1]
    <3>1. /\ IsTracker'
          /\ tracker'.exists = tracker.exists
          /\ tracker'.started = tracker.started
          /\ tracker'.next = tracker.next
          /\ tracker'.age = Without({p[2]})
      BY <2>2 DEF TypeInv, TrackerOK, IsTracker
    <3>2. TrackerOK'
      BY <1>11, <3>1
    <3>3. QED
      BY <1>5, <2>1, <3>2 DEF TypeInv, TypeOK
  <2>3. CASE UNCHANGED tracker
    BY <1>2, <1>5, <2>1, <2>3 DEF TypeInv, TypeOK
  <2>4. QED
    BY <2>1, <2>2, <2>3 DEF OnPong
<1>13. CASE PacketLost
  BY <1>2, <1>5, <1>13 DEF PacketLost, clientVars, TypeInv, TypeOK
<1>14. CASE Update
  <2>1. PICK ids : ids = Expired
    OBVIOUS
  <2>2. /\ IsTracker'
        /\ tracker'.exists = tracker.exists
        /\ tracker'.started = tracker.started
        /\ tracker'.next = tracker.next
        /\ tracker'.age = Without(ids)
    BY <1>14, <2>1 DEF Update, TypeInv, TrackerOK, IsTracker
  <2>3. TrackerOK'
    BY <1>11, <2>2
  <2>4. QED
    BY <1>5, <1>14, <2>3 DEF Update, TypeInv, TypeOK
<1>15. QED
  BY <1>1, <1>4, <1>6, <1>7, <1>8, <1>9, <1>10, <1>12, <1>13, <1>14 DEF Next

LEMMA InitTypes == Init => TypeInv
<1> SUFFICES ASSUME Init PROVE TypeInv
  OBVIOUS
<1>1. /\ 0 \in 0 .. MaxRelays
      /\ 0 \in 0 .. MaxLosses
      /\ 0 \in 0 .. MaxPings
  BY PingtrackerAssumption DEF PingtrackerAssumption
<1>2. Pending = {} /\ IsTracker
  BY DEF Init, NoTracker, Pending, IsTracker
<1>3. /\ tracker.exists = FALSE
      /\ tracker.started = FALSE
      /\ tracker.next = 0
  BY DEF Init, NoTracker
<1>4. /\ tracker.next \in 0 .. MaxPings
      /\ Pending \subseteq 0 .. tracker.next - 1
      /\ \A i \in Pending : tracker.age[i] \in 0 .. Expire + 1
  BY <1>1, <1>2, <1>3
<1>5. tracker.exists \in BOOLEAN /\ tracker.started \in BOOLEAN
  BY <1>3
<1>6. TrackerOK
  BY <1>2, <1>4, <1>5 DEF TrackerOK
<1>7. /\ relay \in {"none", "connecting", "connected"}
      /\ relays \in 0 .. MaxRelays
      /\ losses \in 0 .. MaxLosses
      /\ peersReady \in BOOLEAN
      /\ packets \subseteq (1 .. MaxRelays) \X (0 .. MaxPings - 1)
      /\ relay = "none"
  BY <1>1 DEF Init
<1>8. /\ gpgnet \in Seq({"ConnectToPeer", "DisconnectFromPeer"})
      /\ rpc \in Seq(BOOLEAN)
  BY EmptySeq DEF Init
<1>9. TypeOK
  BY <1>4, <1>7, <1>8 DEF TypeOK
<1>10. QED
  BY <1>6, <1>7, <1>9 DEF TypeInv

LEMMA Types == Spec => []TypeInv
  BY InitTypes, NextTypes, PTL DEF Spec

\* The state of the adapter and of the client is of its type: ages stop above
\* the limit, and every pending ping and every packet is one that was sent.
THEOREM PingTyping == Spec => []TypeOK
<1>1. TypeInv => TypeOK
  BY DEF TypeInv
<1>2. QED
  BY Types, <1>1, PTL

-----------------------------------------------------------------------------
(* The tracker and the relay.                                              *)

\* What the game does to its tracker once it has read all it was sent.
HasTracker ==
  IF gpgnet = <<>> THEN tracker.exists
                   ELSE gpgnet[Len(gpgnet)] = "ConnectToPeer"

Announced == \E i \in DOMAIN rpc : rpc[i] = TRUE

\* A connected relay is one the game has been told of, and the client either
\* is still to read that it is connected or has acted on it.
FollowInv ==
  /\ HasTracker <=> relay # "none"
  /\ relay = "connected" =>
       /\ \A i \in DOMAIN gpgnet : gpgnet[i] # "DisconnectFromPeer"
       /\ \/ Announced
          \/ peersReady /\ (tracker.exists => tracker.started)

LEMMA AppendElements ==
  ASSUME NEW S, NEW q \in Seq(S), NEW x \in S
  PROVE  /\ Append(q, x) # <<>>
         /\ Append(q, x)[Len(Append(q, x))] = x
         /\ \E i \in DOMAIN Append(q, x) : Append(q, x)[i] = x
  OBVIOUS

LEMMA TailElements ==
  ASSUME NEW S, NEW q \in Seq(S), q # <<>>
  PROVE  /\ Tail(q) = <<>> => q[Len(q)] = Head(q)
         /\ Tail(q) # <<>> => Tail(q)[Len(Tail(q))] = q[Len(q)]
         /\ \E i \in DOMAIN q : q[i] = Head(q)
         /\ \A i \in DOMAIN Tail(q) : i + 1 \in DOMAIN q /\ Tail(q)[i] = q[i + 1]
         /\ \A i \in DOMAIN q : \/ q[i] = Head(q)
                                \/ \E j \in DOMAIN Tail(q) : Tail(q)[j] = q[i]
<1>1. /\ Len(q) \in Nat \ {0}
      /\ Len(Tail(q)) = Len(q) - 1
      /\ DOMAIN q = 1 .. Len(q)
      /\ DOMAIN Tail(q) = 1 .. Len(q) - 1
      /\ Head(q) = q[1]
      /\ \A i \in 1 .. Len(q) - 1 : Tail(q)[i] = q[i + 1]
  OBVIOUS
<1>2. Tail(q) = <<>> <=> Len(q) = 1
  <2>1. Tail(q) \in Seq(S)
    OBVIOUS
  <2>2. Tail(q) = <<>> <=> Len(Tail(q)) = 0
    BY <2>1, EmptySeq
  <2>3. QED
    BY <1>1, <2>2
<1>3. \A i \in DOMAIN q : \/ q[i] = Head(q)
                          \/ \E j \in DOMAIN Tail(q) : Tail(q)[j] = q[i]
  <2> SUFFICES ASSUME NEW i \in DOMAIN q, i # 1
               PROVE  \E j \in DOMAIN Tail(q) : Tail(q)[j] = q[i]
    BY <1>1
  <2>1. i - 1 \in DOMAIN Tail(q) /\ Tail(q)[i - 1] = q[i]
    BY <1>1
  <2>2. QED
    BY <2>1
<1>4. QED
  BY <1>1, <1>2, <1>3

LEMMA InitFollows == Init => FollowInv
  BY DEF Init, NoTracker, HasTracker, FollowInv

LEMMA NextFollows ==
  ASSUME TypeInv, FollowInv, [Next]_vars
  PROVE  FollowInv'
<1> DEFINE Msgs == {"ConnectToPeer", "DisconnectFromPeer"}
<1>0. gpgnet \in Seq(Msgs) /\ rpc \in Seq(BOOLEAN) /\ peersReady \in BOOLEAN
  BY DEF TypeInv, TypeOK
<1>1. ASSUME UNCHANGED <<relay, gpgnet, rpc, peersReady>>,
             tracker'.exists = tracker.exists,
             tracker'.started = tracker.started
      PROVE  FollowInv'
  BY <1>1 DEF FollowInv, HasTracker, Announced
<1>2. CASE ConnectToPeer
  <2>1. gpgnet' # <<>> /\ gpgnet'[Len(gpgnet')] = "ConnectToPeer"
    BY <1>0, <1>2, AppendElements DEF ConnectToPeer
  <2>2. QED
    BY <1>2, <2>1 DEF ConnectToPeer, FollowInv, HasTracker
<1>3. CASE DisconnectFromPeer
  <2>1. gpgnet' # <<>> /\ gpgnet'[Len(gpgnet')] = "DisconnectFromPeer"
    BY <1>0, <1>3, AppendElements DEF DisconnectFromPeer
  <2>2. QED
    BY <1>3, <2>1 DEF DisconnectFromPeer, FollowInv, HasTracker
<1>4. CASE Connects
  <2>1. Announced'
    BY <1>0, <1>4, AppendElements, ZenonT(60) DEF Connects, Announced
  <2>2. UNCHANGED <<gpgnet, tracker>>
    BY <1>4 DEF Connects, clientVars
  <2>3. \A i \in DOMAIN gpgnet : gpgnet[i] # "DisconnectFromPeer"
    BY <1>4 DEF Connects
  <2>4. QED
    BY <1>4, <2>1, <2>2, <2>3 DEF Connects, FollowInv, HasTracker
<1>5. CASE LosesConnection
  <2>1. UNCHANGED <<gpgnet, tracker>> /\ relay = "connected" /\ relay' = "connecting"
    BY <1>5 DEF LosesConnection, clientVars
  <2>2. QED
    BY <2>1 DEF FollowInv, HasTracker
<1>6. CASE GpgnetRead
  <2>1. /\ gpgnet # <<>>
        /\ gpgnet' = Tail(gpgnet)
        /\ UNCHANGED <<relay, rpc>>
    BY <1>6 DEF GpgnetRead, adapterVars
  <2>2. Head(gpgnet) \in Msgs
    BY <1>0, <2>1, TailType
  <2>3. /\ tracker'.exists <=> Head(gpgnet) = "ConnectToPeer"
        /\ Head(gpgnet) = "ConnectToPeer" =>
             /\ tracker'.started <=> peersReady
             /\ peersReady' <=> peersReady
    <3>1. CASE Head(gpgnet) = "ConnectToPeer"
      <4>1. tracker' = NewTracker /\ peersReady' = peersReady
        BY <1>6, <3>1 DEF GpgnetRead
      <4>2. tracker' = [exists |-> TRUE, started |-> peersReady, age |-> <<>>,
                        next |-> 0, successful |-> 0, lost |-> 0]
        BY <4>1 DEF NoTracker, NewTracker
      <4>3. tracker'.exists = TRUE /\ tracker'.started = peersReady
        BY <4>2
      <4>4. QED
        BY <3>1, <4>1, <4>3
    <3>2. CASE Head(gpgnet) # "ConnectToPeer"
      <4>1. tracker' = NoTracker
        BY <1>6, <3>2 DEF GpgnetRead
      <4>2. QED
        BY <3>2, <4>1 DEF NoTracker
    <3>3. QED
      BY <3>1, <3>2
  <2>4. HasTracker' <=> HasTracker
    <3>1. CASE Tail(gpgnet) = <<>>
      BY <1>0, <2>1, <2>3, <3>1, TailElements DEF HasTracker
    <3>2. CASE Tail(gpgnet) # <<>>
      BY <1>0, <2>1, <3>2, TailElements DEF HasTracker
    <3>3. QED
      BY <3>1, <3>2
  <2>5. ASSUME relay = "connected"
        PROVE  /\ \A i \in DOMAIN gpgnet' : gpgnet'[i] # "DisconnectFromPeer"
               /\ \/ Announced'
                  \/ peersReady' /\ (tracker'.exists => tracker'.started)
    <3>1. \A i \in DOMAIN gpgnet : gpgnet[i] # "DisconnectFromPeer"
      BY <2>5 DEF FollowInv
    <3>2. Head(gpgnet) = "ConnectToPeer"
      BY <1>0, <2>1, <2>2, <3>1, TailElements
    <3>3. \A i \in DOMAIN gpgnet' : gpgnet'[i] # "DisconnectFromPeer"
      BY <1>0, <2>1, <3>1, TailElements
    <3>4. Announced' <=> Announced
      BY <2>1 DEF Announced
    <3>5. QED
      BY <2>3, <2>5, <3>2, <3>3, <3>4 DEF FollowInv
  <2>6. QED
    BY <2>1, <2>4, <2>5 DEF FollowInv
<1>7. CASE OnConnected
  <2>1. /\ rpc # <<>>
        /\ rpc' = Tail(rpc)
        /\ UNCHANGED <<relay, gpgnet>>
    BY <1>7 DEF OnConnected, adapterVars
  <2>2. CASE Head(rpc) = TRUE
    <3>1. /\ peersReady' = TRUE
          /\ tracker' = [tracker EXCEPT !.started = @ \/ tracker.exists]
      BY <1>7, <2>2 DEF OnConnected
    <3>2. /\ tracker'.exists = tracker.exists
          /\ tracker'.started = (tracker.started \/ tracker.exists)
      BY <3>1 DEF TypeInv, TrackerOK, IsTracker
    <3>3. QED
      BY <2>1, <3>1, <3>2 DEF FollowInv, HasTracker
  <2>3. CASE Head(rpc) = FALSE
    <3>1. UNCHANGED <<peersReady, tracker>>
      BY <1>7, <2>3 DEF OnConnected
    <3>2. Announced => Announced'
      BY <1>0, <2>1, <2>3, TailElements DEF Announced
    <3>3. QED
      BY <2>1, <3>1, <3>2 DEF FollowInv, HasTracker
  <2>4. Head(rpc) \in BOOLEAN
    BY <1>0, <2>1, TailType
  <2>5. QED
    BY <2>2, <2>3, <2>4
<1>8. CASE LeaveClicked
  BY <1>8 DEF LeaveClicked, NoTracker, FollowInv, HasTracker
<1>9. CASE Tick
  <2>1. /\ tracker'.exists = tracker.exists
        /\ tracker'.started = tracker.started
    BY <1>9 DEF Tick, TypeInv, TrackerOK, IsTracker
  <2>2. QED
    BY <1>1, <1>9, <2>1 DEF Tick, adapterVars
<1>10. CASE Ping
  <2>1. /\ tracker'.exists = tracker.exists
        /\ tracker'.started = tracker.started
    BY <1>10 DEF Ping, TypeInv, TrackerOK, IsTracker
  <2>2. QED
    BY <1>1, <1>10, <2>1 DEF Ping, adapterVars
<1>11. CASE PongArrives
  <2>1. PICK p \in packets :
          OnPong(p[2]) /\ UNCHANGED <<adapterVars, gpgnet, rpc, peersReady>>
    BY <1>11 DEF PongArrives
  <2>2. /\ tracker'.exists = tracker.exists
        /\ tracker'.started = tracker.started
    BY <2>1 DEF OnPong, TypeInv, TrackerOK, IsTracker
  <2>3. QED
    BY <1>1, <2>1, <2>2 DEF adapterVars
<1>12. CASE PacketLost
  BY <1>1, <1>12 DEF PacketLost, adapterVars, clientVars
<1>13. CASE Update
  <2>1. /\ tracker'.exists = tracker.exists
        /\ tracker'.started = tracker.started
    BY <1>13 DEF Update, TypeInv, TrackerOK, IsTracker
  <2>2. QED
    BY <1>1, <1>13, <2>1 DEF Update, adapterVars
<1>14. CASE UNCHANGED vars
  BY <1>1, <1>14 DEF vars
<1>15. QED
  BY <1>2, <1>3, <1>4, <1>5, <1>6, <1>7, <1>8, <1>9, <1>10, <1>11, <1>12,
     <1>13, <1>14 DEF Next

\* Once both channels are read there is a tracker exactly while there is a
\* relay, and it runs if the relay is connected: in whichever order they were
\* read, for any number of relays and losses.
THEOREM TrackersFollow == Spec => []TrackerFollowsRelay
<1>1. Spec => [](TypeInv /\ FollowInv)
  <2>1. Init => TypeInv /\ FollowInv
    BY InitTypes, InitFollows
  <2>2. TypeInv /\ FollowInv /\ [Next]_vars => (TypeInv /\ FollowInv)'
    BY NextTypes, NextFollows
  <2>3. QED
    BY <2>1, <2>2, PTL DEF Spec
<1>2. TypeInv /\ FollowInv => TrackerFollowsRelay
  BY DEF TypeInv, FollowInv, HasTracker, Announced, TrackerFollowsRelay
<1>3. QED
  BY <1>1, <1>2, PTL
=============================================================================
