------------------------- MODULE ConnectivityProofs -------------------------
(***************************************************************************)
(* Theorems about Connectivity, for all durations that satisfy its         *)
(* assumptions.                                                            *)
(***************************************************************************)
EXTENDS Connectivity, TLAPS

\* What a lost ping costs, and the silence that is left for the first ping.
Step == PingInterval + MaxLate
Wait == ConnectionTimeout - 1 - PongWithin

\* The kinds of the timers, and which run: the delay of the pings ends when
\* the pings start.
TimersInv ==
  /\ connectivityCheckTimer.started
  /\ ~connectivityCheckTimer.singleShot
  /\ connectivityCheckTimer.interval = CheckInterval
  /\ pingStartDelayTimer.singleShot
  /\ pingTimer.started <=> ~pingStartDelayTimer.started
  /\ pingTimer.started => /\ ~pingTimer.singleShot
                          /\ pingTimer.interval = PingInterval

\* Silence grows towards the next check, and a check that is passed found it
\* below the timeout.
SilenceInv ==
  /\ LossNoticed
  /\ ~reinit => silence + connectivityCheckTimer.due
                  < ConnectionTimeout + CheckInterval

\* While no pong is on its way on an open channel, every lost ping and the time
\* since the last one account for the silence; with pongs on their way, one of
\* them ends it soon enough.
PingInv ==
  /\ channel = "connecting" => silence <= OpenBy
  /\ channel # "open" => pongs = {}
  /\ pingStartDelayTimer.started =>
       /\ silence + pingStartDelayTimer.due <= PingStartDelay
       /\ pongs = {}
  /\ channel = "open" /\ pongs = {} /\ pingTimer.started =>
       silence + pingTimer.due <= Wait + lost * Step + PingInterval
  /\ pongs # {} => \E d \in pongs : silence + d < ConnectionTimeout

CheckerInv == TypeOK /\ TimersInv /\ SilenceInv /\ PingInv /\ NoFalseAlarm

-----------------------------------------------------------------------------
(* Durations and timers.                                                   *)

LEMMA Durations ==
  /\ ConnectionTimeout \in Nat /\ CheckInterval \in Nat /\ CheckInterval > 0
  /\ PingStartDelay \in Nat /\ PingInterval \in Nat /\ OpenBy \in Nat
  /\ MaxRoundTrip \in Nat /\ MaxLost \in Nat /\ MaxLate \in Nat
  /\ Step = PingInterval + MaxLate
  /\ Wait \in Int /\ OpenBy <= Wait /\ PingStartDelay + MaxLate <= Wait
  /\ MaxRoundTrip < ConnectionTimeout
<1>1. (MaxLost + 1) * (PingInterval + MaxLate) \in Nat
  BY DurationAssumption
<1> DEFINE m == (MaxLost + 1) * (PingInterval + MaxLate)
<1>2. m \in Nat
  BY <1>1
<1> HIDE DEF m
<1>3. /\ OpenBy + m + MaxRoundTrip < ConnectionTimeout
      /\ PingStartDelay + MaxLate + m + MaxRoundTrip < ConnectionTimeout
      /\ Wait = ConnectionTimeout - 1 - (m + MaxRoundTrip)
  BY <1>2, TimingAssumption, DurationAssumption DEF PongWithin, Wait, m
<1>4. QED
  BY <1>2, <1>3, DurationAssumption DEF Step

\* Lost pings cost a step each, and the pong of the next one comes in time.
LEMMA LostPings ==
  ASSUME NEW k \in 0 .. MaxLost
  PROVE  /\ k * Step \in Nat
         /\ k < MaxLost => (k + 1) * Step = k * Step + Step
         /\ Wait + k * Step + Step + MaxRoundTrip < ConnectionTimeout
<1>1. Step \in Nat /\ MaxLost \in Nat /\ k \in Nat /\ MaxLost - k \in Nat
  BY Durations
<1>2. k * Step \in Nat /\ (MaxLost - k) * Step \in Nat
  BY <1>1
<1>3. (k + 1) * Step = k * Step + Step
  BY <1>1
<1>4. (MaxLost + 1) * Step = k * Step + (MaxLost - k) * Step + Step
  BY <1>1
<1>5. Wait + (MaxLost + 1) * Step + MaxRoundTrip = ConnectionTimeout - 1
  <2> DEFINE m == (MaxLost + 1) * Step
  <2>1. m \in Nat
    BY <1>1
  <2>2. Wait = ConnectionTimeout - 1 - (m + MaxRoundTrip)
    BY DEF Wait, PongWithin, Step
  <2> HIDE DEF m
  <2>3. Wait + m + MaxRoundTrip = ConnectionTimeout - 1
    BY <2>1, <2>2, Durations
  <2>4. QED
    BY <2>3 DEF m
<1> DEFINE a == k * Step
           b == (MaxLost - k) * Step
           m == (MaxLost + 1) * Step
<1>6. a \in Nat /\ b \in Nat /\ m = a + b + Step
      /\ Wait + m + MaxRoundTrip = ConnectionTimeout - 1
  BY <1>2, <1>4, <1>5
<1> HIDE DEF a, b, m
<1>7. Wait + a + Step + MaxRoundTrip < ConnectionTimeout
  BY <1>1, <1>6, Durations
<1>8. QED
  BY <1>2, <1>3, <1>7 DEF a

LEMMA StartType ==
  ASSUME NEW n \in Nat
  PROVE  /\ Start(n) \in Timer /\ Start(n).started /\ ~Start(n).singleShot
         /\ Start(n).interval = n /\ Start(n).due = n
         /\ SingleShot(n) \in Timer /\ SingleShot(n).started
         /\ SingleShot(n).singleShot /\ SingleShot(n).due = n
         /\ Stopped \in Timer /\ ~Stopped.started /\ Stopped.due = 0
  BY DEF Start, SingleShot, Stopped, Timer

LEMMA OnMessageType ==
  ASSUME NEW t \in Timer
  PROVE  /\ OnMessage(t) \in Timer
         /\ OnMessage(t).singleShot = t.singleShot
         /\ OnMessage(t).interval = t.interval
         /\ t.singleShot => OnMessage(t).due = t.due /\ ~OnMessage(t).started
         /\ ~t.singleShot => OnMessage(t).due = t.interval
                            /\ OnMessage(t).started = t.started
<1>1. CASE t.singleShot
  BY <1>1 DEF OnMessage, Timer
<1>2. CASE ~t.singleShot
  BY <1>2 DEF OnMessage, Timer
<1>3. QED
  BY <1>1, <1>2

LEMMA ElapseType ==
  ASSUME NEW t \in Timer
  PROVE  /\ Elapse(t) \in Timer
         /\ Elapse(t).started = t.started
         /\ Elapse(t).singleShot = t.singleShot
         /\ Elapse(t).interval = t.interval
         /\ t.started => Elapse(t).due = t.due - 1
         /\ ~t.started => Elapse(t).due = t.due
<1>1. CASE t.started
  <2> DEFINE d == t.due - 1
  <2>1. d \in Int
    BY DEF Timer
  <2>2. Elapse(t) = [t EXCEPT !.due = d]
    BY <1>1 DEF Elapse
  <2> HIDE DEF d
  <2>3. /\ Elapse(t) \in Timer /\ Elapse(t).due = d
        /\ Elapse(t).started = t.started
        /\ Elapse(t).singleShot = t.singleShot
        /\ Elapse(t).interval = t.interval
    BY <2>1, <2>2 DEF Timer
  <2>4. QED
    BY <1>1, <2>3 DEF d
<1>2. CASE ~t.started
  BY <1>2 DEF Elapse
<1>3. QED
  BY <1>1, <1>2

-----------------------------------------------------------------------------

LEMMA CheckerInit == Init => CheckerInv
<1> SUFFICES ASSUME Init PROVE CheckerInv
  OBVIOUS
<1>1. /\ connectivityCheckTimer \in Timer
      /\ connectivityCheckTimer.started /\ ~connectivityCheckTimer.singleShot
      /\ connectivityCheckTimer.interval = CheckInterval
      /\ connectivityCheckTimer.due = CheckInterval
  BY StartType, Durations DEF Init
<1>2. /\ pingStartDelayTimer \in Timer
      /\ pingStartDelayTimer.started /\ pingStartDelayTimer.singleShot
      /\ pingStartDelayTimer.due = PingStartDelay
  BY StartType, Durations DEF Init
<1>3. pingTimer \in Timer /\ ~pingTimer.started /\ pingTimer.due = 0
  BY StartType, Durations DEF Init
<1>4. /\ channel = "connecting" /\ silence = 0 /\ pongs = {} /\ lost = 0
      /\ reinit = FALSE
  BY DEF Init
<1>5. TypeOK
  <2>1. /\ silence \in Nat /\ lost \in 0 .. MaxLost
        /\ connectivityCheckTimer.due \in -MaxLate .. CheckInterval
        /\ pingStartDelayTimer.due \in -MaxLate .. PingStartDelay
        /\ pingTimer.due \in -MaxLate .. PingInterval
    BY <1>1, <1>2, <1>3, <1>4, Durations
  <2>2. QED
    BY <1>1, <1>2, <1>3, <1>4, <2>1 DEF TypeOK
<1>6. TimersInv
  BY <1>1, <1>2, <1>3 DEF TimersInv
<1>7. SilenceInv /\ PingInv /\ NoFalseAlarm
  BY <1>1, <1>2, <1>3, Durations
    DEF Init, SilenceInv, LossNoticed, PingInv, NoFalseAlarm
<1>8. QED
  BY <1>5, <1>6, <1>7 DEF CheckerInv

\* What the invariant says of the silence when a ping or a check is due.
LEMMA Accounted ==
  ASSUME CheckerInv
  PROVE  /\ lost * Step \in Nat
         /\ channel = "open" /\ pongs = {} /\ pingTimer.started =>
              silence <= Wait + lost * Step + Step
         /\ pingStartDelayTimer.started => silence <= Wait
         /\ channel # "broken" => silence < ConnectionTimeout
<1>1. /\ lost \in 0 .. MaxLost /\ silence \in Nat
      /\ pingTimer.due \in Int /\ pingTimer.due >= -MaxLate
      /\ pingStartDelayTimer.due \in Int /\ pingStartDelayTimer.due >= -MaxLate
      /\ channel \in {"connecting", "open", "broken"}
      /\ pongs \subseteq 0 .. MaxRoundTrip
  BY Durations DEF CheckerInv, TypeOK
<1> DEFINE a == lost * Step
<1>2. a \in Nat /\ Wait + a + Step + MaxRoundTrip < ConnectionTimeout
  BY <1>1, LostPings
<1>3. channel = "open" /\ pongs = {} /\ pingTimer.started =>
        silence + pingTimer.due <= Wait + a + PingInterval
  BY DEF CheckerInv, PingInv
<1> HIDE DEF a
<1>4. channel = "open" /\ pongs = {} /\ pingTimer.started =>
        silence <= Wait + a + Step
  BY <1>1, <1>2, <1>3, Durations
<1>5. pingStartDelayTimer.started => silence <= Wait
  BY <1>1, Durations DEF CheckerInv, PingInv
<1>6. ASSUME channel # "broken" PROVE silence < ConnectionTimeout
  <2>1. CASE channel = "connecting"
    BY <2>1, <1>1, <1>2, Durations DEF CheckerInv, PingInv
  <2>2. CASE channel = "open" /\ pongs # {}
    <3>1. PICK d \in pongs : silence + d < ConnectionTimeout
      BY <2>2 DEF CheckerInv, PingInv
    <3>2. d \in 0 .. MaxRoundTrip
      BY <1>1
    <3>3. QED
      BY <3>1, <3>2, <1>1, Durations
  <2>3. CASE channel = "open" /\ pongs = {} /\ pingTimer.started
    BY <2>3, <1>1, <1>2, <1>4, Durations
  <2>4. CASE ~pingTimer.started
    <3>1. pingStartDelayTimer.started
      BY <2>4 DEF CheckerInv, TimersInv
    <3>2. QED
      BY <3>1, <1>1, <1>2, <1>5, Durations
  <2>5. QED
    BY <1>1, <1>6, <2>1, <2>2, <2>3, <2>4
<1>7. QED
  BY <1>2, <1>4, <1>5, <1>6 DEF a

-----------------------------------------------------------------------------
(* The steps.                                                              *)

LEMMA NetworkStep == CheckerInv /\ (Open \/ Break) => CheckerInv'
<1> SUFFICES ASSUME CheckerInv, Open \/ Break PROVE CheckerInv'
  OBVIOUS
<1>1. UNCHANGED <<silence, connectivityCheckTimer, pingStartDelayTimer,
                  pingTimer, lost, reinit>>
  BY DEF Open, Break, timers
<1>2. /\ TypeOK /\ TimersInv /\ SilenceInv /\ NoFalseAlarm /\ PingInv
  BY DEF CheckerInv
<1>3. TypeOK'
  BY <1>1, <1>2 DEF Open, Break, TypeOK
<1>4. TimersInv'
  BY <1>1, <1>2 DEF TimersInv
<1>5. SilenceInv'
  BY <1>1, <1>2 DEF SilenceInv, LossNoticed
<1>6. NoFalseAlarm'
  BY <1>1, <1>2 DEF Open, Break, NoFalseAlarm
<1>7. PingInv'
  <2>1. CASE Open
    <3>1. silence \in Nat /\ silence <= OpenBy /\ pongs = {} /\ pongs' = {}
      BY <2>1, <1>2 DEF Open, PingInv, TypeOK
    <3>2. pingTimer.due \in Int /\ pingTimer.due <= PingInterval
      BY <1>2, Durations DEF TypeOK
    <3>3. lost * Step \in Nat
      BY Accounted
    <3> DEFINE a == lost * Step
    <3> HIDE DEF a
    <3>4. silence + pingTimer.due <= Wait + a + PingInterval
      BY <3>1, <3>2, <3>3, Durations DEF a
    <3>5. silence + pingTimer.due <= Wait + lost * Step + PingInterval
      BY <3>4 DEF a
    <3>6. QED
      BY <2>1, <1>1, <1>2, <3>1, <3>5 DEF Open, PingInv
  <2>2. CASE Break
    BY <2>2, <1>1, <1>2 DEF Break, PingInv
  <2>3. QED
    BY <2>1, <2>2
<1>8. QED
  BY <1>3, <1>4, <1>5, <1>6, <1>7 DEF CheckerInv

\* A packet from the peer, a pong or data, ends the silence.
LEMMA ReceiveStep == CheckerInv /\ (ReceivePong \/ ReceiveData) => CheckerInv'
<1> SUFFICES ASSUME CheckerInv, ReceivePong \/ ReceiveData PROVE CheckerInv'
  OBVIOUS
<1>1. /\ UNCHANGED <<channel, connectivityCheckTimer, pingStartDelayTimer,
                     pingTimer, lost, reinit>>
      /\ silence' = 0
      /\ pongs' \subseteq pongs
  BY DEF ReceivePong, ReceiveData, timers
<1>2. /\ TypeOK /\ TimersInv /\ SilenceInv /\ NoFalseAlarm /\ PingInv
  BY DEF CheckerInv
<1>3. TypeOK'
  BY <1>1, <1>2 DEF TypeOK
<1>4. TimersInv'
  BY <1>1, <1>2 DEF TimersInv
<1>5. SilenceInv'
  <2>1. connectivityCheckTimer.due \in Int
        /\ connectivityCheckTimer.due <= CheckInterval
    BY <1>2, Durations DEF TypeOK
  <2>2. QED
    BY <1>1, <2>1, Durations DEF SilenceInv, LossNoticed
<1>6. NoFalseAlarm'
  BY <1>1, <1>2 DEF NoFalseAlarm
<1>7. PingInv'
  <2>1. channel = "connecting" => silence' <= OpenBy
    BY <1>1, Durations
  <2>2. channel # "open" => pongs' = {}
    BY <1>1, <1>2 DEF PingInv
  <2>3. pingStartDelayTimer.started =>
          /\ silence' + pingStartDelayTimer.due <= PingStartDelay
          /\ pongs' = {}
    <3>1. pingStartDelayTimer.due \in Int
          /\ pingStartDelayTimer.due <= PingStartDelay
      BY <1>2, Durations DEF TypeOK
    <3>2. pingStartDelayTimer.started => pongs' = {}
      BY <1>1, <1>2 DEF PingInv
    <3>3. QED
      BY <1>1, <3>1, <3>2
  <2>4. silence' + pingTimer.due <= Wait + lost * Step + PingInterval
    <3>1. pingTimer.due \in Int /\ pingTimer.due <= PingInterval
      BY <1>2, Durations DEF TypeOK
    <3>2. lost * Step \in Nat
      BY Accounted
    <3> DEFINE a == lost * Step
    <3> HIDE DEF a
    <3>3. 0 + pingTimer.due <= Wait + a + PingInterval
      BY <3>1, <3>2, Durations DEF a
    <3>4. QED
      BY <1>1, <3>3 DEF a
  <2>5. pongs' # {} => \E d \in pongs' : silence' + d < ConnectionTimeout
    <3>1. \A d \in pongs' : 0 + d < ConnectionTimeout
      BY <1>1, <1>2, Durations DEF TypeOK
    <3>2. QED
      BY <1>1, <3>1
  <2>6. QED
    BY <1>1, <2>1, <2>2, <2>3, <2>4, <2>5 DEF PingInv
<1>8. QED
  BY <1>3, <1>4, <1>5, <1>6, <1>7 DEF CheckerInv

LEMMA StartPingStep == CheckerInv /\ StartPing => CheckerInv'
<1> SUFFICES ASSUME CheckerInv, StartPing PROVE CheckerInv'
  OBVIOUS
<1>1. UNCHANGED <<channel, silence, connectivityCheckTimer, pongs, lost, reinit>>
  BY DEF StartPing
<1>2. /\ TypeOK /\ TimersInv /\ SilenceInv /\ NoFalseAlarm /\ PingInv
  BY DEF CheckerInv
<1>3. /\ pingTimer' \in Timer /\ pingTimer'.started /\ ~pingTimer'.singleShot
      /\ pingTimer'.interval = PingInterval /\ pingTimer'.due = PingInterval
  BY StartType, Durations DEF StartPing
<1>4. pingStartDelayTimer \in Timer /\ pingStartDelayTimer.singleShot
      /\ pingStartDelayTimer.started
  BY <1>2 DEF TypeOK, TimersInv, StartPing, Fires
<1>5. /\ pingStartDelayTimer' \in Timer /\ pingStartDelayTimer'.singleShot
      /\ ~pingStartDelayTimer'.started
      /\ pingStartDelayTimer'.due = pingStartDelayTimer.due
  BY <1>4, OnMessageType DEF StartPing
<1>6. TypeOK'
  <2>1. pingTimer'.due \in -MaxLate .. PingInterval
    BY <1>3, Durations
  <2>2. QED
    BY <1>1, <1>2, <1>3, <1>5, <2>1 DEF TypeOK
<1>7. TimersInv'
  BY <1>1, <1>2, <1>3, <1>5 DEF TimersInv
<1>8. SilenceInv' /\ NoFalseAlarm'
  BY <1>1, <1>2 DEF SilenceInv, LossNoticed, NoFalseAlarm
<1>9. PingInv'
  <2>1. silence \in Nat /\ silence <= Wait /\ lost * Step \in Nat
    BY <1>2, <1>4, Accounted DEF TypeOK
  <2> DEFINE a == lost * Step
  <2> HIDE DEF a
  <2>2. silence + PingInterval <= Wait + a + PingInterval
    BY <2>1, Durations DEF a
  <2>3. silence' + pingTimer'.due <= Wait + lost' * Step + PingInterval
    BY <1>1, <1>3, <2>2 DEF a
  <2>4. QED
    BY <1>1, <1>2, <1>5, <2>3 DEF PingInv
<1>10. QED
  BY <1>6, <1>7, <1>8, <1>9 DEF CheckerInv

LEMMA SendPingStep == CheckerInv /\ SendPing => CheckerInv'
<1> SUFFICES ASSUME CheckerInv, SendPing PROVE CheckerInv'
  OBVIOUS
<1>1. UNCHANGED <<channel, silence, connectivityCheckTimer, pingStartDelayTimer,
                  reinit>>
  BY DEF SendPing
<1>2. /\ TypeOK /\ TimersInv /\ SilenceInv /\ NoFalseAlarm /\ PingInv
  BY DEF CheckerInv
<1>3. /\ pingTimer \in Timer /\ pingTimer.started /\ ~pingTimer.singleShot
      /\ pingTimer.interval = PingInterval /\ ~pingStartDelayTimer.started
  BY <1>2 DEF TypeOK, TimersInv, SendPing, Fires
<1>4. /\ pingTimer' \in Timer /\ ~pingTimer'.singleShot /\ pingTimer'.started
      /\ pingTimer'.interval = PingInterval /\ pingTimer'.due = PingInterval
  BY <1>3, OnMessageType DEF SendPing
<1>5. /\ silence \in Nat /\ lost \in 0 .. MaxLost
      /\ pongs \subseteq 0 .. MaxRoundTrip
      /\ pingTimer.due \in Int /\ pingTimer.due >= -MaxLate
  BY <1>2, Durations DEF TypeOK
\* The fate of the ping.
<1>6. \/ channel # "open" /\ pongs' = pongs /\ lost' = lost
      \/ channel = "open" /\ lost < MaxLost /\ pongs' = pongs /\ lost' = lost + 1
      \/ /\ channel = "open" /\ lost' = 0
         /\ \E d \in 0 .. MaxRoundTrip : pongs' = pongs \cup {d}
  BY DEF SendPing
<1>7. TypeOK'
  <2>1. lost' = lost \/ lost' = 0 \/ (lost < MaxLost /\ lost' = lost + 1)
    BY <1>6
  <2>2. lost' \in 0 .. MaxLost
    BY <1>5, <2>1, Durations
  <2>3. pongs' \subseteq 0 .. MaxRoundTrip
    BY <1>5, <1>6
  <2>4. pingTimer'.due \in -MaxLate .. PingInterval
    BY <1>4, Durations
  <2>5. QED
    BY <1>1, <1>2, <1>4, <2>2, <2>3, <2>4 DEF TypeOK
<1>8. TimersInv'
  BY <1>1, <1>2, <1>3, <1>4 DEF TimersInv
<1>9. SilenceInv' /\ NoFalseAlarm'
  BY <1>1, <1>2 DEF SilenceInv, LossNoticed, NoFalseAlarm
<1>10. PingInv'
  <2>1. channel # "open" => pongs' = {}
    BY <1>2, <1>6 DEF PingInv
  <2>2. ASSUME channel = "open", pongs' = {}
        PROVE  silence + PingInterval <= Wait + lost' * Step + PingInterval
    <3>1. lost < MaxLost /\ lost' = lost + 1 /\ pongs = {}
      BY <2>2, <1>6
    <3> DEFINE a == lost * Step
               b == (lost + 1) * Step
    <3>2. a \in Nat /\ b = a + Step /\ silence <= Wait + a + Step
      BY <1>3, <1>5, <2>2, <3>1, LostPings, Accounted
    <3> HIDE DEF a, b
    <3>3. silence + PingInterval <= Wait + b + PingInterval
      BY <1>5, <3>2, Durations
    <3>4. QED
      BY <3>1, <3>3 DEF b
  <2>3. ASSUME pongs' # {}
        PROVE  \E d \in pongs' : silence + d < ConnectionTimeout
    <3>1. CASE pongs # {}
      BY <3>1, <1>2, <1>6 DEF PingInv
    <3>2. CASE pongs = {}
      <4>1. channel = "open"
        BY <2>1, <2>3
      <4>2. PICK d \in 0 .. MaxRoundTrip : pongs' = pongs \cup {d}
        BY <2>3, <3>2, <1>6
      <4> DEFINE a == lost * Step
      <4>3. /\ a \in Nat /\ silence <= Wait + a + Step
            /\ Wait + a + Step + MaxRoundTrip < ConnectionTimeout
        BY <1>3, <1>5, <3>2, <4>1, LostPings, Accounted
      <4> HIDE DEF a
      <4>4. silence + d < ConnectionTimeout
        BY <1>5, <4>2, <4>3, Durations
      <4>5. QED
        BY <4>2, <4>4
    <3>3. QED
      BY <3>1, <3>2
  <2>4. QED
    BY <1>1, <1>2, <1>3, <1>4, <2>1, <2>2, <2>3 DEF PingInv
<1>11. QED
  BY <1>7, <1>8, <1>9, <1>10 DEF CheckerInv

LEMMA CheckConnectivityStep == CheckerInv /\ CheckConnectivity => CheckerInv'
<1> SUFFICES ASSUME CheckerInv, CheckConnectivity PROVE CheckerInv'
  OBVIOUS
<1>1. UNCHANGED <<channel, silence, pingStartDelayTimer, pingTimer, pongs, lost>>
  BY DEF CheckConnectivity
<1>2. /\ TypeOK /\ TimersInv /\ SilenceInv /\ NoFalseAlarm /\ PingInv
  BY DEF CheckerInv
<1>3. /\ connectivityCheckTimer' \in Timer
      /\ connectivityCheckTimer'.started /\ ~connectivityCheckTimer'.singleShot
      /\ connectivityCheckTimer'.interval = CheckInterval
      /\ connectivityCheckTimer'.due = CheckInterval
  BY <1>2, OnMessageType DEF TypeOK, TimersInv, CheckConnectivity
<1>4. silence \in Nat
  BY <1>2 DEF TypeOK
<1>5. reinit' = (reinit \/ silence >= ConnectionTimeout)
  BY DEF CheckConnectivity
<1>6. TypeOK'
  <2>1. connectivityCheckTimer'.due \in -MaxLate .. CheckInterval
    BY <1>3, Durations
  <2>2. reinit' \in BOOLEAN
    BY <1>5
  <2>3. QED
    BY <1>1, <1>2, <1>3, <2>1, <2>2 DEF TypeOK
<1>7. TimersInv'
  BY <1>1, <1>2, <1>3 DEF TimersInv
<1>8. SilenceInv'
  <2>1. ~reinit' => ~(silence >= ConnectionTimeout)
    BY <1>5
  <2>2. ~reinit' => silence + CheckInterval < ConnectionTimeout + CheckInterval
    BY <1>4, <2>1, Durations
  <2>3. QED
    BY <1>1, <1>2, <1>3, <2>2 DEF SilenceInv, LossNoticed
<1>9. NoFalseAlarm'
  <2>1. silence >= ConnectionTimeout => channel = "broken"
    BY <1>4, Accounted, Durations
  <2>2. QED
    BY <1>1, <1>2, <1>5, <2>1 DEF NoFalseAlarm
<1>10. PingInv'
  BY <1>1, <1>2 DEF PingInv
<1>11. QED
  BY <1>6, <1>7, <1>8, <1>9, <1>10 DEF CheckerInv

\* A reinitialisation leaves the checker in its initial state.
LEMMA ReinitStep == Reinit => CheckerInv'
<1> SUFFICES ASSUME Reinit PROVE CheckerInv'
  OBVIOUS
<1>1. /\ connectivityCheckTimer' \in Timer
      /\ connectivityCheckTimer'.started /\ ~connectivityCheckTimer'.singleShot
      /\ connectivityCheckTimer'.interval = CheckInterval
      /\ connectivityCheckTimer'.due = CheckInterval
  BY StartType, Durations DEF Reinit
<1>2. /\ pingStartDelayTimer' \in Timer
      /\ pingStartDelayTimer'.started /\ pingStartDelayTimer'.singleShot
      /\ pingStartDelayTimer'.due = PingStartDelay
  BY StartType, Durations DEF Reinit
<1>3. pingTimer' \in Timer /\ ~pingTimer'.started /\ pingTimer'.due = 0
  BY StartType, Durations DEF Reinit
<1>4. /\ channel' = "connecting" /\ silence' = 0 /\ pongs' = {} /\ lost' = 0
      /\ reinit' = FALSE
  BY DEF Reinit
<1>5. TypeOK'
  <2>1. /\ silence' \in Nat /\ lost' \in 0 .. MaxLost
        /\ connectivityCheckTimer'.due \in -MaxLate .. CheckInterval
        /\ pingStartDelayTimer'.due \in -MaxLate .. PingStartDelay
        /\ pingTimer'.due \in -MaxLate .. PingInterval
    BY <1>1, <1>2, <1>3, <1>4, Durations
  <2>2. QED
    BY <1>1, <1>2, <1>3, <1>4, <2>1 DEF TypeOK
<1>6. TimersInv'
  BY <1>1, <1>2, <1>3 DEF TimersInv
<1>7. SilenceInv' /\ PingInv' /\ NoFalseAlarm'
  BY <1>1, <1>2, <1>3, <1>4, Durations
    DEF SilenceInv, LossNoticed, PingInv, NoFalseAlarm
<1>8. QED
  BY <1>5, <1>6, <1>7 DEF CheckerInv

LEMMA TickStep == CheckerInv /\ Tick => CheckerInv'
<1> SUFFICES ASSUME CheckerInv, Tick PROVE CheckerInv'
  OBVIOUS
<1>1. /\ UNCHANGED <<channel, lost, reinit>> /\ ~reinit
      /\ silence' = silence + 1
      /\ 0 \notin pongs /\ pongs' = {d - 1 : d \in pongs}
      /\ channel = "connecting" => silence < OpenBy
  BY DEF Tick
<1>2. /\ TypeOK /\ TimersInv /\ SilenceInv /\ NoFalseAlarm /\ PingInv
  BY DEF CheckerInv
<1>3. /\ connectivityCheckTimer \in Timer /\ connectivityCheckTimer.started
      /\ connectivityCheckTimer.due \in Int
      /\ connectivityCheckTimer.due > -MaxLate
      /\ connectivityCheckTimer.due <= CheckInterval
  BY <1>2, Durations DEF Tick, InTime, TypeOK, TimersInv
<1>4. /\ connectivityCheckTimer' \in Timer /\ connectivityCheckTimer'.started
      /\ connectivityCheckTimer'.singleShot = connectivityCheckTimer.singleShot
      /\ connectivityCheckTimer'.interval = connectivityCheckTimer.interval
      /\ connectivityCheckTimer'.due = connectivityCheckTimer.due - 1
  BY <1>3, ElapseType DEF Tick
<1>5. /\ pingStartDelayTimer \in Timer /\ pingStartDelayTimer.due \in Int
      /\ pingStartDelayTimer.due >= -MaxLate
      /\ pingStartDelayTimer.started => pingStartDelayTimer.due > -MaxLate
      /\ pingStartDelayTimer.due <= PingStartDelay
  BY <1>2, Durations DEF Tick, InTime, TypeOK
<1>6. /\ pingStartDelayTimer' \in Timer
      /\ pingStartDelayTimer'.singleShot = pingStartDelayTimer.singleShot
      /\ pingStartDelayTimer'.started = pingStartDelayTimer.started
      /\ pingStartDelayTimer.started =>
           pingStartDelayTimer'.due = pingStartDelayTimer.due - 1
      /\ ~pingStartDelayTimer.started =>
           pingStartDelayTimer'.due = pingStartDelayTimer.due
  BY <1>5, ElapseType DEF Tick
<1>7. /\ pingTimer \in Timer /\ pingTimer.due \in Int
      /\ pingTimer.due >= -MaxLate
      /\ pingTimer.started => pingTimer.due > -MaxLate
      /\ pingTimer.due <= PingInterval
  BY <1>2, Durations DEF Tick, InTime, TypeOK
<1>8. /\ pingTimer' \in Timer
      /\ pingTimer'.singleShot = pingTimer.singleShot
      /\ pingTimer'.interval = pingTimer.interval
      /\ pingTimer'.started = pingTimer.started
      /\ pingTimer.started => pingTimer'.due = pingTimer.due - 1
      /\ ~pingTimer.started => pingTimer'.due = pingTimer.due
  BY <1>7, ElapseType DEF Tick
<1>9. silence \in Nat /\ lost \in 0 .. MaxLost /\ pongs \subseteq 0 .. MaxRoundTrip
  BY <1>2 DEF TypeOK
<1>10. TypeOK'
  <2>1. connectivityCheckTimer'.due \in -MaxLate .. CheckInterval
    BY <1>3, <1>4, Durations
  <2>2. pingStartDelayTimer'.due \in -MaxLate .. PingStartDelay
    BY <1>5, <1>6, Durations
  <2>3. pingTimer'.due \in -MaxLate .. PingInterval
    BY <1>7, <1>8, Durations
  <2>4. \A d \in pongs : d - 1 \in 0 .. MaxRoundTrip
    BY <1>1, <1>9, Durations
  <2>5. pongs' \subseteq 0 .. MaxRoundTrip
    BY <1>1, <2>4
  <2>6. silence' \in Nat
    BY <1>1, <1>9
  <2>7. QED
    BY <1>1, <1>2, <1>4, <1>6, <1>8, <2>1, <2>2, <2>3, <2>5, <2>6 DEF TypeOK
<1>11. TimersInv'
  BY <1>2, <1>4, <1>6, <1>8 DEF TimersInv
<1>12. SilenceInv'
  BY <1>1, <1>2, <1>3, <1>4, <1>9, Durations DEF SilenceInv, LossNoticed
<1>13. NoFalseAlarm'
  BY <1>1, <1>2 DEF NoFalseAlarm
<1>14. PingInv'
  <2>1. channel = "connecting" => silence' <= OpenBy
    BY <1>1, <1>9, Durations
  <2>2. channel # "open" => pongs' = {}
    BY <1>1, <1>2 DEF PingInv
  <2>3. ASSUME pingStartDelayTimer'.started
        PROVE  /\ silence' + pingStartDelayTimer'.due <= PingStartDelay
               /\ pongs' = {}
    <3>1. pingStartDelayTimer.started
      BY <1>6, <2>3
    <3>2. silence + pingStartDelayTimer.due <= PingStartDelay /\ pongs = {}
      BY <1>2, <3>1 DEF PingInv
    <3>3. QED
      BY <1>1, <1>5, <1>6, <1>9, <3>1, <3>2, Durations
  <2>4. ASSUME channel = "open", pongs' = {}, pingTimer'.started
        PROVE  silence' + pingTimer'.due <= Wait + lost' * Step + PingInterval
    <3>1. pongs = {} /\ pingTimer.started
      BY <1>1, <1>8, <2>4
    <3>2. silence + pingTimer.due <= Wait + lost * Step + PingInterval
      BY <1>2, <2>4, <3>1 DEF PingInv
    <3>3. silence' + pingTimer'.due = silence + pingTimer.due
      BY <1>1, <1>7, <1>8, <1>9, <3>1
    <3>4. QED
      BY <1>1, <3>2, <3>3
  <2>5. ASSUME pongs' # {}
        PROVE  \E d \in pongs' : silence' + d < ConnectionTimeout
    <3>1. pongs # {}
      BY <1>1, <2>5
    <3>2. PICK d \in pongs : silence + d < ConnectionTimeout
      BY <1>2, <3>1 DEF PingInv
    <3>3. d - 1 \in pongs' /\ d \in Int
      BY <1>1, <1>9
    <3>4. silence' + (d - 1) < ConnectionTimeout
      BY <1>1, <1>9, <3>2, <3>3, Durations
    <3>5. QED
      BY <3>3, <3>4
  <2>6. QED
    BY <1>1, <2>1, <2>2, <2>3, <2>4, <2>5 DEF PingInv
<1>15. QED
  BY <1>10, <1>11, <1>12, <1>13, <1>14 DEF CheckerInv

LEMMA CheckerNext == CheckerInv /\ [Next]_vars => CheckerInv'
<1> SUFFICES ASSUME CheckerInv, [Next]_vars PROVE CheckerInv'
  OBVIOUS
<1>1. CASE Open \/ Break
  BY <1>1, NetworkStep
<1>2. CASE ReceivePong \/ ReceiveData
  BY <1>2, ReceiveStep
<1>3. CASE StartPing
  BY <1>3, StartPingStep
<1>4. CASE SendPing
  BY <1>4, SendPingStep
<1>5. CASE CheckConnectivity
  BY <1>5, CheckConnectivityStep
<1>6. CASE Reinit
  BY <1>6, ReinitStep
<1>7. CASE Tick
  BY <1>7, TickStep
<1>8. CASE UNCHANGED vars
  BY <1>8 DEF vars, timers, CheckerInv, TypeOK, TimersInv, SilenceInv, LossNoticed,
              PingInv, NoFalseAlarm
<1>9. QED
  BY <1>1, <1>2, <1>3, <1>4, <1>5, <1>6, <1>7, <1>8 DEF Next

-----------------------------------------------------------------------------
(* The theorems.                                                           *)

\* In every reachable state the checker's invariant holds.
LEMMA CheckerInvariant == Spec => []CheckerInv
<1>1. QED
  BY CheckerInit, CheckerNext, PTL DEF Spec

\* The variables have their types: a timer that runs is never later than the
\* thread, and no delay grows (Timer.cpp, PeerConnectivityChecker.cpp).
THEOREM CheckerTyping == Spec => []TypeOK
<1>1. CheckerInv => TypeOK
  BY DEF CheckerInv
<1>2. QED
  BY <1>1, CheckerInvariant, PTL

\* Whatever the durations, as long as a pong fits between two checks
\* (TimingAssumption), _checkConnectivity reinitialises no channel that works.
THEOREM NeverFalseAlarm == Spec => []NoFalseAlarm
<1>1. CheckerInv => NoFalseAlarm
  BY DEF CheckerInv
<1>2. QED
  BY <1>1, CheckerInvariant, PTL

\* Whatever the durations, a connection on which nothing is received does not
\* outlive the timeout by more than one interval of _checkConnectivity.
THEOREM LossIsNoticed == Spec => []LossNoticed
<1>1. CheckerInv => LossNoticed
  BY DEF CheckerInv, SilenceInv
<1>2. QED
  BY <1>1, CheckerInvariant, PTL
=============================================================================
