---------------------------- MODULE JsonRpcProofs ----------------------------
(***************************************************************************)
(* Theorems about JsonRpc: who gets which answer, for any number of        *)
(* clients, addresses, requests and closed connections.                    *)
(***************************************************************************)
EXTENDS JsonRpc, TLAPS

-----------------------------------------------------------------------------
(* Messages under way, as sets.                                            *)

\* Only sendToPlayer has a receiver, and always has one.
RequestMessage ==
  [type : {"request"}, id : Nat, method : {"sendToPlayer"}, receiver : Client]
    \cup [type : {"request"}, id : Nat, method : Method \ {"sendToPlayer"},
          receiver : {None}]
Message ==
  RequestMessage \cup [type : {"response"}, id : Nat, asker : Client \cup {None}]

LEMMA AppendSet ==
  ASSUME NEW S, NEW q \in Seq(S), NEW m \in S
  PROVE  Append(q, m) \in Seq(S) /\ ToSet(Append(q, m)) = ToSet(q) \cup {m}
<1>1. /\ Append(q, m) \in Seq(S)
      /\ DOMAIN Append(q, m) = 1 .. Len(q) + 1
      /\ DOMAIN q = 1 .. Len(q)
      /\ Len(q) \in Nat
      /\ \A i \in 1 .. Len(q) : Append(q, m)[i] = q[i]
      /\ Append(q, m)[Len(q) + 1] = m
  OBVIOUS
<1>2. 1 .. Len(q) + 1 = (1 .. Len(q)) \cup {Len(q) + 1}
  BY <1>1
<1>3. QED
  BY <1>1, <1>2 DEF ToSet

LEMMA TailSet ==
  ASSUME NEW S, NEW q \in Seq(S), q # <<>>
  PROVE  /\ Head(q) \in ToSet(q) /\ Head(q) \in S
         /\ Tail(q) \in Seq(S) /\ ToSet(Tail(q)) \subseteq ToSet(q)
         /\ \A x \in ToSet(q) : x = Head(q) \/ x \in ToSet(Tail(q))
<1>1. /\ Head(q) = q[1] /\ 1 \in DOMAIN q /\ Head(q) \in S
      /\ Tail(q) \in Seq(S)
      /\ \A i \in DOMAIN Tail(q) : i + 1 \in DOMAIN q /\ Tail(q)[i] = q[i + 1]
  OBVIOUS
<1>2. ASSUME NEW i \in DOMAIN q, i # 1
      PROVE  i - 1 \in DOMAIN Tail(q) /\ Tail(q)[i - 1] = q[i]
  BY <1>2
<1>3. ToSet(Tail(q)) \subseteq ToSet(q)
  BY <1>1 DEF ToSet
<1>4. ASSUME NEW x \in ToSet(q) PROVE x = Head(q) \/ x \in ToSet(Tail(q))
  <2>1. PICK i \in DOMAIN q : x = q[i]
    BY DEF ToSet
  <2>2. CASE i = 1
    BY <1>1, <2>1, <2>2
  <2>3. CASE i # 1
    BY <1>2, <2>1, <2>3 DEF ToSet
  <2>4. QED
    BY <2>2, <2>3
<1>5. Head(q) \in ToSet(q)
  BY <1>1 DEF ToSet
<1>6. QED
  BY <1>1, <1>3, <1>4, <1>5

-----------------------------------------------------------------------------
(* The invariant.                                                          *)

Types ==
  /\ socket \in [Client -> Socket \cup {None}]
  /\ peer \in [Socket -> Client \cup {None}]
  /\ toServer \in [Socket -> Seq(Message)]
  /\ toClient \in [Socket -> Seq(Message)]
  /\ asked \in [Client -> Seq(Method)]
  /\ left \in Seq(Client)

\* The socket a client has is its own; a client whose address is not free yet
\* although it has another or none has left.
Addresses ==
  /\ \A c \in Client : socket[c] # None => peer[socket[c]] = c
  /\ \A s \in Socket :
       peer[s] # None /\ socket[peer[s]] # s => peer[s] \in ToSet(left)

\* What arrives at an address is from the client the server has there.
FromPeer ==
  \A s \in Socket :
    /\ toServer[s] # <<>> => peer[s] # None
    /\ \A m \in ToSet(toServer[s]) :
         m.type = "request" => m.id < Len(asked[peer[s]])

\* The client that asked is at this address, or has left.
Own(s, asker) == asker = peer[s] \/ asker \in ToSet(left)

Relayed ==
  /\ currentId \in Nat
  /\ \A i \in DOMAIN current :
       /\ i \in Nat /\ i < currentId
       /\ current[i].socket \in Socket
       /\ current[i].asker \in Client
       /\ current[i].id \in Nat
       /\ current[i].id < Len(asked[current[i].asker])
       /\ Own(current[i].socket, current[i].asker)

\* A callback is called once by an answer and once by a failed send.
Called ==
  /\ pending \in [Client -> SUBSET Id]
  /\ calls \in [Client -> [Id -> 0 .. 2]]
  /\ \A c \in Client : \A i \in Id :
       /\ i \in pending[c] => i < Len(asked[c]) /\ calls[c][i] <= 1
       /\ i >= Len(asked[c]) => calls[c][i] = 0

RpcInv ==
  /\ Types
  /\ Addresses
  /\ FromPeer
  /\ Relayed
  /\ AnswersMatch
  /\ Called

LEMMA InvSuffices == RpcInv => TypeOK /\ AnswersMatch
  BY DEF RpcInv, Types, Relayed, Called, TypeOK

LEMMA InitInv == Init => RpcInv
<1> SUFFICES ASSUME Init PROVE RpcInv
  OBVIOUS
<1>1. ToSet(<<>>) = {}
  BY DEF ToSet
<1>2. Types /\ Addresses
  BY JsonRpcAssumption DEF Init, Types, Addresses
<1>3. FromPeer /\ AnswersMatch
  BY <1>1 DEF Init, FromPeer, AnswersMatch
<1>4. Relayed
  BY DEF Init, Relayed
<1>5. Called
  BY JsonRpcAssumption DEF Init, Called, Id
<1>6. QED
  BY <1>2, <1>3, <1>4, <1>5 DEF RpcInv

-----------------------------------------------------------------------------
(* The connections.                                                        *)

LEMMA ConnectInv ==
  ASSUME RpcInv, NEW c \in Client, Connect(c)
  PROVE  RpcInv'
<1>1. PICK s \in Socket :
        /\ peer[s] = None
        /\ socket' = [socket EXCEPT ![c] = s]
        /\ peer' = [peer EXCEPT ![s] = c]
        /\ toClient' = [toClient EXCEPT ![s] = <<>>]
  BY DEF Connect
<1>2. /\ socket[c] = None
      /\ UNCHANGED <<toServer, asked, pending, calls, current, currentId, left>>
  BY DEF Connect
<1>3. Types'
  BY <1>1, <1>2 DEF RpcInv, Types
<1>4. /\ \A d \in Client : d # None
      /\ \A t \in Socket : t # None
  BY JsonRpcAssumption
<1>5. Addresses'
  <2>1. ASSUME NEW d \in Client, socket'[d] # None
        PROVE  peer'[socket'[d]] = d
    BY <1>1, <1>4, <2>1 DEF RpcInv, Types, Addresses
  <2>2. ASSUME NEW t \in Socket, peer'[t] # None, socket'[peer'[t]] # t
        PROVE  peer'[t] \in ToSet(left)
    <3>1. t # s /\ peer'[t] = peer[t] /\ peer[t] \in Client
      BY <1>1, <2>2 DEF RpcInv, Types
    <3>2. socket[peer[t]] # t
      BY <1>1, <1>2, <1>4, <2>2, <3>1 DEF RpcInv, Types
    <3>3. QED
      BY <2>2, <3>1, <3>2 DEF RpcInv, Addresses
  <2>3. QED
    BY <1>2, <2>1, <2>2 DEF Addresses
<1>6. FromPeer'
  <2>1. toServer[s] = <<>>
    BY <1>1 DEF RpcInv, FromPeer
  <2>2. ToSet(<<>>) = {}
    BY DEF ToSet
  <2>3. QED
    BY <1>1, <1>2, <1>4, <2>1, <2>2 DEF RpcInv, Types, FromPeer
<1>7. Relayed'
  <2>1. \A t \in Socket, a \in Client : Own(t, a) => Own(t, a)'
    BY <1>1, <1>2, <1>4, JsonRpcAssumption DEF Own, RpcInv, Types
  <2>2. QED
    BY <1>2, <2>1 DEF RpcInv, Relayed
<1>8. AnswersMatch'
  <2>1. ToSet(<<>>) = {}
    BY DEF ToSet
  <2>2. QED
    BY <1>1, <1>2, <2>1 DEF RpcInv, Types, AnswersMatch
<1>9. Called'
  BY <1>2 DEF RpcInv, Called
<1>10. QED
  BY <1>3, <1>5, <1>6, <1>7, <1>8, <1>9 DEF RpcInv

LEMMA LeaveInv ==
  ASSUME RpcInv, NEW c \in Client, Leave(c)
  PROVE  RpcInv'
<1>1. /\ socket[c] # None
      /\ left' = Append(left, c)
      /\ socket' = [socket EXCEPT ![c] = None]
      /\ toClient' = [toClient EXCEPT ![socket[c]] = <<>>]
      /\ UNCHANGED <<peer, toServer, asked, pending, calls, current, currentId>>
  BY DEF Leave
<1>2. left' \in Seq(Client) /\ ToSet(left') = ToSet(left) \cup {c}
  BY <1>1, AppendSet DEF RpcInv, Types
<1>3. Types'
  BY <1>1, <1>2 DEF RpcInv, Types
<1>4. Addresses'
  BY <1>1, <1>2 DEF RpcInv, Types, Addresses
<1>5. FromPeer'
  BY <1>1 DEF RpcInv, FromPeer
<1>6. Relayed'
  BY <1>1, <1>2 DEF RpcInv, Relayed, Own
<1>7. AnswersMatch'
  <2>1. ToSet(<<>>) = {}
    BY DEF ToSet
  <2>2. QED
    BY <1>1, <1>2, <2>1 DEF RpcInv, Types, AnswersMatch
<1>8. Called'
  BY <1>1 DEF RpcInv, Called
<1>9. QED
  BY <1>3, <1>4, <1>5, <1>6, <1>7, <1>8 DEF RpcInv

LEMMA OnClientDisconnectInv ==
  ASSUME RpcInv, NEW s \in Socket, OnClientDisconnect(s)
  PROVE  RpcInv'
<1>1. /\ peer[s] # None
      /\ ~Open(s)
      /\ toServer[s] = <<>>
      /\ peer' = [peer EXCEPT ![s] = None]
      /\ UNCHANGED <<socket, toServer, toClient, asked, pending, calls, current,
                     currentId, left>>
  BY DEF OnClientDisconnect
<1>2. peer[s] \in ToSet(left) /\ socket[peer[s]] # s
  BY <1>1 DEF RpcInv, Addresses, Open
<1>3. Types'
  BY <1>1 DEF RpcInv, Types
<1>4. Addresses'
  BY <1>1, <1>2, JsonRpcAssumption DEF RpcInv, Types, Addresses
<1>5. FromPeer'
  <2>1. ToSet(<<>>) = {}
    BY DEF ToSet
  <2>2. QED
    BY <1>1, <2>1 DEF RpcInv, Types, FromPeer
<1>6. Relayed'
  BY <1>1, <1>2 DEF RpcInv, Types, Relayed, Own
<1>7. AnswersMatch'
  BY <1>1, <1>2 DEF RpcInv, Types, AnswersMatch
<1>8. Called'
  BY <1>1 DEF RpcInv, Called
<1>9. QED
  BY <1>3, <1>4, <1>5, <1>6, <1>7, <1>8 DEF RpcInv

-----------------------------------------------------------------------------
(* The clients.                                                            *)

\* A client sends over the socket it has.
LEMMA ClientSends ==
  ASSUME RpcInv, NEW c \in Client, socket[c] # None, NEW m \in Message,
         toServer' = [toServer EXCEPT ![socket[c]] = Append(@, m)],
         UNCHANGED peer,
         asked' \in [Client -> Seq(Method)],
         \A d \in Client : Len(asked[d]) <= Len(asked'[d]),
         m.type = "request" => m.id < Len(asked'[c])
  PROVE  toServer' \in [Socket -> Seq(Message)] /\ FromPeer'
<1> DEFINE s == socket[c]
<1>1. s \in Socket /\ peer[s] = c /\ c # None
  BY JsonRpcAssumption DEF RpcInv, Types, Addresses
<1>2. /\ Append(toServer[s], m) \in Seq(Message)
      /\ ToSet(Append(toServer[s], m)) = ToSet(toServer[s]) \cup {m}
  BY <1>1, AppendSet DEF RpcInv, Types
<1>3. \A t \in Socket :
        toServer'[t] = IF t = s THEN Append(toServer[s], m) ELSE toServer[t]
  BY <1>1 DEF RpcInv, Types
<1>4. \A t \in Socket : toServer'[t] # <<>> => peer'[t] # None
  BY <1>1, <1>3 DEF RpcInv, FromPeer
<1>5. ASSUME NEW t \in Socket, NEW x \in ToSet(toServer[t]), x.type = "request"
      PROVE  x.id < Len(asked'[peer[t]])
  <2>1. toServer[t] # <<>>
    BY <1>5 DEF ToSet
  <2>2. peer[t] \in Client
    BY <2>1 DEF RpcInv, Types, FromPeer
  <2>3. x \in Message /\ x.id \in Nat
    BY <1>5 DEF RpcInv, Types, ToSet, Message, RequestMessage
  <2>4. x.id < Len(asked[peer[t]])
    BY <1>5 DEF RpcInv, FromPeer
  <2>5. Len(asked[peer[t]]) \in Nat /\ Len(asked'[peer[t]]) \in Nat
    BY <2>2 DEF RpcInv, Types
  <2>6. QED
    BY <2>2, <2>3, <2>4, <2>5
<1>6. \A t \in Socket : \A x \in ToSet(toServer'[t]) :
        x.type = "request" => x.id < Len(asked'[peer'[t]])
  BY <1>1, <1>2, <1>3, <1>5
<1>7. QED
  BY <1>2, <1>3, <1>4, <1>6 DEF RpcInv, Types, FromPeer

LEMMA SendRequestInv ==
  ASSUME RpcInv, NEW c \in Client, NEW method \in Method,
         NEW receiver,
         method = "sendToPlayer" => receiver \in Client,
         method # "sendToPlayer" => receiver = None,
         SendRequest(c, method, receiver)
  PROVE  RpcInv'
<1> DEFINE id == Len(asked[c])
<1>1. /\ id < MaxRequests
      /\ asked' = [asked EXCEPT ![c] = Append(@, method)]
      /\ pending' = [pending EXCEPT ![c] = @ \cup {id}]
      /\ UNCHANGED <<socket, peer, toClient, current, currentId, left>>
  BY DEF SendRequest
<1>2. \/ /\ socket[c] = None
         /\ calls' = [calls EXCEPT ![c][id] = @ + 1]
         /\ UNCHANGED toServer
      \/ /\ socket[c] # None
         /\ toServer' = [toServer EXCEPT ![socket[c]] =
                           Append(@, Request(id, method, receiver))]
         /\ UNCHANGED calls
  BY DEF SendRequest
<1>3. /\ asked' \in [Client -> Seq(Method)]
      /\ Len(asked'[c]) = id + 1
      /\ \A d \in Client \ {c} : asked'[d] = asked[d]
      /\ id \in Nat /\ id \in Id
      /\ \A d \in Client : Len(asked[d]) \in Nat
  BY <1>1, JsonRpcAssumption DEF RpcInv, Types, Id
<1>4. \A d \in Client : Len(asked[d]) <= Len(asked'[d])
  BY <1>3
<1>5. toServer' \in [Socket -> Seq(Message)] /\ FromPeer'
  <2>1. CASE UNCHANGED toServer
    <3>1. ASSUME NEW t \in Socket, NEW x \in ToSet(toServer[t]),
                 x.type = "request"
          PROVE  x.id < Len(asked'[peer[t]])
      <4>1. toServer[t] # <<>>
        BY <3>1 DEF ToSet
      <4>2. peer[t] \in Client
        BY <4>1 DEF RpcInv, Types, FromPeer
      <4>3. x.id \in Nat
        BY <3>1 DEF RpcInv, Types, ToSet, Message, RequestMessage
      <4>4. x.id < Len(asked[peer[t]])
        BY <3>1 DEF RpcInv, FromPeer
      <4>5. Len(asked'[peer[t]]) \in Nat
        BY <1>3, <4>2
      <4>6. QED
        BY <1>3, <1>4, <4>2, <4>3, <4>4, <4>5
    <3>2. QED
      BY <1>1, <2>1, <3>1 DEF RpcInv, Types, FromPeer
  <2>2. CASE /\ socket[c] # None
             /\ toServer' = [toServer EXCEPT ![socket[c]] =
                               Append(@, Request(id, method, receiver))]
    <3>1. /\ Request(id, method, receiver) \in Message
          /\ Request(id, method, receiver).id < Len(asked'[c])
      BY <1>3 DEF Request, Message, RequestMessage
    <3>2. QED
      BY <1>1, <1>3, <1>4, <2>2, <3>1, ClientSends
  <2>3. QED
    BY <1>2, <2>1, <2>2
<1>6. Types' /\ Addresses'
  BY <1>1, <1>3, <1>5 DEF RpcInv, Types, Addresses
<1>7. Relayed'
  <2>1. ASSUME NEW i \in DOMAIN current
        PROVE  current[i].id < Len(asked'[current[i].asker])
    <3>1. current[i].asker \in Client /\ current[i].id \in Nat
      BY DEF RpcInv, Relayed
    <3>2. current[i].id < Len(asked[current[i].asker])
      BY DEF RpcInv, Relayed
    <3>3. QED
      BY <1>3, <1>4, <3>1, <3>2
  <2>2. QED
    BY <1>1, <2>1 DEF RpcInv, Relayed, Own
<1>8. AnswersMatch'
  BY <1>1 DEF RpcInv, AnswersMatch
<1>9. Called'
  <2>1. calls[c][id] = 0
    BY <1>3 DEF RpcInv, Called
  <2>2. /\ pending' \in [Client -> SUBSET Id]
        /\ calls' \in [Client -> [Id -> 0 .. 2]]
    <3>1. /\ pending \in [Client -> SUBSET Id]
          /\ calls \in [Client -> [Id -> 0 .. 2]]
      BY DEF RpcInv, Called
    <3>2. pending' \in [Client -> SUBSET Id]
      BY <1>1, <1>3, <3>1
    <3>3. CASE UNCHANGED calls
      BY <3>1, <3>2, <3>3
    <3>4. CASE calls' = [calls EXCEPT ![c][id] = @ + 1]
      <4>1. calls' = [calls EXCEPT ![c] = [calls[c] EXCEPT ![id] = 1]]
        BY <1>3, <2>1, <3>4
      <4>2. [calls[c] EXCEPT ![id] = 1] \in [Id -> 0 .. 2]
        <5>1. calls[c] \in [Id -> 0 .. 2] /\ 1 \in 0 .. 2
          BY <3>1
        <5>2. QED
          BY <5>1
      <4>3. QED
        BY <3>1, <3>2, <4>1, <4>2
    <3>5. QED
      BY <1>2, <3>3, <3>4
  <2>3. ASSUME NEW d \in Client, NEW i \in Id, d = c /\ i = id
        PROVE  calls'[d][i] <= 1
    BY <1>2, <1>3, <2>1, <2>3 DEF RpcInv, Called
  <2>4. ASSUME NEW d \in Client, NEW i \in Id, d # c \/ i # id
        PROVE  calls'[d][i] = calls[d][i] /\ (i \in pending'[d] <=> i \in pending[d])
    BY <1>1, <1>2, <1>3, <2>4 DEF RpcInv, Called
  <2>5. \A i \in Id : i \in Nat
    BY JsonRpcAssumption DEF Id
  <2>6. ASSUME NEW d \in Client, NEW i \in Id
        PROVE  /\ i \in pending'[d] => i < Len(asked'[d]) /\ calls'[d][i] <= 1
               /\ i >= Len(asked'[d]) => calls'[d][i] = 0
    <3>1. CASE d = c /\ i = id
      BY <1>3, <2>3, <2>5, <3>1
    <3>2. CASE d # c \/ i # id
      <4>1. Len(asked[d]) \in Nat /\ Len(asked'[d]) \in Nat
        BY <1>3
      <4>2. /\ i \in pending[d] => i < Len(asked[d]) /\ calls[d][i] <= 1
            /\ i >= Len(asked[d]) => calls[d][i] = 0
        BY DEF RpcInv, Called
      <4>3. QED
        BY <1>3, <1>4, <2>4, <2>5, <3>2, <4>1, <4>2
    <3>3. QED
      BY <3>1, <3>2
  <2>7. QED
    BY <2>2, <2>6 DEF Called
<1>10. QED
  BY <1>5, <1>6, <1>7, <1>8, <1>9 DEF RpcInv

LEMMA ClientReadsInv ==
  ASSUME RpcInv, NEW c \in Client, ClientReads(c)
  PROVE  RpcInv'
<1> DEFINE s == socket[c]
           m == Head(toClient[s])
<1>1. /\ s # None
      /\ toClient[s] # <<>>
      /\ toClient' = [toClient EXCEPT ![s] = Tail(@)]
      /\ UNCHANGED <<socket, peer, asked, current, currentId, left>>
  BY DEF ClientReads
<1>2. \/ /\ m.type = "request"
         /\ toServer' = [toServer EXCEPT ![s] = Append(@, Response(m.id, None))]
         /\ UNCHANGED <<pending, calls>>
      \/ /\ m.type = "response"
         /\ pending' = [pending EXCEPT ![c] = @ \ {m.id}]
         /\ calls' = IF m.id \in pending[c]
                     THEN [calls EXCEPT ![c][m.id] = @ + 1] ELSE calls
         /\ UNCHANGED toServer
  BY DEF ClientReads
<1>3. s \in Socket
  BY <1>1 DEF RpcInv, Types
<1>4. /\ m \in Message
      /\ Tail(toClient[s]) \in Seq(Message)
      /\ ToSet(Tail(toClient[s])) \subseteq ToSet(toClient[s])
  BY <1>1, <1>3, TailSet DEF RpcInv, Types
<1>5. toServer' \in [Socket -> Seq(Message)] /\ FromPeer'
  <2>1. CASE UNCHANGED toServer
    BY <1>1, <2>1 DEF RpcInv, Types, FromPeer
  <2>2. CASE toServer' = [toServer EXCEPT ![s] = Append(@, Response(m.id, None))]
    <3>1. m.id \in Nat
      BY <1>4 DEF Message, RequestMessage
    <3>2. /\ Response(m.id, None) \in Message
          /\ Response(m.id, None).type # "request"
      BY <3>1 DEF Response, Message
    <3>3. /\ asked' \in [Client -> Seq(Method)]
          /\ \A d \in Client : Len(asked[d]) <= Len(asked'[d])
      BY <1>1 DEF RpcInv, Types
    <3>4. QED
      BY <1>1, <2>2, <3>2, <3>3, ClientSends
  <2>3. QED
    BY <1>2, <2>1, <2>2
<1>6. Types' /\ Addresses'
  BY <1>1, <1>3, <1>4, <1>5 DEF RpcInv, Types, Addresses
<1>7. Relayed'
  BY <1>1 DEF RpcInv, Relayed, Own
<1>8. AnswersMatch'
  BY <1>1, <1>3, <1>4 DEF RpcInv, Types, AnswersMatch
<1>9. Called'
  <2>1. CASE UNCHANGED <<pending, calls>>
    BY <1>1, <2>1 DEF RpcInv, Called
  <2>2. CASE /\ pending' = [pending EXCEPT ![c] = @ \ {m.id}]
             /\ calls' = IF m.id \in pending[c]
                         THEN [calls EXCEPT ![c][m.id] = @ + 1] ELSE calls
    <3>1. CASE m.id \notin pending[c]
      BY <1>1, <2>2, <3>1 DEF RpcInv, Called
    <3>2. CASE m.id \in pending[c]
      <4>1. m.id \in Id /\ calls[c][m.id] \in 0 .. 1 /\ m.id < Len(asked[c])
        BY <3>2 DEF RpcInv, Called
      <4>2. /\ pending' \in [Client -> SUBSET Id]
            /\ calls' \in [Client -> [Id -> 0 .. 2]]
        BY <2>2, <3>2, <4>1 DEF RpcInv, Called
      <4>3. ASSUME NEW d \in Client, NEW i \in Id, d # c \/ i # m.id
            PROVE  /\ calls'[d][i] = calls[d][i]
                   /\ i \in pending'[d] <=> i \in pending[d]
        BY <2>2, <3>2, <4>1, <4>3 DEF RpcInv, Called
      <4>4. m.id \notin pending'[c]
        BY <2>2 DEF RpcInv, Called
      <4>5. ~(m.id >= Len(asked[c]))
        <5>1. m.id \in Nat /\ Len(asked[c]) \in Nat
          BY <4>1, JsonRpcAssumption DEF Id, RpcInv, Types
        <5>2. QED
          BY <4>1, <5>1
      <4>6. QED
        BY <1>1, <4>2, <4>3, <4>4, <4>5 DEF RpcInv, Called
    <3>3. QED
      BY <3>1, <3>2
  <2>3. QED
    BY <1>2, <2>1, <2>2
<1>10. QED
  BY <1>5, <1>6, <1>7, <1>8, <1>9 DEF RpcInv

-----------------------------------------------------------------------------
(* The server.                                                             *)

\* Only a request, or an answer for the client at the address, is sent.
LEMMA Sends ==
  ASSUME RpcInv, NEW s \in Socket, NEW m \in Message, SendMessage(s, m),
         UNCHANGED <<peer, left>>, m.type = "response" => Own(s, m.asker)
  PROVE  toClient' \in [Socket -> Seq(Message)] /\ AnswersMatch'
<1>1. /\ Append(toClient[s], m) \in Seq(Message)
      /\ ToSet(Append(toClient[s], m)) = ToSet(toClient[s]) \cup {m}
  BY AppendSet DEF RpcInv, Types
<1>2. \A t \in Socket :
        toClient'[t] \in {toClient[t], IF t = s THEN Append(toClient[t], m)
                                                ELSE toClient[t]}
  BY DEF SendMessage, RpcInv, Types
<1>3. toClient' \in [Socket -> Seq(Message)]
  BY <1>1 DEF SendMessage, RpcInv, Types
<1>4. ASSUME NEW t \in Socket, NEW x \in ToSet(toClient'[t]), x.type = "response"
      PROVE  x.asker = peer[t] \/ x.asker \in ToSet(left)
  <2>1. CASE x \in ToSet(toClient[t])
    BY <1>4, <2>1 DEF RpcInv, AnswersMatch
  <2>2. CASE x \notin ToSet(toClient[t])
    <3>1. toClient'[t] # toClient[t]
      BY <2>2, <1>4
    <3>2. t = s /\ toClient'[t] = Append(toClient[t], m)
      BY <1>2, <3>1
    <3>3. x = m
      BY <1>1, <1>4, <2>2, <3>2
    <3>4. QED
      BY <1>4, <3>2, <3>3 DEF Own
  <2>3. QED
    BY <2>1, <2>2
<1>5. QED
  BY <1>3, <1>4 DEF AnswersMatch

LEMMA ProcessRequestInv ==
  ASSUME RpcInv, NEW s \in Socket, NEW m \in Message, m.type = "request",
         peer[s] \in Client, m.id < Len(asked[peer[s]]),
         ProcessRequest(s, m), UNCHANGED <<peer, asked, left>>
  PROVE  toClient' \in [Socket -> Seq(Message)] /\ AnswersMatch' /\ Relayed'
<1>1. m.id \in Nat
  BY DEF Message, RequestMessage
<1>2. CASE Relay(s, m)
  <2>1. PICK t \in Socket :
          /\ current' = [i \in DOMAIN current \cup {currentId} |->
                           IF i \in DOMAIN current THEN current[i]
                           ELSE [socket |-> s, id |-> m.id, asker |-> peer[s]]]
          /\ currentId' = currentId + 1
          /\ SendMessage(t, Request(currentId, "status", None))
    BY <1>2 DEF Relay
  <2>2. currentId \in Nat
    BY DEF RpcInv, Relayed
  <2>3. /\ Request(currentId, "status", None) \in Message
        /\ Request(currentId, "status", None).type # "response"
    BY <2>2 DEF Request, Message, RequestMessage, Method
  <2>4. toClient' \in [Socket -> Seq(Message)] /\ AnswersMatch'
    BY <2>1, <2>3, Sends
  <2>5. ASSUME NEW i \in DOMAIN current, i # currentId
        PROVE  current'[i] = current[i]
    BY <2>1, <2>5
  <2>6. /\ currentId \notin DOMAIN current
        /\ current'[currentId] = [socket |-> s, id |-> m.id, asker |-> peer[s]]
        /\ DOMAIN current' = DOMAIN current \cup {currentId}
    BY <2>1, <2>2 DEF RpcInv, Relayed
  <2>7. Own(s, peer[s])
    BY DEF Own
  <2>8. Relayed'
    <3>1. ASSUME NEW i \in DOMAIN current
          PROVE  i \in Nat /\ i < currentId' /\ current'[i] = current[i]
      BY <2>1, <2>2, <2>5, <2>6 DEF RpcInv, Relayed
    <3>2. \A t2 \in Socket, a \in Client : Own(t2, a)' <=> Own(t2, a)
      BY DEF Own
    <3>3. currentId' \in Nat /\ currentId < currentId'
      BY <2>1, <2>2
    <3>4. QED
      BY <1>1, <2>2, <2>6, <2>7, <3>1, <3>2, <3>3 DEF RpcInv, Relayed
  <2>9. QED
    BY <2>4, <2>8
<1>3. CASE /\ SendMessage(s, Response(m.id, peer[s]))
           /\ UNCHANGED <<current, currentId>>
  <2>1. /\ Response(m.id, peer[s]) \in Message
        /\ Own(s, Response(m.id, peer[s]).asker)
    BY <1>1 DEF Response, Message, Own
  <2>2. toClient' \in [Socket -> Seq(Message)] /\ AnswersMatch'
    BY <1>3, <2>1, Sends
  <2>3. Relayed'
    BY <1>3 DEF RpcInv, Relayed, Own
  <2>4. QED
    BY <2>2, <2>3
<1>4. CASE UNCHANGED <<toClient, current, currentId>>
  BY <1>4 DEF RpcInv, Types, AnswersMatch, Relayed, Own
<1>5. QED
  BY <1>2, <1>3, <1>4 DEF ProcessRequest

LEMMA ProcessResponseInv ==
  ASSUME RpcInv, NEW m \in Message, ProcessResponse(m),
         UNCHANGED <<peer, asked, left>>
  PROVE  toClient' \in [Socket -> Seq(Message)] /\ AnswersMatch' /\ Relayed'
<1>1. toClient' \in [Socket -> Seq(Message)] /\ AnswersMatch'
  <2>1. CASE m.id \in DOMAIN current
    <3> DEFINE r == current[m.id]
    <3>1. /\ r.socket \in Socket /\ r.asker \in Client /\ r.id \in Nat
          /\ Own(r.socket, r.asker)
      BY <2>1 DEF RpcInv, Relayed
    <3>2. SendMessage(r.socket, Response(r.id, r.asker))
      BY <2>1 DEF ProcessResponse
    <3>3. /\ Response(r.id, r.asker) \in Message
          /\ Response(r.id, r.asker).asker = r.asker
      BY <3>1 DEF Response, Message
    <3>4. QED
      BY <3>1, <3>2, <3>3, Sends
  <2>2. CASE m.id \notin DOMAIN current
    BY <2>2 DEF ProcessResponse, RpcInv, Types, AnswersMatch
  <2>3. QED
    BY <2>1, <2>2
<1>2. Relayed'
  BY DEF ProcessResponse, RpcInv, Relayed, Own
<1>3. QED
  BY <1>1, <1>2

LEMMA ServerReadsInv ==
  ASSUME RpcInv, NEW s \in Socket, ServerReads(s)
  PROVE  RpcInv'
<1> DEFINE m == Head(toServer[s])
<1>1. /\ toServer[s] # <<>>
      /\ \/ m.type = "request" /\ ProcessRequest(s, m)
         \/ m.type = "response" /\ ProcessResponse(m)
      /\ toServer' = [toServer EXCEPT ![s] = Tail(@)]
      /\ UNCHANGED <<socket, peer, asked, pending, calls, left>>
  BY DEF ServerReads
<1>2. /\ m \in Message /\ m \in ToSet(toServer[s])
      /\ Tail(toServer[s]) \in Seq(Message)
      /\ ToSet(Tail(toServer[s])) \subseteq ToSet(toServer[s])
  BY <1>1, TailSet DEF RpcInv, Types
<1>3. /\ peer[s] \in Client
      /\ m.type = "request" => m.id < Len(asked[peer[s]])
  BY <1>1, <1>2 DEF RpcInv, Types, FromPeer
<1>4. toClient' \in [Socket -> Seq(Message)] /\ AnswersMatch' /\ Relayed'
  BY <1>1, <1>2, <1>3, ProcessRequestInv, ProcessResponseInv
<1>5. Types' /\ Addresses'
  BY <1>1, <1>2, <1>4 DEF RpcInv, Types, Addresses
<1>6. FromPeer'
  BY <1>1, <1>2 DEF RpcInv, Types, FromPeer
<1>7. Called'
  BY <1>1 DEF RpcInv, Called
<1>8. QED
  BY <1>4, <1>5, <1>6, <1>7 DEF RpcInv

-----------------------------------------------------------------------------

LEMMA NextInv == RpcInv /\ [Next]_vars => RpcInv'
<1> SUFFICES ASSUME RpcInv, [Next]_vars PROVE RpcInv'
  OBVIOUS
<1>1. CASE UNCHANGED vars
  BY <1>1 DEF vars, RpcInv, Types, Addresses, FromPeer, Relayed, Own,
              AnswersMatch, Called
<1>2. ASSUME NEW c \in Client, NEW method \in Method \ {"sendToPlayer"},
             SendRequest(c, method, None)
      PROVE  RpcInv'
  BY <1>2, SendRequestInv
<1>3. ASSUME NEW c \in Client, NEW receiver \in Client \ {c},
             SendRequest(c, "sendToPlayer", receiver)
      PROVE  RpcInv'
  <2>1. "sendToPlayer" \in Method
    BY DEF Method
  <2>2. QED
    BY <1>3, <2>1, SendRequestInv
<1>4. QED
  BY <1>1, <1>2, <1>3, ConnectInv, LeaveInv, OnClientDisconnectInv,
     ClientReadsInv, ServerReadsInv DEF Next

LEMMA Invariance == Spec => []RpcInv
  BY InitInv, NextInv, PTL DEF Spec

\* Requests, callbacks and relayed requests keep their types, and a callback is
\* called twice at most, for any number of clients, addresses and requests.
THEOREM RpcTyping == Spec => []TypeOK
<1>1. RpcInv => TypeOK
  BY InvSuffices
<1>2. QED
  BY <1>1, Invariance, PTL

\* An answer is sent to the client that asked (_sendMessage to the socket of
\* the request), at once or through another client, unless the client that
\* asked has closed a connection.
THEOREM AnswersGoHome == Spec => []AnswersMatch
<1>1. RpcInv => AnswersMatch
  BY InvSuffices
<1>2. QED
  BY <1>1, Invariance, PTL

-----------------------------------------------------------------------------
(* No callback is forgotten while nobody leaves.                           *)

\* The server's request j is on its way to a client, or its answer is on its
\* way back.
Asking(j) ==
  \E s \in Socket :
    \/ \E x \in ToSet(toClient[s]) : x.type = "request" /\ x.id = j
    \/ \E x \in ToSet(toServer[s]) : x.type = "response" /\ x.id = j

\* The client's request i is on its way, relayed, or answered.
UnderWay(c, i) ==
  /\ socket[c] # None
  /\ \/ \E x \in ToSet(toServer[socket[c]]) :
          x.type = "request" /\ x.id = i /\ x.method = asked[c][i + 1]
     \/ \E x \in ToSet(toClient[socket[c]]) : x.type = "response" /\ x.id = i
     \/ \E j \in DOMAIN current :
          current[j].socket = socket[c] /\ current[j].id = i

Settles(c, i) ==
  calls[c][i] = 1 \/ asked[c][i + 1] = "broken" \/ UnderWay(c, i)

\* Nothing is sent to a connection that is closed.
Delivered == \A s \in Socket : toClient[s] # <<>> => Open(s)

Kept ==
  left = <<>> =>
    /\ \A j \in DOMAIN current : Asking(j)
    /\ \A c \in Client : \A i \in pending[c] : Settles(c, i)

KeptInv == RpcInv /\ Delivered /\ Kept

LEMMA KeptSuffices == KeptInv => NothingPending
<1> SUFFICES ASSUME KeptInv, left = <<>>,
                    \A s \in Socket : toServer[s] = <<>> /\ toClient[s] = <<>>
             PROVE  /\ DOMAIN current = {}
                    /\ \A c \in Client : \A i \in pending[c] :
                         calls[c][i] = 1 \/ asked[c][i + 1] = "broken"
  BY DEF NothingPending
<1>1. ToSet(<<>>) = {}
  BY DEF ToSet
<1>2. DOMAIN current = {}
  BY <1>1 DEF KeptInv, Kept, Asking
<1>3. ASSUME NEW c \in Client, NEW i \in pending[c] PROVE ~UnderWay(c, i)
  BY <1>1, <1>2 DEF UnderWay, KeptInv, RpcInv, Types
<1>4. QED
  BY <1>2, <1>3 DEF KeptInv, Kept, Settles

LEMMA InitKept == Init => Delivered /\ Kept
  BY DEF Init, Delivered, Kept

\* While nobody has left, who is connected has an open socket of its own.
LEMMA Opened ==
  ASSUME RpcInv, left = <<>>
  PROVE  /\ \A s \in Socket : peer[s] # None => Open(s) /\ peer[s] \in Client
         /\ \A c \in Client : socket[c] # None =>
              socket[c] \in Socket /\ Open(socket[c]) /\ peer[socket[c]] = c
<1>1. ToSet(<<>>) = {}
  BY DEF ToSet
<1>2. ASSUME NEW s \in Socket, peer[s] # None
      PROVE  Open(s) /\ peer[s] \in Client
  BY <1>1, <1>2 DEF RpcInv, Types, Addresses, Open
<1>3. ASSUME NEW c \in Client, socket[c] # None
      PROVE  socket[c] \in Socket /\ Open(socket[c]) /\ peer[socket[c]] = c
  BY <1>3, JsonRpcAssumption DEF RpcInv, Types, Addresses, Open
<1>4. QED
  BY <1>2, <1>3

LEMMA ConnectKept ==
  ASSUME KeptInv, NEW c \in Client, Connect(c)
  PROVE  Delivered' /\ Kept'
<1>1. PICK s \in Socket :
        /\ peer[s] = None
        /\ socket' = [socket EXCEPT ![c] = s]
        /\ peer' = [peer EXCEPT ![s] = c]
        /\ toClient' = [toClient EXCEPT ![s] = <<>>]
  BY DEF Connect
<1>2. /\ socket[c] = None
      /\ UNCHANGED <<toServer, asked, pending, calls, current, currentId, left>>
  BY DEF Connect
<1>3. toClient[s] = <<>>
  BY <1>1 DEF KeptInv, Delivered, Open
<1>4. toClient' = toClient
  BY <1>1, <1>3 DEF KeptInv, RpcInv, Types
<1>5. \A d \in Client \ {c} : socket'[d] = socket[d]
  BY <1>1 DEF KeptInv, RpcInv, Types
<1>6. Delivered'
  <2>1. ASSUME NEW t \in Socket, toClient[t] # <<>> PROVE Open(t)'
    <3>1. Open(t) /\ t # s
      BY <1>3, <2>1 DEF KeptInv, Delivered
    <3>2. peer'[t] = peer[t] /\ peer[t] \in Client
      BY <1>1, <3>1 DEF Open, KeptInv, RpcInv, Types
    <3>3. peer[t] # c
      BY <1>2, <3>1, JsonRpcAssumption DEF Open
    <3>4. QED
      BY <1>5, <3>1, <3>2, <3>3 DEF Open
  <2>2. QED
    BY <1>4, <2>1 DEF Delivered
<1>7. \A d \in Client : \A i : UnderWay(d, i) => UnderWay(d, i)'
  BY <1>2, <1>4, <1>5 DEF UnderWay
<1>8. \A j : Asking(j) => Asking(j)'
  BY <1>2, <1>4 DEF Asking
<1>9. Kept'
  BY <1>2, <1>7, <1>8 DEF KeptInv, Kept, Settles
<1>10. QED
  BY <1>6, <1>9

LEMMA LeaveKept ==
  ASSUME KeptInv, NEW c \in Client, Leave(c)
  PROVE  Delivered' /\ Kept'
<1>1. /\ left' = Append(left, c)
      /\ socket' = [socket EXCEPT ![c] = None]
      /\ toClient' = [toClient EXCEPT ![socket[c]] = <<>>]
      /\ socket[c] # None
      /\ UNCHANGED peer
  BY DEF Leave
<1>2. left' # <<>>
  <2>1. c \in ToSet(left')
    BY <1>1, AppendSet DEF KeptInv, RpcInv, Types
  <2>2. QED
    BY <2>1 DEF ToSet
<1>3. ASSUME NEW t \in Socket, toClient'[t] # <<>> PROVE Open(t)'
  <2>1. t # socket[c] /\ toClient[t] # <<>>
    BY <1>1, <1>3 DEF KeptInv, RpcInv, Types
  <2>2. Open(t)
    BY <2>1 DEF KeptInv, Delivered
  <2>3. peer[t] \in Client /\ peer[t] # c
    BY <2>1, <2>2 DEF Open, KeptInv, RpcInv, Types
  <2>4. QED
    BY <1>1, <2>2, <2>3 DEF Open, KeptInv, RpcInv, Types
<1>4. QED
  BY <1>2, <1>3 DEF Delivered, Kept

LEMMA OnClientDisconnectKept ==
  ASSUME KeptInv, NEW s \in Socket, OnClientDisconnect(s)
  PROVE  Delivered' /\ Kept'
<1>1. /\ peer[s] # None
      /\ ~Open(s)
      /\ peer' = [peer EXCEPT ![s] = None]
      /\ UNCHANGED <<socket, toClient, left>>
  BY DEF OnClientDisconnect
<1>2. left # <<>>
  BY <1>1, Opened DEF KeptInv
<1>3. ASSUME NEW t \in Socket, toClient[t] # <<>> PROVE Open(t)'
  <2>1. Open(t)
    BY <1>3 DEF KeptInv, Delivered
  <2>2. peer'[t] = peer[t]
    BY <1>1, <2>1 DEF KeptInv, RpcInv, Types
  <2>3. QED
    BY <1>1, <2>1, <2>2 DEF Open
<1>4. QED
  BY <1>1, <1>2, <1>3 DEF Delivered, Kept

LEMMA SendRequestKept ==
  ASSUME KeptInv, NEW c \in Client, NEW method \in Method, NEW receiver,
         SendRequest(c, method, receiver)
  PROVE  Delivered' /\ Kept'
<1> DEFINE id == Len(asked[c])
           m == Request(id, method, receiver)
<1>1. /\ asked' = [asked EXCEPT ![c] = Append(@, method)]
      /\ pending' = [pending EXCEPT ![c] = @ \cup {id}]
      /\ UNCHANGED <<socket, peer, toClient, current, left>>
  BY DEF SendRequest
<1>2. \/ /\ socket[c] = None
         /\ calls' = [calls EXCEPT ![c][id] = @ + 1]
         /\ UNCHANGED toServer
      \/ /\ socket[c] # None
         /\ toServer' = [toServer EXCEPT ![socket[c]] = Append(@, m)]
         /\ UNCHANGED calls
  BY DEF SendRequest
<1>3. Delivered'
  BY <1>1 DEF KeptInv, Delivered, Open
<1>4. /\ id \in Nat /\ id \in Id
      /\ asked'[c][id + 1] = method
      /\ \A d \in Client : \A i \in Id :
           i < Len(asked[d]) => asked'[d][i + 1] = asked[d][i + 1]
  <2>1. id \in Nat /\ id < MaxRequests
    BY DEF SendRequest, KeptInv, RpcInv, Types
  <2>2. id \in Id
    BY <2>1, JsonRpcAssumption DEF Id
  <2>3. asked[c] \in Seq(Method) /\ asked'[c] = Append(asked[c], method)
    BY <1>1 DEF KeptInv, RpcInv, Types
  <2>4. asked'[c][id + 1] = method
    BY <2>3
  <2>5. ASSUME NEW d \in Client, NEW i \in Id, i < Len(asked[d])
        PROVE  asked'[d][i + 1] = asked[d][i + 1]
    <3>1. i \in Nat
      BY JsonRpcAssumption DEF Id
    <3>2. CASE d = c
      BY <2>3, <2>5, <3>1, <3>2
    <3>3. CASE d # c
      BY <1>1, <3>3 DEF KeptInv, RpcInv, Types
    <3>4. QED
      BY <3>2, <3>3
  <2>6. QED
    BY <2>1, <2>2, <2>4, <2>5
<1>5. \A t \in Socket : ToSet(toServer[t]) \subseteq ToSet(toServer'[t])
  <2>1. CASE UNCHANGED toServer
    BY <2>1
  <2>2. CASE /\ socket[c] # None
             /\ toServer' = [toServer EXCEPT ![socket[c]] = Append(@, m)]
    <3> SUFFICES ASSUME NEW t \in Socket
                 PROVE  ToSet(toServer[t]) \subseteq ToSet(toServer'[t])
      OBVIOUS
    <3>1. toServer'[t] = toServer[t] \/ toServer'[t] = Append(toServer[t], m)
      BY <2>2 DEF KeptInv, RpcInv, Types
    <3>2. toServer[t] \in Seq(Message \cup {m})
      BY DEF KeptInv, RpcInv, Types
    <3>3. ToSet(Append(toServer[t], m)) = ToSet(toServer[t]) \cup {m}
      BY <3>2, AppendSet
    <3>4. QED
      BY <3>1, <3>3
  <2>3. QED
    BY <1>2, <2>1, <2>2
<1>6. \A j : Asking(j) => Asking(j)'
  BY <1>1, <1>5 DEF Asking
<1>7. ASSUME NEW d \in Client, NEW i \in pending[d], Settles(d, i), i # id \/ d # c
      PROVE  Settles(d, i)'
  <2>1. i \in Id /\ i < Len(asked[d])
    BY DEF KeptInv, RpcInv, Called
  <2>2. asked'[d][i + 1] = asked[d][i + 1]
    BY <1>4, <2>1
  <2>3. calls'[d][i] = calls[d][i]
    BY <1>2, <1>4, <1>7, <2>1 DEF KeptInv, RpcInv, Called
  <2>4. UnderWay(d, i) => UnderWay(d, i)'
    BY <1>1, <1>5, <2>2 DEF UnderWay, KeptInv, RpcInv, Types
  <2>5. QED
    BY <1>7, <2>2, <2>3, <2>4 DEF Settles
<1>8. ASSUME NEW i, i = id PROVE Settles(c, i)'
  <2>1. CASE /\ socket[c] = None
             /\ calls' = [calls EXCEPT ![c][id] = @ + 1]
    <3>1. calls[c][id] = 0
      BY <1>4 DEF KeptInv, RpcInv, Called
    <3>2. calls'[c][i] = 1
      BY <1>4, <1>8, <2>1, <3>1 DEF KeptInv, RpcInv, Called
    <3>3. QED
      BY <3>2 DEF Settles
  <2>2. CASE /\ socket[c] # None
             /\ toServer' = [toServer EXCEPT ![socket[c]] = Append(@, m)]
    <3>1. socket[c] \in Socket
      BY <2>2 DEF KeptInv, RpcInv, Types
    <3>2. toServer[socket[c]] \in Seq(Message \cup {m})
      BY <3>1 DEF KeptInv, RpcInv, Types
    <3>3. toServer'[socket[c]] = Append(toServer[socket[c]], m)
      BY <2>2, <3>1 DEF KeptInv, RpcInv, Types
    <3>4. m \in ToSet(toServer'[socket[c]])
      BY <3>2, <3>3, AppendSet
    <3>5. m.type = "request" /\ m.id = i /\ m.method = asked'[c][i + 1]
      BY <1>4, <1>8 DEF Request
    <3>6. UnderWay(c, i)'
      BY <1>1, <2>2, <3>4, <3>5 DEF UnderWay
    <3>7. QED
      BY <3>6 DEF Settles
  <2>3. QED
    BY <1>2, <2>1, <2>2
<1>9. Kept'
  <2> SUFFICES ASSUME left = <<>>
               PROVE  /\ \A j \in DOMAIN current : Asking(j)'
                      /\ \A d \in Client : \A i \in pending'[d] : Settles(d, i)'
    BY <1>1 DEF Kept
  <2>1. ASSUME NEW d \in Client, NEW i \in pending'[d] PROVE Settles(d, i)'
    <3>1. i \in pending[d] \/ (d = c /\ i = id)
      BY <1>1 DEF KeptInv, RpcInv, Called
    <3>2. QED
      BY <1>7, <1>8, <3>1 DEF KeptInv, Kept
  <2>2. QED
    BY <1>6, <2>1 DEF KeptInv, Kept
<1>10. QED
  BY <1>3, <1>9

LEMMA ClientReadsKept ==
  ASSUME KeptInv, NEW c \in Client, ClientReads(c)
  PROVE  Delivered' /\ Kept'
<1> DEFINE s == socket[c]
           m == Head(toClient[s])
           r == Response(m.id, None)
<1>1. /\ s # None
      /\ toClient[s] # <<>>
      /\ toClient' = [toClient EXCEPT ![s] = Tail(@)]
      /\ UNCHANGED <<socket, peer, asked, current, left>>
  BY DEF ClientReads
<1>2. \/ /\ m.type = "request"
         /\ toServer' = [toServer EXCEPT ![s] = Append(@, r)]
         /\ UNCHANGED <<pending, calls>>
      \/ /\ m.type = "response"
         /\ pending' = [pending EXCEPT ![c] = @ \ {m.id}]
         /\ calls' = IF m.id \in pending[c]
                     THEN [calls EXCEPT ![c][m.id] = @ + 1] ELSE calls
         /\ UNCHANGED toServer
  BY DEF ClientReads
<1>3. s \in Socket
  BY <1>1 DEF KeptInv, RpcInv, Types
<1>4. /\ toClient'[s] = Tail(toClient[s])
      /\ \A t \in Socket \ {s} : toClient'[t] = toClient[t]
      /\ \A x \in ToSet(toClient[s]) : x = m \/ x \in ToSet(toClient'[s])
      /\ m \in Message
  BY <1>1, <1>3, TailSet DEF KeptInv, RpcInv, Types
<1>5. Delivered'
  BY <1>1, <1>4 DEF KeptInv, Delivered, Open
<1>6. ASSUME left = <<>>, NEW d \in Client, d # c PROVE socket[d] # s
  BY <1>1, <1>6, Opened DEF KeptInv
<1>7. CASE /\ m.type = "request"
           /\ toServer' = [toServer EXCEPT ![s] = Append(@, r)]
           /\ UNCHANGED <<pending, calls>>
  <2>1. /\ toServer'[s] = Append(toServer[s], r)
        /\ \A t \in Socket \ {s} : toServer'[t] = toServer[t]
        /\ toServer[s] \in Seq(Message \cup {r})
    BY <1>3, <1>7 DEF KeptInv, RpcInv, Types
  <2>2. ToSet(toServer'[s]) = ToSet(toServer[s]) \cup {r}
    BY <2>1, AppendSet
  <2>3. r.type = "response" /\ r.id = m.id
    BY DEF Response
  <2>4. ASSUME NEW j, Asking(j) PROVE Asking(j)'
    <3>1. CASE \E t \in Socket : \E x \in ToSet(toServer[t]) :
                 x.type = "response" /\ x.id = j
      BY <2>1, <2>2, <3>1 DEF Asking
    <3>2. CASE \E t \in Socket : \E x \in ToSet(toClient[t]) :
                 x.type = "request" /\ x.id = j
      <4> PICK t \in Socket : \E x \in ToSet(toClient[t]) :
                                x.type = "request" /\ x.id = j
        BY <3>2
      <4>1. PICK x \in ToSet(toClient[t]) : x.type = "request" /\ x.id = j
        OBVIOUS
      <4>2. CASE t = s /\ x = m
        BY <1>3, <2>2, <2>3, <4>1, <4>2 DEF Asking
      <4>3. CASE t # s \/ x # m
        BY <1>4, <4>1, <4>3 DEF Asking
      <4>4. QED
        BY <4>2, <4>3
    <3>3. QED
      BY <2>4, <3>1, <3>2 DEF Asking
  <2>5. ASSUME NEW d \in Client, NEW i, UnderWay(d, i) PROVE UnderWay(d, i)'
    <3>1. socket[d] \in Socket /\ socket'[d] = socket[d]
      BY <1>1, <2>5 DEF UnderWay, KeptInv, RpcInv, Types
    <3>2. \A x \in ToSet(toClient[socket[d]]) :
            x.type = "response" => x \in ToSet(toClient'[socket[d]])
      BY <1>4, <1>7, <3>1
    <3>3. ToSet(toServer[socket[d]]) \subseteq ToSet(toServer'[socket[d]])
      BY <2>1, <2>2, <3>1
    <3>4. QED
      BY <1>1, <2>5, <3>1, <3>2, <3>3 DEF UnderWay
  <2>6. Kept'
    BY <1>1, <1>7, <2>4, <2>5 DEF KeptInv, Kept, Settles
  <2>7. QED
    BY <1>5, <2>6
<1>8. CASE /\ m.type = "response"
           /\ pending' = [pending EXCEPT ![c] = @ \ {m.id}]
           /\ calls' = IF m.id \in pending[c]
                       THEN [calls EXCEPT ![c][m.id] = @ + 1] ELSE calls
           /\ UNCHANGED toServer
  <2>1. ASSUME NEW j, Asking(j) PROVE Asking(j)'
    <3>1. \A t \in Socket : \A x \in ToSet(toClient[t]) :
            x.type = "request" => x \in ToSet(toClient'[t])
      BY <1>4, <1>8
    <3>2. QED
      BY <1>8, <2>1, <3>1 DEF Asking
  <2>2. ASSUME left = <<>>, NEW d \in Client, NEW i \in pending'[d]
        PROVE  Settles(d, i)'
    <3>1. i \in pending[d] /\ (d = c => i # m.id)
      BY <1>8, <2>2 DEF KeptInv, RpcInv, Called
    <3>2. Settles(d, i)
      BY <2>2, <3>1 DEF KeptInv, Kept
    <3>3. i \in Id
      BY <3>1 DEF KeptInv, RpcInv, Called
    <3>4. calls'[d][i] = calls[d][i]
      <4>1. calls \in [Client -> [Id -> 0 .. 2]]
        BY DEF KeptInv, RpcInv, Called
      <4>2. QED
        BY <1>8, <3>1, <3>3, <4>1
    <3>5. UnderWay(d, i) => UnderWay(d, i)'
      <4> SUFFICES ASSUME UnderWay(d, i) PROVE UnderWay(d, i)'
        OBVIOUS
      <4>1. socket[d] \in Socket
        BY DEF UnderWay, KeptInv, RpcInv, Types
      <4>2. \A x \in ToSet(toClient[socket[d]]) :
              x.id = i => x \in ToSet(toClient'[socket[d]])
        BY <1>4, <1>6, <2>2, <3>1, <4>1
      <4>3. QED
        BY <1>1, <1>8, <4>2 DEF UnderWay
    <3>6. QED
      BY <1>1, <3>2, <3>4, <3>5 DEF Settles
  <2>3. Kept'
    BY <1>1, <2>1, <2>2 DEF KeptInv, Kept
  <2>4. QED
    BY <1>5, <2>3
<1>9. QED
  BY <1>2, <1>7, <1>8

\* What is sent to an open socket is on its way, behind what was sent before.
LEMMA SendsKept ==
  ASSUME KeptInv, NEW s \in Socket, NEW m, SendMessage(s, m),
         UNCHANGED <<socket, peer>>
  PROVE  /\ Delivered'
         /\ \A t \in Socket : ToSet(toClient[t]) \subseteq ToSet(toClient'[t])
         /\ Open(s) => m \in ToSet(toClient'[s])
<1>1. toClient[s] \in Seq(Message \cup {m})
  BY DEF KeptInv, RpcInv, Types
<1>2. ToSet(Append(toClient[s], m)) = ToSet(toClient[s]) \cup {m}
  BY <1>1, AppendSet
<1>3. /\ toClient'[s] = IF Open(s) THEN Append(toClient[s], m) ELSE toClient[s]
      /\ \A t \in Socket \ {s} : toClient'[t] = toClient[t]
  BY DEF SendMessage, KeptInv, RpcInv, Types
<1>4. QED
  BY <1>2, <1>3 DEF KeptInv, Delivered, Open

\* The server has read m: all else it was sent is still there.
LEMMA ServerTakes ==
  ASSUME KeptInv, NEW s \in Socket, toServer[s] # <<>>,
         toServer' = [toServer EXCEPT ![s] = Tail(@)],
         NEW m, m = Head(toServer[s])
  PROVE  /\ m \in Message
         /\ \A t \in Socket : \A x \in ToSet(toServer[t]) :
              t # s \/ x # m => x \in ToSet(toServer'[t])
<1>1. /\ m \in Message
      /\ toServer'[s] = Tail(toServer[s])
      /\ \A t \in Socket \ {s} : toServer'[t] = toServer[t]
      /\ \A x \in ToSet(toServer[s]) : x = m \/ x \in ToSet(toServer'[s])
  BY TailSet DEF KeptInv, RpcInv, Types
<1>2. QED
  BY <1>1

\* No callback of the server goes, and each that comes has a request.
CurrentGrows ==
  /\ \A j \in DOMAIN current :
       j \in DOMAIN current' /\ current'[j] = current[j]
  /\ \A j \in DOMAIN current' : j \in DOMAIN current \/ Asking(j)'

\* A request is answered, relayed or, if its method throws, dropped.
LEMMA RequestKept ==
  ASSUME KeptInv, NEW s \in Socket, NEW m, m.type = "request",
         \A t \in Socket : \A x \in ToSet(toServer[t]) :
           t # s \/ x # m => x \in ToSet(toServer'[t]),
         UNCHANGED <<socket, asked, pending, calls, left>>,
         \A t \in Socket : ToSet(toClient[t]) \subseteq ToSet(toClient'[t]),
         left = <<>> => CurrentGrows,
         left = <<>> =>
           \A d \in Client : socket[d] = s /\ socket[d] # None =>
             m.method = "broken" \/ UnderWay(d, m.id)'
  PROVE  Kept'
<1> SUFFICES ASSUME left = <<>>
             PROVE  /\ \A j \in DOMAIN current' : Asking(j)'
                    /\ \A d \in Client : \A i \in pending[d] : Settles(d, i)'
  BY DEF Kept
<1>1. ASSUME NEW j, Asking(j) PROVE Asking(j)'
  BY <1>1 DEF Asking
<1>2. \A j \in DOMAIN current' : Asking(j)'
  BY <1>1 DEF KeptInv, Kept, CurrentGrows
<1>3. ASSUME NEW d \in Client, NEW i \in pending[d] PROVE Settles(d, i)'
  <2>1. Settles(d, i)
    BY DEF KeptInv, Kept
  <2>2. CASE UnderWay(d, i)
    <3>1. socket[d] # None /\ socket[d] \in Socket /\ socket'[d] = socket[d]
      BY <2>2 DEF UnderWay, KeptInv, RpcInv, Types
    <3>2. CASE \E x \in ToSet(toServer[socket[d]]) :
                 x.type = "request" /\ x.id = i /\ x.method = asked[d][i + 1]
      <4>1. PICK x \in ToSet(toServer[socket[d]]) :
              x.type = "request" /\ x.id = i /\ x.method = asked[d][i + 1]
        BY <3>2
      <4>2. CASE socket[d] # s \/ x # m
        BY <3>1, <4>1, <4>2 DEF UnderWay, Settles
      <4>3. CASE socket[d] = s /\ x = m
        BY <3>1, <4>1, <4>3 DEF Settles
      <4>4. QED
        BY <4>2, <4>3
    <3>3. CASE \E x \in ToSet(toClient[socket[d]]) :
                 x.type = "response" /\ x.id = i
      BY <3>1, <3>3 DEF UnderWay, Settles
    <3>4. CASE \E j \in DOMAIN current :
                 current[j].socket = socket[d] /\ current[j].id = i
      BY <3>1, <3>4 DEF UnderWay, Settles, CurrentGrows
    <3>5. QED
      BY <2>2, <3>2, <3>3, <3>4 DEF UnderWay
  <2>3. QED
    BY <2>1, <2>2 DEF Settles
<1>4. QED
  BY <1>2, <1>3

\* An answer to a relayed request becomes the answer to the request relayed.
LEMMA ResponseKept ==
  ASSUME KeptInv, NEW s \in Socket, NEW m \in Message, m.type = "response",
         \A t \in Socket : \A x \in ToSet(toServer[t]) :
           t # s \/ x # m => x \in ToSet(toServer'[t]),
         UNCHANGED <<socket, peer, asked, pending, calls, left>>,
         ProcessResponse(m)
  PROVE  Delivered' /\ Kept'
<1>1. /\ DOMAIN current' = DOMAIN current \ {m.id}
      /\ \A j \in DOMAIN current \ {m.id} : current'[j] = current[j]
  BY DEF ProcessResponse
<1>2. /\ Delivered'
      /\ \A t \in Socket : ToSet(toClient[t]) \subseteq ToSet(toClient'[t])
      /\ m.id \in DOMAIN current /\ Open(current[m.id].socket) =>
           \E x \in ToSet(toClient'[current[m.id].socket]) :
             x.type = "response" /\ x.id = current[m.id].id
  <2>1. CASE m.id \in DOMAIN current
    <3>1. PICK t \in Socket, n \in Nat, b \in Client :
            t = current[m.id].socket /\ n = current[m.id].id
              /\ b = current[m.id].asker
      BY <2>1 DEF KeptInv, RpcInv, Relayed
    <3>2. SendMessage(t, Response(n, b))
      BY <2>1, <3>1 DEF ProcessResponse
    <3>3. Response(n, b).type = "response" /\ Response(n, b).id = n
      BY DEF Response
    <3>4. QED
      BY <3>1, <3>2, <3>3, SendsKept
  <2>2. CASE m.id \notin DOMAIN current
    BY <2>2 DEF ProcessResponse, KeptInv, Delivered, Open
  <2>3. QED
    BY <2>1, <2>2
<1> SUFFICES ASSUME left = <<>>
             PROVE  /\ \A j \in DOMAIN current' : Asking(j)'
                    /\ \A d \in Client : \A i \in pending[d] : Settles(d, i)'
  BY <1>2 DEF Kept
<1>3. ASSUME NEW j \in DOMAIN current' PROVE Asking(j)'
  <2>1. Asking(j) /\ j # m.id
    BY <1>1 DEF KeptInv, Kept
  <2>2. QED
    BY <1>2, <2>1 DEF Asking
<1>4. ASSUME NEW d \in Client, NEW i \in pending[d] PROVE Settles(d, i)'
  <2>1. Settles(d, i)
    BY DEF KeptInv, Kept
  <2>2. CASE UnderWay(d, i)
    <3>1. socket[d] # None /\ socket[d] \in Socket /\ socket'[d] = socket[d]
      BY <2>2 DEF UnderWay, KeptInv, RpcInv, Types
    <3>2. CASE \E x \in ToSet(toServer[socket[d]]) :
                 x.type = "request" /\ x.id = i /\ x.method = asked[d][i + 1]
      BY <3>1, <3>2 DEF UnderWay, Settles
    <3>3. CASE \E x \in ToSet(toClient[socket[d]]) :
                 x.type = "response" /\ x.id = i
      BY <1>2, <3>1, <3>3 DEF UnderWay, Settles
    <3>4. CASE \E j \in DOMAIN current :
                 current[j].socket = socket[d] /\ current[j].id = i
      <4>1. PICK j \in DOMAIN current :
              current[j].socket = socket[d] /\ current[j].id = i
        BY <3>4
      <4>2. CASE j = m.id
        <5>1. Open(socket[d])
          BY <3>1, Opened DEF KeptInv
        <5>2. \E x \in ToSet(toClient'[socket[d]]) :
                x.type = "response" /\ x.id = i
          BY <1>2, <4>1, <4>2, <5>1
        <5>3. QED
          BY <3>1, <5>2 DEF UnderWay, Settles
      <4>3. CASE j # m.id
        BY <1>1, <3>1, <4>1, <4>3 DEF UnderWay, Settles
      <4>4. QED
        BY <4>2, <4>3
    <3>5. QED
      BY <2>2, <3>2, <3>3, <3>4 DEF UnderWay
  <2>3. QED
    BY <2>1, <2>2 DEF Settles
<1>5. QED
  BY <1>3, <1>4

LEMMA ServerReadsKept ==
  ASSUME KeptInv, NEW s \in Socket, ServerReads(s)
  PROVE  Delivered' /\ Kept'
<1>1. /\ toServer[s] # <<>>
      /\ \/ Head(toServer[s]).type = "request"
              /\ ProcessRequest(s, Head(toServer[s]))
         \/ Head(toServer[s]).type = "response"
              /\ ProcessResponse(Head(toServer[s]))
      /\ toServer' = [toServer EXCEPT ![s] = Tail(@)]
      /\ UNCHANGED <<socket, peer, asked, pending, calls, left>>
  BY DEF ServerReads
<1>2. PICK m : m = Head(toServer[s])
  OBVIOUS
<1>3. /\ m \in Message
      /\ \A t \in Socket : \A x \in ToSet(toServer[t]) :
           t # s \/ x # m => x \in ToSet(toServer'[t])
  BY <1>1, <1>2, ServerTakes
<1>4. peer[s] # None /\ peer[s] \in Client
  BY <1>1 DEF KeptInv, RpcInv, Types, FromPeer
<1>5. left = <<>> =>
        /\ Open(s)
        /\ \A d \in Client : socket[d] = s /\ socket[d] # None => d = peer[s]
  BY <1>4, Opened DEF KeptInv
<1>6. CASE m.type = "response" /\ ProcessResponse(m)
  BY <1>1, <1>3, <1>6, ResponseKept
<1>7. CASE m.type = "request" /\ Relay(s, m) /\ m.method = "sendToPlayer"
  <2>1. PICK t \in Socket :
          /\ peer[t] = m.receiver
          /\ current' = [i \in DOMAIN current \cup {currentId} |->
                           IF i \in DOMAIN current THEN current[i]
                           ELSE [socket |-> s, id |-> m.id, asker |-> peer[s]]]
          /\ SendMessage(t, Request(currentId, "status", None))
    BY <1>7 DEF Relay
  <2>2. PICK n : n = currentId
    OBVIOUS
  <2>3. /\ n \notin DOMAIN current
        /\ DOMAIN current' = DOMAIN current \cup {n}
        /\ \A j \in DOMAIN current : current'[j] = current[j]
        /\ current'[n] = [socket |-> s, id |-> m.id, asker |-> peer[s]]
    BY <2>1, <2>2 DEF KeptInv, RpcInv, Relayed
  <2>4. m.receiver \in Client
    BY <1>3, <1>7 DEF Message, RequestMessage
  <2>5. /\ Delivered'
        /\ \A t2 \in Socket : ToSet(toClient[t2]) \subseteq ToSet(toClient'[t2])
        /\ Open(t) => Request(n, "status", None) \in ToSet(toClient'[t])
    BY <1>1, <2>1, <2>2, SendsKept
  <2>6. CASE left = <<>>
    <3>1. Open(t)
      BY <2>1, <2>4, <2>6, Opened, JsonRpcAssumption DEF KeptInv
    <3>2. Request(n, "status", None).type = "request"
            /\ Request(n, "status", None).id = n
      BY DEF Request
    <3>3. Asking(n)'
      BY <2>5, <3>1, <3>2 DEF Asking
    <3>4. CurrentGrows
      BY <2>3, <3>3 DEF CurrentGrows
    <3>5. \A d \in Client : socket[d] = s /\ socket[d] # None => UnderWay(d, m.id)'
      BY <1>1, <2>3 DEF UnderWay
    <3>6. Kept'
      BY <1>1, <1>3, <1>7, <2>5, <3>4, <3>5, RequestKept
    <3>7. QED
      BY <2>5, <3>6
  <2>7. QED
    BY <1>1, <2>5, <2>6 DEF Kept
<1>8. CASE /\ m.type = "request"
           /\ SendMessage(s, Response(m.id, peer[s]))
           /\ UNCHANGED <<current, currentId>>
  <2>1. PICK b : b = peer[s]
    OBVIOUS
  <2>2. /\ Delivered'
        /\ \A t \in Socket : ToSet(toClient[t]) \subseteq ToSet(toClient'[t])
        /\ Open(s) => Response(m.id, b) \in ToSet(toClient'[s])
    BY <1>1, <1>8, <2>1, SendsKept
  <2>3. Response(m.id, b).type = "response" /\ Response(m.id, b).id = m.id
    BY DEF Response
  <2>4. left = <<>> =>
          \A d \in Client : socket[d] = s /\ socket[d] # None => UnderWay(d, m.id)'
    BY <1>1, <1>5, <2>2, <2>3 DEF UnderWay
  <2>5. CurrentGrows
    BY <1>8 DEF CurrentGrows
  <2>6. Kept'
    BY <1>1, <1>3, <1>8, <2>2, <2>4, <2>5, RequestKept
  <2>7. QED
    BY <2>2, <2>6
<1>9. CASE /\ m.type = "request"
           /\ m.method = "broken"
           /\ UNCHANGED <<toClient, current, currentId>>
  <2>1. Delivered'
    BY <1>1, <1>9 DEF KeptInv, Delivered, Open
  <2>2. CurrentGrows
    BY <1>9 DEF CurrentGrows
  <2>3. Kept'
    BY <1>1, <1>3, <1>9, <2>2, RequestKept
  <2>4. QED
    BY <2>1, <2>3
<1>10. QED
  BY <1>1, <1>2, <1>6, <1>7, <1>8, <1>9 DEF ProcessRequest

\* While no connection was ever closed and nothing is under way, the server
\* (_currentRequests) and the clients (mCurrentRequests) keep no callback
\* but those of requests that could not be sent or whose method threw.
THEOREM NoCallbackForgotten == Spec => []NothingPending
<1>1. Init => KeptInv
  BY InitInv, InitKept DEF KeptInv
<1>2. KeptInv /\ [Next]_vars => KeptInv'
  <2> SUFFICES ASSUME KeptInv, [Next]_vars PROVE KeptInv'
    OBVIOUS
  <2>1. RpcInv'
    BY NextInv DEF KeptInv
  <2>3. ASSUME NEW c \in Client, NEW method \in Method \ {"sendToPlayer"},
               SendRequest(c, method, None)
        PROVE  Delivered' /\ Kept'
    BY <2>3, SendRequestKept
  <2>4. ASSUME NEW c \in Client, NEW receiver \in Client \ {c},
               SendRequest(c, "sendToPlayer", receiver)
        PROVE  Delivered' /\ Kept'
    <3>1. "sendToPlayer" \in Method
      BY DEF Method
    <3>2. QED
      BY <2>4, <3>1, SendRequestKept
  <2>5. Delivered' /\ Kept'
    <3>1. CASE UNCHANGED vars
      BY <3>1 DEF vars, KeptInv, Delivered, Kept, Open, Settles, Asking,
                        UnderWay
    <3>2. CASE Next
      BY <2>3, <2>4, <3>2, ConnectKept, LeaveKept, OnClientDisconnectKept,
         ClientReadsKept, ServerReadsKept DEF Next
    <3>3. QED
      BY <3>1, <3>2
  <2>6. QED
    BY <2>1, <2>5 DEF KeptInv
<1>3. QED
  BY <1>1, <1>2, KeptSuffices, PTL DEF Spec
=============================================================================
