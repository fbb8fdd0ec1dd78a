------------------------------- MODULE JsonRpc -------------------------------
(***************************************************************************)
(* Requests and responses of JSON-RPC: the server's end (JsonRpc.cpp,      *)
(* JsonRpcServer.cpp) with the clients' (JsonRpcProtocol.cpp and           *)
(* JsonRpcQTcpSocket.cpp).  How messages are cut out of the byte stream is *)
(* JsonFraming; here a message arrives whole and in order.                 *)
(*                                                                         *)
(* Each end is one thread that processes one message at a time and keeps a *)
(* callback for each of its requests under the request's id.  The server   *)
(* answers at once, or, if the method has an asynchronous callback,        *)
(* whenever that calls back: the one asynchronous method relays the        *)
(* request to another client and answers with its answer.                  *)
(*                                                                         *)
(* The server knows a connection by the address of its socket object.  The *)
(* address is free again once the connection is closed, and may become the *)
(* next connection's while something still refers to it.                   *)
(***************************************************************************)
EXTENDS Naturals, Sequences, SequencesExt

CONSTANTS
  Client,       \* the clients
  Socket,       \* addresses of socket objects
  MaxRequests,  \* bound on the requests of each client
  MaxLeaves,    \* bound on the connections that are closed
  None          \* no client, no connection

ASSUME JsonRpcAssumption ==
  /\ MaxRequests \in Nat /\ MaxLeaves \in Nat
  /\ None \notin Client \cup Socket

Id == 0 .. MaxRequests - 1

VARIABLES
  socket,    \* the address the server has for the client's connection
  peer,      \* _connectedSockets: the client at the other end of each
  toServer,  \* messages to the server over each connection
  toClient,  \* messages from the server
  asked,     \* the methods of the client's requests so far, by id
  pending,   \* mCurrentRequests: the ids of the client's requests
  calls,     \* how often the callback of each has been called
  current,   \* _currentRequests: id -> where the relay has to answer
  currentId, \* _currentId
  left       \* the clients that closed a connection, in this order

vars == <<socket, peer, toServer, toClient, asked, pending, calls, current,
          currentId, left>>

Request(id, method, receiver) ==
  [type |-> "request", id |-> id, method |-> method, receiver |-> receiver]
\* asker: whose request is answered.
Response(id, asker) == [type |-> "response", id |-> id, asker |-> asker]

\* status has a synchronous callback, sendToPlayer the asynchronous one; the
\* callback of broken throws and absent has none.
Method == {"status", "sendToPlayer", "broken", "absent"}

TypeOK ==
  /\ socket \in [Client -> Socket \cup {None}]
  /\ peer \in [Socket -> Client \cup {None}]
  /\ asked \in [Client -> Seq(Method)]
  /\ \A c \in Client :
       /\ pending[c] \subseteq {i \in Id : i < Len(asked[c])}
       /\ \A i \in Id : calls[c][i] \in 0 .. 2
  /\ \A i \in DOMAIN current :
       /\ i < currentId
       /\ current[i].socket \in Socket
       /\ current[i].id < Len(asked[current[i].asker])
  /\ left \in Seq(Client)

Init ==
  /\ socket = [c \in Client |-> None]
  /\ peer = [s \in Socket |-> None]
  /\ toServer = [s \in Socket |-> <<>>]
  /\ toClient = [s \in Socket |-> <<>>]
  /\ asked = [c \in Client |-> <<>>]
  /\ pending = [c \in Client |-> {}]
  /\ calls = [c \in Client |-> [i \in Id |-> 0]]
  /\ current = <<>>
  /\ currentId = 0
  /\ left = <<>>

-----------------------------------------------------------------------------
(* The connections.                                                        *)

Open(s) == peer[s] # None /\ socket[peer[s]] = s

\* _onNewClient.
Connect(c) ==
  /\ socket[c] = None
  /\ \E s \in Socket :
       /\ peer[s] = None
       /\ socket' = [socket EXCEPT ![c] = s]
       /\ peer' = [peer EXCEPT ![s] = c]
       /\ toClient' = [toClient EXCEPT ![s] = <<>>]
  /\ UNCHANGED <<toServer, asked, pending, calls, current, currentId, left>>

\* The client closes its connection or loses it; its callbacks stay.
Leave(c) ==
  /\ socket[c] # None
  /\ Len(left) < MaxLeaves
  /\ left' = Append(left, c)
  /\ socket' = [socket EXCEPT ![c] = None]
  /\ toClient' = [toClient EXCEPT ![socket[c]] = <<>>]
  /\ UNCHANGED <<peer, toServer, asked, pending, calls, current, currentId>>

\* Once all that arrived has been read the socket object is deleted.
OnClientDisconnect(s) ==
  /\ peer[s] # None
  /\ ~Open(s)
  /\ toServer[s] = <<>>
  /\ peer' = [peer EXCEPT ![s] = None]
  /\ UNCHANGED <<socket, toServer, toClient, asked, pending, calls, current,
                 currentId, left>>

-----------------------------------------------------------------------------
(* The clients.                                                            *)

\* sendRequest: the callback is kept before the request is sent and is called
\* at once if it cannot be, without being removed.
SendRequest(c, method, receiver) ==
  /\ Len(asked[c]) < MaxRequests
  /\ LET id == Len(asked[c]) IN
     /\ asked' = [asked EXCEPT ![c] = Append(@, method)]
     /\ pending' = [pending EXCEPT ![c] = @ \cup {id}]
     /\ IF socket[c] = None
        THEN /\ calls' = [calls EXCEPT ![c][id] = @ + 1]
             /\ UNCHANGED toServer
        ELSE /\ toServer' = [toServer EXCEPT ![socket[c]] =
                               Append(@, Request(id, method, receiver))]
             /\ UNCHANGED calls
  /\ UNCHANGED <<socket, peer, toClient, current, currentId, left>>

\* processBuffer: the server's requests are answered, always; a response is
\* passed to the callback of its id and ignored if there is none.
ClientReads(c) ==
  /\ socket[c] # None
  /\ toClient[socket[c]] # <<>>
  /\ LET s == socket[c]
         m == Head(toClient[s]) IN
     /\ toClient' = [toClient EXCEPT ![s] = Tail(@)]
     /\ \/ /\ m.type = "request"
           /\ toServer' = [toServer EXCEPT ![s] =
                             Append(@, Response(m.id, None))]
           /\ UNCHANGED <<pending, calls>>
        \/ /\ m.type = "response"
           /\ pending' = [pending EXCEPT ![c] = @ \ {m.id}]
           /\ calls' = IF m.id \in pending[c]
                       THEN [calls EXCEPT ![c][m.id] = @ + 1] ELSE calls
           /\ UNCHANGED toServer
  /\ UNCHANGED <<socket, peer, asked, current, currentId, left>>

-----------------------------------------------------------------------------
(* The server.                                                             *)

\* Mutant: the answer goes to all connections.
SendToAll(s, m) ==
  toClient' = [t \in Socket |-> IF Open(t) THEN Append(toClient[t], m)
                                           ELSE toClient[t]]

\* _sendMessage: to one socket, if it is one of the server's.
SendMessage(s, m) ==
  toClient' = [toClient EXCEPT ![s] = IF Open(s) THEN Append(@, m) ELSE @]

\* Mutant: the id is used again.
RelaySameId(s, m) ==
  \E t \in Socket :
    /\ peer[t] = m.receiver
    /\ current' = [i \in DOMAIN current \cup {currentId} |->
                     IF i \in DOMAIN current THEN current[i]
                     ELSE [socket |-> s, id |-> m.id, asker |-> peer[s]]]
    /\ SendMessage(t, Request(currentId, "status", None))
    /\ UNCHANGED currentId

\* The asynchronous callback: sendRequest to another client, with a callback
\* that answers the request it was called for.
Relay(s, m) ==
  \E t \in Socket :
    /\ peer[t] = m.receiver
    /\ current' = [i \in DOMAIN current \cup {currentId} |->
                     IF i \in DOMAIN current THEN current[i]
                     ELSE [socket |-> s, id |-> m.id, asker |-> peer[s]]]
    /\ currentId' = currentId + 1
    /\ SendMessage(t, Request(currentId, "status", None))

\* Mutant: a request for a client that is not there is not answered.
ProcessRequestSilent(s, m) ==
  \/ m.method = "sendToPlayer" /\ Relay(s, m)
  \/ /\ m.method \in {"status", "absent"}
     /\ SendMessage(s, Response(m.id, peer[s]))
     /\ UNCHANGED <<current, currentId>>
  \/ /\ \/ m.method = "broken"
        \/ m.method = "sendToPlayer" /\ \A t \in Socket : peer[t] # m.receiver
     /\ UNCHANGED <<toClient, current, currentId>>

\* _processRequest: a result, an error for a method that does not exist or a
\* relay without receiver, and nothing at all after an exception.
ProcessRequest(s, m) ==
  \/ m.method = "sendToPlayer" /\ Relay(s, m)
  \/ /\ \/ m.method \in {"status", "absent"}
        \/ m.method = "sendToPlayer" /\ \A t \in Socket : peer[t] # m.receiver
     /\ SendMessage(s, Response(m.id, peer[s]))
     /\ UNCHANGED <<current, currentId>>
  \/ /\ m.method = "broken"
     /\ UNCHANGED <<toClient, current, currentId>>

\* Mutant: the callback of a request that was answered is kept.
ProcessResponseKept(m) ==
  /\ IF m.id \in DOMAIN current
     THEN SendMessage(current[m.id].socket,
                      Response(current[m.id].id, current[m.id].asker))
     ELSE UNCHANGED toClient
  /\ UNCHANGED <<current, currentId>>

\* The second half of _processJsonMessage: the callback is found by the id
\* alone, whichever connection the response came over.
ProcessResponse(m) ==
  /\ IF m.id \in DOMAIN current
     THEN SendMessage(current[m.id].socket,
                      Response(current[m.id].id, current[m.id].asker))
     ELSE UNCHANGED toClient
  /\ current' = [i \in DOMAIN current \ {m.id} |-> current[i]]
  /\ UNCHANGED currentId

ServerReads(s) ==
  /\ toServer[s] # <<>>
  /\ LET m == Head(toServer[s]) IN
     \/ m.type = "request" /\ ProcessRequest(s, m)
     \/ m.type = "response" /\ ProcessResponse(m)
  /\ toServer' = [toServer EXCEPT ![s] = Tail(@)]
  /\ UNCHANGED <<socket, peer, asked, pending, calls, left>>

Next ==
  \/ \E c \in Client :
       \/ Connect(c)
       \/ Leave(c)
       \/ \E method \in Method \ {"sendToPlayer"} : SendRequest(c, method, None)
       \/ \E receiver \in Client \ {c} : SendRequest(c, "sendToPlayer", receiver)
       \/ ClientReads(c)
  \/ \E s \in Socket : OnClientDisconnect(s) \/ ServerReads(s)

Spec == Init /\ [][Next]_vars

\* Both ends' threads poll their sockets again and again.
FairSpec ==
  /\ Spec
  /\ \A c \in Client : WF_vars(ClientReads(c))
  /\ \A s \in Socket : WF_vars(ServerReads(s))

-----------------------------------------------------------------------------

\* An answer is sent to the client that asked.  Only if that has closed a
\* connection meanwhile can another one get it, at the same address.
AnswersMatch ==
  \A s \in Socket : \A m \in ToSet(toClient[s]) :
    m.type = "response" => m.asker = peer[s] \/ m.asker \in ToSet(left)

\* When all messages have been read and no connection was ever closed, the
\* server keeps no callback and a client only those of requests it could not
\* send or whose method threw.
NothingPending ==
  (left = <<>> /\ \A s \in Socket : toServer[s] = <<>> /\ toClient[s] = <<>>) =>
    /\ DOMAIN current = {}
    /\ \A c \in Client : \A i \in pending[c] :
         calls[c][i] = 1 \/ asked[c][i + 1] = "broken"

\* As long as no connection is closed, every request is answered in the end,
\* except one whose method throws.
Answered ==
  \A c \in Client, i \in Id :
    (i \in pending[c] /\ asked[c][i + 1] # "broken")
      ~> (calls[c][i] = 1 \/ left # <<>>)
=============================================================================
