---------------------------- MODULE GPGNetServer ----------------------------
(***************************************************************************)
(* The TCP server the game connects to (GPGNetServer.cpp).  The adapter is *)
(* one thread: every operator below is the part a socket event or a posted *)
(* message plays in one run of a handler.  IceAdapter.tla completes them   *)
(* with what the connected signals do in the same run.                     *)
(*                                                                         *)
(* A connection is the GPGNetConnectionHandler of one accepted socket; the *)
(* same element of Connection may be used again once it was deleted.       *)
(***************************************************************************)
EXTENDS Naturals, Sequences, SequencesExt

CONSTANTS
  Connection,   \* the handlers that can exist
  Overlap       \* TRUE if a game may connect while another connection exists

ASSUME OverlapAssumption == Overlap \in BOOLEAN

VARIABLES
  connectedSockets,  \* the handlers in _connectedSockets
  posted,            \* messages posted to the thread, each carrying a handler
  unpolled           \* handlers accepted since the thread last polled sockets

serverVars == <<connectedSockets, posted, unpolled>>

ServerTypeOK ==
  /\ connectedSockets \in SUBSET Connection
  /\ posted \in Seq(Connection)
  /\ unpolled \in SUBSET Connection

ServerInit ==
  /\ connectedSockets = {}
  /\ posted = <<>>
  /\ unpolled = {}

HasConnectedClient == connectedSockets # {}

\* The handlers whose game still reads what is sent to it: sendMessage writes
\* to every handler, and to a closed one in vain.
Reachable == connectedSockets \ ToSet(posted)

(***************************************************************************)
(* The thread hands out posted messages before it polls the sockets again. *)
(* While one waits, only what was polled together with the close event can *)
(* still happen, so a socket accepted meanwhile raises no event yet.       *)
(***************************************************************************)
CanRaiseEvent(c) == c \in Reachable \ unpolled

\* The game connects: the server inserts a handler and emits
\* SignalClientConnected.
OnNewClient(c) ==
  /\ c \notin connectedSockets
  /\ Overlap \/ ~HasConnectedClient
  /\ connectedSockets' = connectedSockets \cup {c}
  /\ unpolled' = IF posted = <<>> THEN {} ELSE unpolled \cup {c}
  /\ UNCHANGED posted

\* Mutant: the handler leaves the set before it is deleted.
OnClientDisconnectErasesEarly(c) ==
  /\ CanRaiseEvent(c)
  /\ posted' = Append(posted, c)
  /\ connectedSockets' = connectedSockets \ {c}
  /\ UNCHANGED unpolled

\* The socket reports that the game closed it.  The handler cannot be deleted
\* inside its own signal, so its removal is posted.
OnClientDisconnect(c) ==
  /\ CanRaiseEvent(c)
  /\ posted' = Append(posted, c)
  /\ UNCHANGED <<connectedSockets, unpolled>>

\* The posted removal: the handler leaves the set and SignalClientDisconnected
\* is emitted.
OnMessage(c) ==
  /\ posted # <<>>
  /\ c = Head(posted)
  /\ posted' = Tail(posted)
  /\ connectedSockets' = connectedSockets \ {c}
  /\ unpolled' = IF Tail(posted) = <<>> THEN {} ELSE unpolled

\* Each waiting removal is of a handler that is still in the set, and no two
\* are of the same: OnMessage neither deletes a handler twice nor reports the
\* disconnection of one that is not there.  A handler accepted meanwhile is
\* not one of them.
RemovedOnce ==
  /\ ToSet(posted) \subseteq connectedSockets
  /\ \A i, j \in DOMAIN posted : posted[i] = posted[j] => i = j
  /\ unpolled \subseteq Reachable
=============================================================================
