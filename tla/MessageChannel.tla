---------------------------- MODULE MessageChannel ----------------------------
(***************************************************************************)
(* What a protocol over TCP promises to those who use it with messages: a  *)
(* message arrives once, unchanged and in its place, and it has arrived    *)
(* when nothing of it is under way.  Nothing else changes what arrived,    *)
(* except that the connection ends.                                        *)
(***************************************************************************)
EXTENDS Naturals, Sequences

CONSTANT Message

VARIABLES
  sent,       \* the messages of this connection
  arrived,    \* those that were handed over
  underWay    \* TRUE if the network has something of a message

vars == <<sent, arrived, underWay>>

Init ==
  /\ sent = <<>>
  /\ arrived = <<>>
  /\ underWay = FALSE

Send(m) ==
  /\ sent' = Append(sent, m)
  /\ underWay' = TRUE
  /\ UNCHANGED arrived

\* Some bytes arrive, and with them the next n messages.
Arrive(n) ==
  /\ UNCHANGED sent
  /\ arrived' = SubSeq(sent, 1, Len(arrived) + n)
  /\ underWay
  /\ underWay' \in BOOLEAN
  /\ ~underWay' => arrived' = sent

\* Another connection takes its place.
Reconnect ==
  /\ sent' = <<>>
  /\ arrived' = <<>>
  /\ underWay' = FALSE

Next ==
  \/ \E n \in 0 .. Len(sent) - Len(arrived) : Arrive(n)
  \/ \E m \in Message : Send(m)
  \/ Reconnect

Spec == Init /\ [][Next]_vars
=============================================================================
