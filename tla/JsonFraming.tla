----------------------------- MODULE JsonFraming -----------------------------
(***************************************************************************)
(* JSON objects as characters on one connection (JsonRpc.cpp, trim.cpp):   *)
(* a client writes them, TCP delivers the characters in any pieces, and    *)
(* _read cuts them out of a buffer by counting braces.                     *)
(*                                                                         *)
(* The characters that matter are the braces, which open and close an      *)
(* object, the quote, the backslash and the blank.                         *)
(***************************************************************************)
EXTENDS Integers, FiniteSets, SequencesExt

CONSTANTS
  Messages,      \* the objects that are sent, as sequences of characters
  MaxMessages    \* bound: objects sent on one connection

Char == {"open", "close", "quote", "backslash", "blank", "other"}

VARIABLES
  sent,          \* the objects that were sent on the connection
  wire,          \* the characters on their way
  currentMsg,    \* the entry of the connection in _currentMsgs
  received       \* the values passed to _processJsonMessage

vars == <<sent, wire, currentMsg, received>>

\* How many of the positions in S are not behind i.
Count(S, i) == Cardinality(S \cap (1 .. i))

-----------------------------------------------------------------------------
(* JSON, as far as it is needed: Json::Reader of jsoncpp.                  *)

\* A backslash takes the meaning of the next character.
Escaped(s) ==
  LET escaped[i \in 0 .. Len(s)] ==
        i > 1 /\ s[i - 1] = "backslash" /\ ~escaped[i - 1]
  IN  escaped

\* The positions inside a string, its first quote included.
InJsonString(s) ==
  LET escaped == Escaped(s)
      quotes == {i \in DOMAIN s : s[i] = "quote" /\ ~escaped[i]}
  IN  {i \in DOMAIN s : Count(quotes, i) % 2 = 1}

Depth(s, i, inString) ==
  Count({j \in DOMAIN s : s[j] = "open"} \ inString, i)
    - Count({j \in DOMAIN s : s[j] = "close"} \ inString, i)

\* One object and nothing after it.
IsObject(s) ==
  LET inString == InJsonString(s)
  IN  /\ Len(s) > 1 /\ s[1] = "open"
      /\ \A i \in DOMAIN s : Depth(s, i, inString) = 0 <=> i = Len(s)
      /\ \A i \in DOMAIN s : s[i] = "backslash" => i \in inString

\* Blanks between the tokens of an object mean nothing.
JsonValue(s) ==
  LET kept == {i \in DOMAIN s : s[i] # "blank"} \cup InJsonString(s)
  IN  [k \in 1 .. Cardinality(kept) |-> s[CHOOSE i \in kept : Count(kept, i) = k]]

ASSUME JsonFramingAssumption ==
  /\ MaxMessages \in Nat
  /\ \A message \in Messages : message \in Seq(Char) /\ IsObject(message)

\* What _read can cut: no quote is escaped, and no string has a blank, which Trim
\* takes away if a read ends next to it.
Plain(s) ==
  /\ \A i \in DOMAIN s : s[i] = "backslash" /\ i < Len(s) => s[i + 1] # "quote"
  /\ \A i \in DOMAIN s : s[i] = "blank" => i \notin InJsonString(s)

PlainMessages == \A message \in Messages : Plain(message)

-----------------------------------------------------------------------------
(* The code.                                                               *)

\* trim_whitespace: the count of characters that substr takes is computed as if
\* they began at the start of s.
Trim(s) ==
  LET text == {i \in DOMAIN s : s[i] # "blank"}
  IN  IF text = {} THEN <<>>
      ELSE SubSeq(s, Min(text), Min({Len(s), Min(text) + Max(text) - 1}))

\* inString: every quote toggles it.
InString(s) ==
  {i \in DOMAIN s : Count({j \in DOMAIN s : s[j] = "quote"}, i) % 2 = 1}

\* The brace that ends the first object, or 0.
MessageEnd(s) ==
  LET inString == InString(s)
      ends == {i \in DOMAIN s : Depth(s, i, inString) = 0}
  IN  IF ends = {} THEN 0 ELSE Min(ends)

\* _parseJsonFromMsgBuffer: the objects it returns, one or none, and the buffer
\* it leaves.
ParseJsonFromMsgBuffer(s) ==
  LET end == MessageEnd(s)
      text == SubSeq(s, 1, end)
  IN  IF s = <<>> \/ s[1] # "open" THEN [found |-> <<>>, buffer |-> <<>>]
      ELSE IF end = 0 THEN [found |-> <<>>, buffer |-> s]
      ELSE IF ~IsObject(text) THEN [found |-> <<>>, buffer |-> <<>>]
      ELSE [found |-> <<JsonValue(text)>>, buffer |-> SubSeq(s, end + 1, Len(s))]

\* A buffer, and the values that were processed so far.
Reader == [buffer : Seq(Char), values : Seq(Seq(Char))]

\* One pass of the second loop of _read.
ReadOne(r) ==
  LET first == ParseJsonFromMsgBuffer(Trim(r.buffer))
  IN  [buffer |-> first.buffer, values |-> r.values \o first.found]

\* Mutant: one object for each read.
ReadMessagesOnce(s) == ReadOne([buffer |-> s, values |-> <<>>])

\* The loop ends when there is nothing to process.
ReadMessages(s) ==
  LET loop[r \in Reader] ==
        IF ReadOne(r).values = r.values THEN ReadOne(r) ELSE loop[ReadOne(r)]
  IN  loop[[buffer |-> s, values |-> <<>>]]

-----------------------------------------------------------------------------

Init ==
  /\ sent = <<>>
  /\ wire = <<>>
  /\ currentMsg = <<>>
  /\ received = <<>>

\* A client may end an object with a newline.
Send(message) ==
  /\ Len(sent) < MaxMessages
  /\ sent' = Append(sent, message)
  /\ \E separator \in {<<>>, <<"blank">>} : wire' = wire \o message \o separator
  /\ UNCHANGED <<currentMsg, received>>

\* _read, when n characters have arrived.
Read(n) ==
  LET result == ReadMessages(currentMsg \o SubSeq(wire, 1, n))
  IN  /\ wire' = SubSeq(wire, n + 1, Len(wire))
      /\ currentMsg' = result.buffer
      /\ received' = received \o result.values
      /\ UNCHANGED sent

\* _onClientDisconnect, and the connection of another client.
OnClientDisconnect ==
  /\ sent' = <<>>
  /\ wire' = <<>>
  /\ currentMsg' = <<>>
  /\ received' = <<>>

Next ==
  \/ \E message \in Messages : Send(message)
  \/ \E n \in 1 .. Len(wire) : Read(n)
  \/ OnClientDisconnect

Spec == Init /\ [][Next]_vars

-----------------------------------------------------------------------------

ValueOf == [message \in Messages |-> JsonValue(message)]

Values == [i \in DOMAIN sent |-> ValueOf[sent[i]]]

\* In whichever pieces the characters arrive, the values of the objects are
\* processed unchanged and in order (JsonRpc::_read).  For plain objects this and
\* NothingHeldBack follow from ImplementsChannel.
InOrder == IsPrefix(received, Values)

\* No object is kept back once its last character arrived.
NothingHeldBack == wire = <<>> => Len(received) = Len(sent)

\* Cutting objects out of a buffer makes a channel for values of the stream: a read
\* of _read hands over some of the next values, and all when nothing is under way.
Channel == INSTANCE MessageChannel WITH
  Message <- Range(ValueOf), sent <- Values, arrived <- received, underWay <- wire # <<>>

ImplementsChannel == Channel!Spec
=============================================================================
