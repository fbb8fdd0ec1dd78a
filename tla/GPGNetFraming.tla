---------------------------- MODULE GPGNetFraming ----------------------------
(***************************************************************************)
(* GPGNet messages as bytes (GPGNetMessage.cpp) on the way from the game   *)
(* to its connection handler (GPGNetServer.cpp) or back: toBinary writes   *)
(* them, TCP delivers the bytes in any pieces, parse reads them from a     *)
(* buffer that is parsed again from its start after every piece.           *)
(***************************************************************************)
EXTENDS Integers, SequencesExt

CONSTANTS
  Messages,      \* what is sent: records of a header and chunks
  MaxMessages    \* bound: messages sent on one connection

Byte == 0 .. 255
Int32s == {n \in Int : -2147483647 - 1 <= n /\ n <= 2147483647}

\* What JSON has and toBinary supports: a number, a Boolean, a string of bytes.
\* A reader makes no Booleans.
NumberChunks == [type : {"int"}, value : Int32s]
BoolChunks == [type : {"bool"}, value : BOOLEAN]
StringChunks == [type : {"string"}, value : Seq(Byte)]

ASSUME FramingAssumption ==
  /\ MaxMessages \in Nat
  /\ Messages \subseteq
       [header : Seq(Byte), chunks : Seq(NumberChunks \cup BoolChunks \cup StringChunks)]
  /\ \A m \in Messages :
       /\ Len(m.header) \in Int32s /\ Len(m.chunks) \in Int32s
       /\ \A i \in DOMAIN m.chunks :
            m.chunks[i].type = "string" => Len(m.chunks[i].value) \in Int32s

VARIABLES
  sent,          \* the messages that were sent on the connection
  wire,          \* the bytes on their way
  currentMsg,    \* the buffer of the connection handler
  received       \* the messages passed to the callback of parse

vars == <<sent, wire, currentMsg, received>>

IntChunk(n) == [type |-> "int", value |-> n]
BoolChunk(b) == [type |-> "bool", value |-> b]
StringChunk(s) == [type |-> "string", value |-> s]

-----------------------------------------------------------------------------
(* Conversions.                                                            *)

\* An int32_t, least significant byte first.
Int32(n) ==
  <<n % 256, (n \div 256) % 256, (n \div 65536) % 256, (n \div 16777216) % 256>>

\* memcpy of the four bytes behind the first it to an int32_t: the last one has
\* the sign.
ReadInt32(s, it) ==
  s[it + 1] + 256 * s[it + 2] + 65536 * s[it + 3]
    + 16777216 * (IF s[it + 4] < 128 THEN s[it + 4] ELSE s[it + 4] - 256)

ChunkToBinary(chunk) ==
  CASE chunk.type = "int"    -> <<0>> \o Int32(chunk.value)
    [] chunk.type = "bool"   -> <<0>> \o Int32(IF chunk.value THEN 1 ELSE 0)
    [] chunk.type = "string" -> <<1>> \o Int32(Len(chunk.value)) \o chunk.value
    [] OTHER                 -> <<>>

ChunksToBinary(chunks) ==
  LET result[n \in 0 .. Len(chunks)] ==
        IF n = 0 THEN <<>> ELSE result[n - 1] \o ChunkToBinary(chunks[n])
  IN  result[Len(chunks)]

ToBinary(message) ==
  Int32(Len(message.header)) \o message.header
    \o Int32(Len(message.chunks)) \o ChunksToBinary(message.chunks)

\* What the receiver should make of a message: Booleans travel as integers.
Meaning(message) ==
  [message EXCEPT !.chunks = [i \in DOMAIN @ |->
     IF @[i].type = "bool" THEN IntChunk(IF @[i].value THEN 1 ELSE 0) ELSE @[i]]]

-----------------------------------------------------------------------------
(* Parsing.                                                                *)

\* A reader of message chunks: the bytes it is behind, the chunks still to come,
\* and those it has.
Reader == [it : Nat, left : Int, chunks : Seq(NumberChunks \cup StringChunks)]

\* The next chunk has no end yet, or no type.
Torn(s, r) ==
  \/ Len(s) - r.it < 5
  \/ s[r.it + 1] \notin {0, 1}
  \/ s[r.it + 1] = 1 /\ ReadInt32(s, r.it + 1) \notin 0 .. Len(s) - r.it - 5

\* The length of a number is its value.
ReadChunk(s, r) ==
  LET length == ReadInt32(s, r.it + 1)
      end == IF s[r.it + 1] = 0 THEN r.it + 5 ELSE r.it + 5 + length
      chunk == IF s[r.it + 1] = 0 THEN IntChunk(length)
                                  ELSE StringChunk(SubSeq(s, r.it + 6, end))
  IN  [it |-> end, left |-> r.left - 1, chunks |-> Append(r.chunks, chunk)]

\* The loop over the chunks, until all are read or one is torn.
ReadChunks(s, start) ==
  LET loop[r \in Reader] ==
        IF r.left <= 0 \/ Torn(s, r) THEN r ELSE loop[ReadChunk(s, r)]
  IN  loop[start]

\* The first message of a buffer, or that it is incomplete.
ParseMessage(s) ==
  IF Len(s) <= 4 \/ ReadInt32(s, 0) \notin 0 .. Len(s) - 8 THEN [complete |-> FALSE]
  ELSE LET header == 4 + ReadInt32(s, 0)
           body == ReadChunks(s, [it |-> header + 4, left |-> ReadInt32(s, header),
                                  chunks |-> <<>>])
       IN  [complete |-> body.left <= 0,
            message |-> [header |-> SubSeq(s, 5, header), chunks |-> body.chunks],
            it |-> body.it]

\* A buffer, and the messages passed to the callback so far.
Parser ==
  [buffer : Seq(Byte),
   messages : Seq([header : Seq(Byte), chunks : Seq(NumberChunks \cup StringChunks)])]

\* The first message is passed on and its bytes erased.
ParseOne(p) ==
  LET first == ParseMessage(p.buffer)
  IN  [buffer |-> SubSeq(p.buffer, first.it + 1, Len(p.buffer)),
       messages |-> Append(p.messages, first.message)]

\* Mutant: one message for each read.
ParseOnce(s) ==
  LET start == [buffer |-> s, messages |-> <<>>]
  IN  IF ParseMessage(s).complete THEN ParseOne(start) ELSE start

\* The loop over the messages of a buffer.
ParseFrom(start) ==
  LET loop[p \in Parser] ==
        IF ~ParseMessage(p.buffer).complete THEN p ELSE loop[ParseOne(p)]
  IN  loop[start]

\* parse: the messages for the callback, and what stays in the buffer.
Parse(s) == ParseFrom([buffer |-> s, messages |-> <<>>])

-----------------------------------------------------------------------------

Init ==
  /\ sent = <<>>
  /\ wire = <<>>
  /\ currentMsg = <<>>
  /\ received = <<>>

SendMessage(message) ==
  /\ Len(sent) < MaxMessages
  /\ sent' = Append(sent, message)
  /\ wire' = wire \o ToBinary(message)
  /\ UNCHANGED <<currentMsg, received>>

\* One Recv of n bytes in _onRead.
OnRead(n) ==
  LET parsed == Parse(currentMsg \o SubSeq(wire, 1, n))
  IN  /\ wire' = SubSeq(wire, n + 1, Len(wire))
      /\ currentMsg' = parsed.buffer
      /\ received' = received \o parsed.messages
      /\ UNCHANGED sent

\* Mutant: the next connection reads on in the buffer of the last one.
OnNewClientKeepsBuffer ==
  /\ sent' = <<>>
  /\ wire' = <<>>
  /\ received' = <<>>
  /\ UNCHANGED currentMsg

\* The connection ends, wherever it is in a message, and another one begins
\* with a handler and a buffer of its own.
OnNewClient ==
  /\ sent' = <<>>
  /\ wire' = <<>>
  /\ currentMsg' = <<>>
  /\ received' = <<>>

Next ==
  \/ \E message \in Messages : SendMessage(message)
  \/ \E n \in 1 .. Len(wire) : OnRead(n)
  \/ OnNewClient

Spec == Init /\ [][Next]_vars

-----------------------------------------------------------------------------

Meanings == [i \in DOMAIN sent |-> Meaning(sent[i])]

\* In whichever pieces the bytes arrive, the messages are received unchanged and
\* in order (GPGNetMessage::parse).  This follows from ImplementsChannel.
InOrder == IsPrefix(received, Meanings)

\* parse keeps no message back whose last byte arrived: what stays in the buffer
\* is the beginning of the next message and not all of it.
NothingHeldBack ==
  \/ received = Meanings /\ currentMsg = <<>>
  \/ /\ Len(received) < Len(sent)
     /\ IsStrictPrefix(currentMsg, ToBinary(sent[Len(received) + 1]))

\* Parsing the buffer makes a channel for messages of the stream: a read hands over
\* some of the next messages, and all when nothing is under way (GPGNetMessage::parse).
Channel == INSTANCE MessageChannel WITH
  Message <- {Meaning(message) : message \in Messages},
  sent <- Meanings, arrived <- received, underWay <- wire # <<>>

ImplementsChannel == Channel!Spec
=============================================================================
