------------------------------- MODULE Framing ------------------------------
(***************************************************************************)
(* From the bytes of a connection to messages, and back: the StartReading  *)
(* of the four kinds of connections, what was lost in front of them by the *)
(* reader of authenticateTCPConn, and SendMessageWithProtocol.             *)
(*                                                                         *)
(* A client sends frames.  On a TCP connection they are a stream of units  *)
(* that arrives in pieces, on a WebSocket connection each arrives whole.   *)
(* A unit is a byte, but for the length of a frame, all of whose four      *)
(* bytes binary.Read waits for.  In front of JSON texts, which is what the *)
(* first TCP reader takes, and of frames there may be units that belong to *)
(* none: spaces, or bytes that are no flag.                                *)
(*                                                                         *)
(* One behaviour is one connection: `client` never changes.  The messages  *)
(* it brings are passed to a recipient through MessageAdapter.             *)
(***************************************************************************)
EXTENDS MessageAdapter, Sequences, FiniteSets

CONSTANTS
  Clients,       \* what the client of a connection may be and do
  MaxMessageSize, \* the longest body that is read (10000 in the code)
  BufferSize,    \* what one read takes from a TCP connection (4096)
  Temporary      \* the id given to a conversation that has none

ConnKinds == {"tcp", "ws", "old_tcp", "old_ws"}

\* The bytes that the readers know: two flags, the braces and a space.
Flags == [json |-> 1, protobuf |-> 2]
Open == 123
Close == 125
Space == 32

\* What a reader looks for in a stream: what is none of these may lie between frames.
Marks(kind) == IF kind = "old_tcp" THEN {Open, Close} ELSE {Flags[p] : p \in DOMAIN Flags}

\* A frame: its body, the message msg it encodes, and how, or "none" if it only
\* stands for units that belong to no frame.
Frame == [proto : {"json", "protobuf", "none"}, body : Seq(0 .. 255), msg : Message]

\* A client: the kind of its connection, whether it is eager, that is, sends
\* frames before it has read the answer OK, and its frames.
ASSUME ClientsAssumption ==
  /\ Clients \subseteq [kind : ConnKinds, eager : BOOLEAN, frames : Seq(Frame)]
  /\ \A c \in Clients : \A i \in DOMAIN c.frames :
       LET f == c.frames[i]
       IN  /\ c.kind = "old_tcp" => f.proto # "protobuf"
           /\ f.proto = "none" => \A k \in DOMAIN f.body : f.body[k] \notin Marks(c.kind)
ASSUME SizeAssumption ==
  /\ MaxMessageSize \in Nat
  /\ BufferSize \in Nat \ {0}
  /\ Temporary \in Texts \ {Blank}

VARIABLES
  client,   \* what the client sends
  filled,   \* how many units have been read from the connection
  pos,      \* how many of these have been used
  at,       \* what the reader looks for: "flag", "size", "body", "text"; "closed"
  head,     \* the flag and the size of the frame that is being read
  cut,      \* a body was read before all of it had arrived
  out,      \* the messages given to msgHandler, with the number of the frame
  replies,  \* the answers of the reader itself, with the number of the frame
  written   \* what the recipient's writer has sent, with its protocol

readVars == <<filled, pos, at, head, cut>>
vars == <<client, readVars, out, replies, written>>

\* The units of a frame: on the first TCP connection a JSON text, whose bytes
\* are the braces around it and those of its content, elsewhere a flag, a size
\* and the encoded message.
FrameBytes(c, f) ==
  CASE f.proto = "none" -> f.body
    [] f.proto # "none" /\ c.kind = "old_tcp" -> <<Open>> \o f.body \o <<Close>>
    [] OTHER -> <<Flags[f.proto], Len(f.body)>> \o f.body

\* Up to where the first i frames of a client reach, and the units of all of them.
FrameEnd ==
  [c \in Clients |->
     LET end[i \in 0 .. Len(c.frames)] ==
           IF i = 0 THEN 0 ELSE end[i - 1] + Len(FrameBytes(c, c.frames[i]))
     IN  end]
Wire ==
  [c \in Clients |->
     [p \in 1 .. FrameEnd[c][Len(c.frames)] |->
        LET i == CHOOSE i \in DOMAIN c.frames : FrameEnd[c][i - 1] < p /\ p <= FrameEnd[c][i]
        IN  FrameBytes(c, c.frames[i])[p - FrameEnd[c][i - 1]]]]

\* The same of the connection's client.
Frames == DOMAIN client.frames
Begin(i) == FrameEnd[client][i - 1]
End(i) == FrameEnd[client][i]
Total == End(Len(client.frames))
Byte(p) == Wire[client][p]

\* authenticateTCPConn reads its line through a buffer of its own: what an eager
\* client has sent behind the line may be in there, and is dropped with it.
Dropped(c) ==
  IF c.eager /\ c.kind \in {"tcp", "old_tcp"} THEN 0 .. FrameEnd[c][Len(c.frames)] ELSE {0}

Init ==
  /\ client \in Clients
  /\ pos \in Dropped(client)
  /\ filled = pos
  /\ at = "flag"
  /\ head = [proto |-> "none", size |-> 0]
  /\ cut = FALSE
  /\ out = << >> /\ replies = << >> /\ written = << >>

-----------------------------------------------------------------------------
(* What a reader does with a message.                                      *)

\* Sender and time are filled in, and a conversation if need be.
Stamped(m) ==
  IF m.conversation = Blank /\ m.type = "message" /\ m.recipient # Blank
    THEN [m EXCEPT !.conversation = Temporary] ELSE m

\* A ping is answered; a message for nobody, and that means one for a group too,
\* is dropped, and answered if it is a "message"; any other is passed on.
PassOn(i, m) ==
  LET s == Stamped(m)
      lost == s.recipient = Blank /\ s.type # "status"
      answer == IF s.type = "ping" THEN "pong" ELSE "error"
  IN  /\ replies' = IF s.type = "ping" \/ (s.type = "message" /\ lost)
                      THEN Append(replies, [frame |-> i, text |-> answer]) ELSE replies
      /\ out' = IF s.type = "ping" \/ lost THEN out ELSE Append(out, [frame |-> i, msg |-> s])

Skip == UNCHANGED <<out, replies>>

\* An encoding of length zero is an error in JSON, and a pb.Message without
\* any field: a message for nobody, of no type.
Empty == [type |-> "unknown", status |-> "unknown", code |-> 0, recipient |-> Blank,
          conversation |-> Blank, error |-> [message |-> Blank, details |-> Nil],
          metadata |-> Nil]

\* The message of frame i as the reader decodes it.
Decoded(i) ==
  LET f == client.frames[i]
  IN  IF f.body = << >> THEN Empty ELSE Passed(f.msg, f.proto)
Decodes(i) == client.frames[i].body # << >> \/ client.frames[i].proto = "protobuf"

-----------------------------------------------------------------------------
(* EnhancedTCPConnection.StartReading.                                     *)

Reads(kind, step) == client.kind = kind /\ at = step

\* It needs a unit and has none in its buffer.
Waits == at # "closed" /\ filled = pos /\ ~(at = "body" /\ head.size = 0)

\* An empty buffer is filled by one read, which returns what has arrived.
Fill ==
  /\ client.kind = "tcp"
  /\ Waits
  /\ filled' \in pos + 1 .. pos + BufferSize /\ filled' <= Total
  /\ UNCHANGED <<client, pos, at, head, cut, out, replies, written>>

\* Slip: a byte that is no flag is taken for that of JSON.
ReadAnyFlag ==
  LET byte == Byte(pos + 1)
  IN  /\ Reads("tcp", "flag")
      /\ pos < filled
      /\ pos' = pos + 1
      /\ at' = "size"
      /\ head' = [head EXCEPT !.proto = IF byte = Flags.protobuf THEN "protobuf" ELSE "json"]
      /\ Skip
      /\ UNCHANGED <<client, filled, cut, written>>

\* A byte that is no flag is skipped.
ReadFlag ==
  LET byte == Byte(pos + 1)
      known == {p \in DOMAIN Flags : Flags[p] = byte}
  IN  /\ Reads("tcp", "flag")
      /\ pos < filled
      /\ pos' = pos + 1
      /\ IF known = {}
           THEN UNCHANGED <<at, head>>
           ELSE /\ at' = "size"
                /\ \E p \in known : head' = [head EXCEPT !.proto = p]
      /\ Skip
      /\ UNCHANGED <<client, filled, cut, written>>

\* After a size that is too large the reader looks for a flag at once.
ReadSize ==
  LET size == Byte(pos + 1)
  IN  /\ Reads("tcp", "size")
      /\ pos < filled
      /\ pos' = pos + 1
      /\ IF size > MaxMessageSize
           THEN at' = "flag" /\ UNCHANGED head
           ELSE at' = "body" /\ head' = [head EXCEPT !.size = size]
      /\ Skip
      /\ UNCHANGED <<client, filled, cut, written>>

\* The units that follow are the whole body of a frame, which was sent with this flag.
BodyOf(proto, size) ==
  {i \in Frames : /\ client.frames[i].proto = proto
                  /\ pos = Begin(i) + 2
                  /\ size = Len(client.frames[i].body)}

\* One Read: it returns what is in the buffer, and the rest of data stays zero.
\* What is not the encoding of a message is no JSON; as a pb.Message it may be
\* one that nobody has sent.
ReadBody ==
  LET got == IF head.size <= filled - pos THEN head.size ELSE filled - pos
      whole == IF got = head.size THEN BodyOf(head.proto, head.size) ELSE {}
  IN  /\ Reads("tcp", "body")
      /\ pos < filled \/ head.size = 0
      /\ pos' = pos + got
      /\ at' = "flag"
      /\ cut' = (cut \/ got < head.size)
      /\ IF head.size = 0
           THEN IF head.proto = "protobuf" THEN PassOn(0, Empty) ELSE Skip
           ELSE \/ \E i \in whole : PassOn(i, Decoded(i))
                \/ whole = {} /\ Skip
                \/ whole = {} /\ head.proto = "protobuf" /\ PassOn(0, [Empty EXCEPT !.type = "status"])
      /\ UNCHANGED <<client, filled, head, written>>

-----------------------------------------------------------------------------
(* TCPConnection.StartReading: JSON texts one after the other, told apart  *)
(* by counting braces.                                                     *)

Braces(from, to, brace) == Cardinality({p \in from .. to : Byte(p) = brace})
Balanced(from, to) == Braces(from, to, Open) = Braces(from, to, Close)

\* Slip: the loop stops at the first closing brace.
FirstEnd == {e \in pos + 1 .. filled : Byte(e) = Close}

\* Where the loop over the bytes of the remainder stops, if it gets there.
Ends == {e \in pos + 1 .. filled : Byte(e) = Close /\ Balanced(pos + 1, e)}

\* The place behind the spaces that follow p.
PastSpaces(p) ==
  CHOOSE q \in p .. filled :
    /\ \A k \in p + 1 .. q : Byte(k) = Space
    /\ q = filled \/ Byte(q + 1) # Space

\* A unit of the content of a text.
Inner(p) == \E i \in Frames : client.frames[i].proto = "json" /\ Begin(i) + 1 < p /\ p < End(i)

\* What json.Unmarshal makes of the units up to place e, from an opening brace to the
\* one that closes it, with spaces in front: the message of a frame, or of an empty
\* object that is part of a content.
Parsed(e) ==
  LET b == PastSpaces(pos)
  IN  IF e = b + 2 /\ Inner(b + 1) /\ Inner(e) THEN {[frame |-> 0, msg |-> Empty]}
      ELSE {[frame |-> i, msg |-> Passed(client.frames[i].msg, "json")] :
              i \in {j \in Frames : client.frames[j].proto = "json" /\ Begin(j) = b /\ End(j) = e}}

\* One Read.
ReadTexts ==
  /\ Reads("old_tcp", "flag")
  /\ filled' \in filled + 1 .. filled + BufferSize /\ filled' <= Total
  /\ at' = "text"
  /\ UNCHANGED <<client, pos, head, cut, out, replies, written>>

\* One turn of the loop of parseMessages: if no end is found in the remainder, it
\* stays for the next Read; else the text up to there is a message, which is passed
\* on whatever its type (when the loop is over, but nothing comes in between); or,
\* if it does not parse, the first byte is skipped.
ParseMessages ==
  /\ Reads("old_tcp", "text")
  /\ IF Ends = {} THEN at' = "flag" /\ UNCHANGED <<pos, out>>
     ELSE \E e \in Ends :
            /\ \A d \in Ends : e <= d
            /\ \/ \E m \in Parsed(e) : out' = Append(out, m) /\ pos' = PastSpaces(e)
               \/ Parsed(e) = {} /\ pos' = pos + 1 /\ UNCHANGED out
            /\ UNCHANGED at
  /\ UNCHANGED <<client, filled, head, cut, replies, written>>

-----------------------------------------------------------------------------
(* The StartReading of the two WebSocket connections; pos counts frames.   *)

\* A text is JSON and a binary message is protobuf.  The first reader takes
\* JSON only, and what does not decode is for it an error that ends it.
ReadMessage ==
  LET i == pos + 1
      decodes == Decodes(i) /\ (client.kind = "old_ws" => client.frames[i].proto = "json")
  IN  /\ client.kind \in {"ws", "old_ws"}
      /\ at = "flag"
      /\ i \in Frames
      /\ client.frames[i].proto # "none"
      /\ Len(client.frames[i].body) <= 2 * MaxMessageSize
      /\ pos' = i /\ filled' = i
      /\ IF decodes THEN PassOn(i, Decoded(i)) ELSE Skip
      /\ at' = IF ~decodes /\ client.kind = "old_ws" THEN "closed" ELSE "flag"
      /\ UNCHANGED <<client, head, cut, written>>

-----------------------------------------------------------------------------
\* The client hangs up; a deadline passes, but for a TCP reader that waits for a
\* flag or a text, which goes on waiting; a message exceeds the read limit.
Stop ==
  /\ at \notin {"text", "closed"}
  /\ client.kind = "tcp" => Waits
  /\ at' = "closed"
  /\ UNCHANGED <<client, filled, pos, head, cut, out, replies, written>>

\* The recipient's writer, in the protocol of the connection, when the message
\* has come to it directly or, as JSON, through Redis.
Write(connType, far) ==
  LET n == Len(written) + 1
      proto == IF client.kind \in {"tcp", "ws"} THEN GetProtocolTypeFromConnection(connType) ELSE "json"
      m == IF far THEN Passed(out[n].msg, "json") ELSE out[n].msg
  IN  /\ n \in DOMAIN out
      /\ written' = Append(written, [proto |-> proto, data |-> SerializeMessage(m, proto)])
      /\ UNCHANGED <<client, readVars, out, replies>>

Next ==
  \/ Fill \/ ReadFlag \/ ReadSize \/ ReadBody
  \/ ReadTexts \/ ParseMessages
  \/ ReadMessage
  \/ Stop
  \/ \E connType \in {"tcp", "tcp_ws", "websocket"}, far \in BOOLEAN : Write(connType, far)

Spec == Init /\ [][Next]_vars

-----------------------------------------------------------------------------
(* Properties.                                                             *)

\* The frames in front of a place.
ReadUpTo(place) ==
  {i \in Frames : IF client.kind \in {"ws", "old_ws"} THEN i <= place ELSE End(i) <= place}

\* The entries of a list are of these frames, each once and in the order of the frames.
InOrder(list, frames) ==
  /\ \A k, l \in DOMAIN list : k < l => list[k].frame < list[l].frame
  /\ {list[k].frame : k \in DOMAIN list} = frames

\* A frame that carries a message, and whether that is to be passed on or answered.
IsMessage(i) == client.frames[i].proto # "none" /\ client.frames[i].body # << >>
Wanted(i) ==
  /\ IsMessage(i)
  /\ Decoded(i).type # "ping"
  /\ Decoded(i).recipient # Blank \/ Decoded(i).type = "status"
Answered(i) ==
  /\ IsMessage(i)
  /\ Decoded(i).type = "ping" \/ (Decoded(i).type = "message" /\ Decoded(i).recipient = Blank)

\* No body is longer than the limit, none has been read before it had arrived, and
\* the client has waited for OK, and sends what the reader takes.
Orderly ==
  /\ client.kind # "old_tcp"
  /\ ~client.eager
  /\ ~cut
  /\ \A i \in Frames : Len(client.frames[i].body) <= MaxMessageSize
  /\ client.kind = "old_ws" => \A i \in Frames : client.frames[i].proto = "json" /\ IsMessage(i)

\* Every frame in front of the place where the reader stands has been passed on
\* or answered, if it is to be, in order and once, and nothing else has, whatever
\* pieces the frames have come in and whatever lies between them; as long as the
\* connection is orderly.
InStep ==
  Orderly => /\ InOrder(out, {i \in ReadUpTo(pos) : Wanted(i)})
             /\ InOrder(replies, {i \in ReadUpTo(pos) : Answered(i)})

\* The braces of the content of a text, counted from its beginning, never close
\* more than was opened, and close all.
Nested(i) ==
  /\ Balanced(Begin(i) + 2, End(i) - 1)
  /\ \A e \in Begin(i) + 2 .. End(i) - 1 :
       Braces(Begin(i) + 2, e, Close) <= Braces(Begin(i) + 2, e, Open)

\* The JSON texts that a client sends.
JSONTexts == {i \in Frames : client.frames[i].proto = "json"}

\* The first TCP reader finds all JSON texts, and each as soon as it has arrived,
\* if their contents are nested, however the stream is cut into pieces.  (It
\* knows nothing of strings: a lone brace in a content blocks it for good.)
NestedParsed ==
  /\ client.kind = "old_tcp" /\ ~client.eager
  /\ \A i \in JSONTexts : Nested(i)
  /\ at # "text"
  => InOrder(out, ReadUpTo(filled) \cap JSONTexts)

\* What a recipient decodes does not depend on the way of the message, through
\* Redis or not, nor on its own protocol if the sender used protobuf, and all
\* who receive protobuf decode the same: converting once is as good as twice.
SameForAll ==
  \A k \in DOMAIN written :
    out[k].frame # 0 =>
      LET f == client.frames[out[k].frame]
          proto == IF "protobuf" \in {f.proto, written[k].proto} THEN "protobuf" ELSE "json"
      IN  DeserializeMessage(written[k].data, written[k].proto)
            = [Passed(f.msg, proto) EXCEPT !.conversation = out[k].msg.conversation]
=============================================================================
