--------------------------- MODULE MessageAdapter ---------------------------
(***************************************************************************)
(* What a message becomes when it is encoded and decoded again: the        *)
(* conversions of internal/protocol/adapter.go between Message, the object *)
(* of the program and of JSON, and pb.Message.                             *)
(*                                                                         *)
(* The fields that both forms copy unchanged (ids, content, timestamp, ... *)
(* ) are one of them here, the recipient; the conversation is kept apart   *)
(* because the readers set it.  CreatedAt and UpdatedAt, which no encoding *)
(* carries, are left out.                                                  *)
(***************************************************************************)
EXTENDS Integers

CONSTANTS
  Names,    \* the strings of the fields type and status
  Lower,    \* strings.ToLower of a name
  Texts,    \* other strings
  Blank,    \* the empty string, as a name and as a text
  Objects,  \* JSON values of error.details that are no strings
  Nil,      \* no details, no metadata, no error
  JsonText, \* json.Marshal of details
  NoEntries, \* a metadata map without entries
  Maps,     \* metadata maps with entries
  HalfRange \* a status code is an int, and an int32 in pb.Message: 2^31

TypeNames == {"message", "image", "file", "audio", "video", "ping", "pong",
              "status", "command", "response", "error"}
StatusNames == {"sent", "delivered", "read", "failed"}

ASSUME NamesAssumption ==
  /\ TypeNames \cup StatusNames \cup {"text", "unknown", Blank} \subseteq Names
  /\ Lower \in [Names -> Names]
  /\ \A n \in TypeNames \cup StatusNames \cup {"unknown"} : Lower[n] = n
ASSUME DetailsAssumption ==
  /\ Blank \in Texts
  /\ Objects \cap Texts = {}
  /\ Nil \notin Texts \cup Objects \cup Maps \cup {NoEntries}
  /\ Nil \notin [message : Texts, details : Texts]
  /\ JsonText \in [Texts \cup Objects -> Texts \ {Blank}]
  /\ NoEntries \notin Maps
ASSUME RangeAssumption == HalfRange \in Nat \ {0}

Details == Texts \cup Objects \cup {Nil}
Message == [type : Names, status : Names, code : Int, recipient : Texts, conversation : Texts,
            error : [message : Texts, details : Details],
            metadata : Maps \cup {NoEntries, Nil}]

-----------------------------------------------------------------------------
(* The enumerations of the protocol.                                       *)

\* A number of the enumeration is named after the string it is turned into.
stringToMessageType(name) ==
  LET n == Lower[name]
  IN  IF n = "text" THEN "message" ELSE IF n \in TypeNames THEN n ELSE "unknown"
stringToMessageStatus(name) ==
  IF Lower[name] \in StatusNames THEN Lower[name] ELSE "unknown"
messageTypeToString(enum) == enum
messageStatusToString(enum) == enum

\* The conversion to int32 wraps around.
Int32(code) == ((code + HalfRange) % (2 * HalfRange)) - HalfRange

-----------------------------------------------------------------------------
(* The two conversions, and what goes over the wire.                       *)

\* Slip: details that are a string already are marshalled as well.
QuotedDetails(details) == IF details = Nil THEN Blank ELSE JsonText[details]

DetailsText(details) ==
  IF details = Nil THEN Blank ELSE IF details \in Texts THEN details ELSE JsonText[details]

ErrorInfo(error) ==
  IF error.message = Blank /\ error.details = Nil THEN Nil
  ELSE [message |-> error.message, details |-> DetailsText(error.details)]

JSONToProtobuf(m) ==
  [type |-> stringToMessageType(m.type), status |-> stringToMessageStatus(m.status),
   code |-> Int32(m.code), recipient |-> m.recipient, conversation |-> m.conversation,
   error |-> ErrorInfo(m.error), metadata |-> m.metadata]

ErrorOf(info) ==
  IF info = Nil THEN [message |-> Blank, details |-> Nil]
  ELSE [message |-> info.message, details |-> IF info.details = Blank THEN Nil ELSE info.details]

ProtobufToJSON(b) ==
  [type |-> messageTypeToString(b.type), status |-> messageStatusToString(b.status),
   code |-> b.code, recipient |-> b.recipient, conversation |-> b.conversation,
   error |-> ErrorOf(b.error), metadata |-> b.metadata]

\* Neither encoding tells an empty map from none.
OnWire(b) ==
  [type |-> b.type, status |-> b.status, code |-> b.code, recipient |-> b.recipient,
   conversation |-> b.conversation, error |-> b.error,
   metadata |-> IF b.metadata = NoEntries THEN Nil ELSE b.metadata]

SerializeMessage(m, protocol) ==
  IF protocol = "json" THEN OnWire(m) ELSE OnWire(JSONToProtobuf(m))
DeserializeMessage(data, protocol) ==
  IF protocol = "json" THEN data ELSE ProtobufToJSON(data)

\* What the other end of a connection has read.
Passed(m, protocol) == DeserializeMessage(SerializeMessage(m, protocol), protocol)

GetProtocolTypeFromConnection(connType) ==
  IF connType \in {"tcp", "tcp_ws"} THEN "protobuf" ELSE "json"
=============================================================================
