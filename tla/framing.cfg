\* Every client of two or three small frames, of all four kinds of connections, in all
\* pieces; of the stream of JSON texts every two contents of up to three characters.
SPECIFICATION Spec
CONSTANTS
  object = object
  Names <- MCNames
  Lower <- MCLower
  Texts = {"", "bob", "reason", "quoted", "requoted", "temporary"}
  Blank = ""
  Objects = {object}
  Nil = Nil
  JsonText <- MCJsonText
  NoEntries = NoEntries
  Maps = {}
  HalfRange = 4
  Clients <- MCClients
  MaxMessageSize = 3
  BufferSize = 4
  Temporary = "temporary"
CHECK_DEADLOCK FALSE
INVARIANTS
  InStep
  NestedParsed
  SameForAll
