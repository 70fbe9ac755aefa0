\* Three messages, cut anywhere, to either client.
CONSTANTS
  Bytes <- MCBytes
  NL = "newline"
  Messages <- MCMessages
  BuffLen = 4
  MaxSent = 3
SPECIFICATION Spec
INVARIANTS
  TypeOK
  StreamKept
  ShownAreSent
  EndsWhenClosed
  FailsOnlyOnLong
  NothingLeft
PROPERTY AllShown
\* Clients end.
CHECK_DEADLOCK FALSE
