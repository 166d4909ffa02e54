\* Every message of up to five characters, read by both kinds of server.
SPECIFICATION Spec
CONSTANTS
  MaxLen = 5
INVARIANTS
  EndsWithTheMessage
  ArrivesUnchanged
\* The encoder stops at the end of the message.
CHECK_DEADLOCK FALSE
