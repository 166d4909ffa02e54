\* One call more, and data by hand, so that replies lag behind.
SPECIFICATION Spec
CONSTANTS
  Endpoints <- PlainEndpoint
  Methods <- MailMethods
  MaxRcpt = 1
  MaxCalls = 4
  MaxLines = 1
  BadLines = FALSE
INVARIANTS
  ReplyLag
  BodyNeverReadAsCommands
\* The user stops calling, or a TLS read waits for ever.
CHECK_DEADLOCK FALSE
