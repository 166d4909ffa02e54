\* connect with credentials that the server refuses.
SPECIFICATION Spec
CONSTANTS
  Endpoints <- PlainEndpoint
  Methods <- SendMethods
  MaxRcpt = 0
  MaxCalls = 1
  MaxLines = 1
  BadLines = FALSE
INVARIANTS
  ConnectOkMeansAuthenticated
\* The user stops calling, or a TLS read waits for ever.
CHECK_DEADLOCK FALSE
