\* STLS, implicit TLS and clear endpoints, one connect after another.
SPECIFICATION TimerSpec
CONSTANTS
  Endpoints <- SecureEndpoints
  Methods <- SecureMethods
  MaxNumber = 1
  MaxCalls = 2
  BadLines = TRUE
  Maildrop <- OneMessage
INVARIANTS
  NoClearReplyUnderTls
  CredentialsEncrypted
  ConnectOkMeansLoggedIn
PROPERTIES
  EndpointFollowsConnection
  ClearCallsReturn
  ServedCallsReturn
\* The user stops calling, or a TLS read waits for ever.
CHECK_DEADLOCK FALSE
