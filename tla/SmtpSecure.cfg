\* STARTTLS, implicit TLS and clear endpoints, one connect after another.
SPECIFICATION Spec
CONSTANTS
  Endpoints <- SecureEndpoints
  Methods <- SecureMethods
  MaxRcpt = 0
  MaxCalls = 3
  MaxLines = 2
  BadLines = TRUE
INVARIANTS
  OwnWholeReply
  NoClearReplyUnderTls
  CredentialsEncrypted
  ConnectOkMeansSecured
PROPERTIES
  EndpointFollowsConnection
\* The user stops calling, or a TLS read waits for ever.
CHECK_DEADLOCK FALSE
