\* A maildrop of two messages, read and deleted over a clear connection.
SPECIFICATION Spec
CONSTANTS
  Endpoints <- LoginEndpoint
  Methods <- MailMethods
  MaxNumber = 2
  MaxCalls = 4
  BadLines = FALSE
  Maildrop <- TwoMessages
INVARIANTS
  TypeOK
  OwnWholeReply
  RetrReturnsTheMessage
  MaildropAsTold
PROPERTY
  ImplementsRemoval
\* The user stops calling, or a TLS read waits for ever.
CHECK_DEADLOCK FALSE
