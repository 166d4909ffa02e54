\* A clear connection on which sendMail is called again and again.
SPECIFICATION Spec
CONSTANTS
  Endpoints <- PlainEndpoint
  Methods <- SendMethods
  MaxRcpt = 2
  MaxCalls = 3
  MaxLines = 1
  BadLines = TRUE
INVARIANTS
  TypeOK
  SendMailTellsTheTruth
  EnvelopeOfOneCall
PROPERTIES
  ImplementsSubmission
\* The user stops calling, or a TLS read waits for ever.
CHECK_DEADLOCK FALSE
