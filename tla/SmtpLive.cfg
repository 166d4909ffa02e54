\* Every method by itself after a connect with STARTTLS, under the fairness of
\* the scheduler and the timers.
SPECIFICATION TimerSpec
CONSTANTS
  Endpoints <- StartTlsEndpoint
  Methods <- CallMethods
  MaxRcpt = 1
  MaxCalls = 2
  MaxLines = 1
  BadLines = TRUE
INVARIANTS
  LoginLinesWhereAsked
PROPERTIES
  ClearCallsReturn
  ServedCallsReturn
\* The user stops calling, or a TLS read waits for ever.
CHECK_DEADLOCK FALSE
