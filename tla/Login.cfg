\* URLs as users write them and any short text, with two builders.
SPECIFICATION Spec
CONSTANTS
  Asked <- AllAsked
  Texts <- AllTexts
  Builders <- AllBuilders
INVARIANTS
  LogsInAsTyped
  AcceptedCanBeDialled
  TlsAsAsked
\* A URL is used for one login.
CHECK_DEADLOCK FALSE
