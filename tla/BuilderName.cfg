\* A plain URL and a builder with a server name.
SPECIFICATION Spec
CONSTANTS
  Asked <- SomeAsked
  Texts <- NoTexts
  Builders <- AllBuilders
INVARIANTS
  BuilderNameOverridesHost
\* A URL is used for one login.
CHECK_DEADLOCK FALSE
