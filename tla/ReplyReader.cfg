\* Replies of both protocols, up to two lines of two symbols each.
SPECIFICATION Spec
CONSTANTS
  MaxLines = 2
  MaxText = 2
INVARIANTS
  StopsAtTheEnd
  ReadsWhatWasWritten
\* The reader stops at the end of the reply.
CHECK_DEADLOCK FALSE
