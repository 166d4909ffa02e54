\* Safety of the transport, that it keeps the promise of Channel, and liveness
\* under the fairness of the scheduler and of the timers alone.
SPECIFICATION FairSpec
CONSTANTS
  Handles = {h1, h2}
  NoHandle = NoHandle
  MaxData = 3
INVARIANTS
  TypeOK
  ConnectedHasSocket
  NoDescriptorLost
  SentExactly
PROPERTIES
  ForeignCloseNeedsFailedUpgrade
  OkMeansAllSent
  ImplementsChannel
  TimedCallsReturn
