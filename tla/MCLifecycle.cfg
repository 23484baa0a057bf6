\* Safety and termination; one ordinary event of each thread is enough to
\* fill the queue ahead of, between and behind the events of the protocol.
SPECIFICATION FairSpec
CONSTANTS
  MaxEvents = 1
INVARIANTS
  LifecycleInv
  ExitIsLast
  LeftoversAreShutdown
  ErrorsReported
PROPERTIES
  ProgramEnds
