CONSTANTS
  r1 = r1
  r2 = r2
  Reqs <- MCReqs
  PromptLen <- MCPromptLen
  MaxOutput <- MCMaxOutput
  MaxQueueSize = 2
  ActiveLimit = 2
  StreamCapacity = 1
  MaxBatchedTokens = 2
  MayExpire = {r1}
SPECIFICATION FairSpec
INVARIANTS
  InFlightPinned
  FeedsNext
  TerminalResolved
PROPERTIES
  LifecycleSpec
  EventuallyResolved
