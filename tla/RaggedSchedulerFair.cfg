CONSTANTS
  r1 = r1
  r2 = r2
  Reqs <- MCReqs
  PromptLen <- MCPromptOne
  MaxOutput <- MCMaxOutputLive
  MayExpire <- MCReqs
  MaxQueueSize = 2
  ActiveLimit = 2
  StreamCapacity = 1
  MaxBatchedTokens = 2
  PrefillChunk = 2
SPECIFICATION FairSpec
PROPERTIES
  EventuallyResolved
