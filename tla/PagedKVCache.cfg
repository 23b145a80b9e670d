CONSTANTS
  r1 = r1
  r2 = r2
  r3 = r3
  Reqs <- MCReqs
  Prompt <- MCPrompt
  Text <- MCText
  BlockSize = 2
  NumBlocks = 4
  PrefixMaxBlocks = 2
  NoOwner = NoOwner
  Owners <- MCOwners
SPECIFICATION Spec
VIEW MCView
INVARIANTS
  TypeOK
  BlocksExact
  KVContent
PROPERTIES
  LastTokenLeft
  EvictBeforeRefuse
