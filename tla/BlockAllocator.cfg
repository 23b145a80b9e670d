CONSTANTS
  NumBlocks = 4
  r1 = r1
  r2 = r2
  Owners <- MCOwners
  NoOwner = NoOwner
SPECIFICATION AllocatorSpec
INVARIANTS
  FreeListExact
PROPERTY NoSteal
