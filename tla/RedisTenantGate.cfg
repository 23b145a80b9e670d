CONSTANTS
  r1 = r1
  r2 = r2
  Conns <- MCConns
  Streamed <- MCStreamed
  Tokens <- MCTokens
  Ahead <- MCAhead
  MaxConcurrent = 1
  TokensPerMinute = 2
  Window = 2
  Lease = 5
  MaxSends = 3
  MaxTime = 4
SPECIFICATION Spec
INVARIANTS
  LimitHeld
  WindowBudget
  NoLeak
