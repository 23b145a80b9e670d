CONSTANTS
  c1 = c1
  c2 = c2
  c3 = c3
  Conns <- MCConns
  Streamed <- MCStreamed
  Tokens <- MCTokens
  MaxConcurrent = 2
  TokensPerMinute = 5
  Window = 2
  Second = 2
  MaxTime = 7
SPECIFICATION Spec
INVARIANTS
  HistoryExact
  LeasesExact
  WindowBudget
  RetrySuffices
PROPERTY LeasesSpec
