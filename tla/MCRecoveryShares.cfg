SPECIFICATION SharesSpec
CONSTANTS
  Bytes = {{}, {1}, {1, 2, 128}}
  ShareCounts = {0, 2, 3, 255, 256}
  Thresholds = {0, 1, 2, 3}
  Holders = {0, 1, 2, 3, 255}
  MaxBrought = 3
INVARIANTS EnoughSharesRecover FewerSharesTellNothing
\* Shares that have been handed out may lie in drawers for ever.
CHECK_DEADLOCK FALSE
