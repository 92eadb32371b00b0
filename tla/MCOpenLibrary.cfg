SPECIFICATION Spec
CONSTANTS
  b1 = b1
  b2 = b2
  b3 = b3
  b4 = b4
  Books <- MCBooks
  Old <- MCOld
  Unlinked <- MCUnlinked
  Workflows <- MCWorkflows
  Continues = {"smoke_test"}
  TopUp = "ensure_count"
  Target <- MCTarget
  PageLen = 2
  MaxPages = 2
  ShelfPage = 1
  MaxTurns = 2
  MaxLinks = 2
SYMMETRY MCSymmetry
INVARIANTS
  TopUpNeverOvershoots
  PassedTopUpIsExact
CHECK_DEADLOCK FALSE
