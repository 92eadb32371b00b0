SPECIFICATION Spec
CONSTANTS
  Pages <- MCPages
  Tasks <- MCTasks
  MaxMoves = 1
  UseVisualAI = TRUE
  Shadow = TRUE
  MaxRecords = 1
  FlushEvery = 2
  MaxHealAttempts = 1
INVARIANTS
  StrictTouchesTheNamed
  ChosenTakeTheAction
  DirectHealsHitTheChosen
  FinishedComparisonsAreWritten
