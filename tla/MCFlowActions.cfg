SPECIFICATION Spec
CONSTANTS
  Sources <- MCSources
  MaxFound = 2
  Batches <- MCBatches
  MaxAttempts = 2
  FlowSteps <- MCFlowSteps
  Plans <- MCPlans
INVARIANTS
  PassedHidesNoFailure
  StragglersHaveACause
  LoopsKeepTheirBounds
PROPERTIES
  StepsEndAndRelease
