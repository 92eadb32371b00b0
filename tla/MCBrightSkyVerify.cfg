SPECIFICATION FairSpec
CONSTANTS
  Entries <- MCEntries
  Walks = {TRUE, FALSE}
  NumSteps = 2
INVARIANTS
  OneVersionPerRun
  StoreAndOutcomesAgree
  WalkStopsForTheTokenOnly
  PassedMeansStepsPassed
PROPERTIES
  VerifyEnds
CHECK_DEADLOCK FALSE
