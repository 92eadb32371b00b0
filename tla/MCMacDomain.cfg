SPECIFICATION Spec
CONSTANTS
  MacSteps <- MCMacSteps
  Contents <- MCContents
  MaxPosition = 1
  MaxMoves = 1
  MaxPolls = 1
INVARIANTS
  AimedClicksLand
  PassedMeansMet
PROPERTIES
  EndsWithoutTrace
