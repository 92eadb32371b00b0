CONSTANTS
  k1 = k1
  k2 = k2
  n = n
  Keys <- MCKeys
  Names <- MCNames
  Plans <- MCPlans
  Replacements <- MCReplacements
  Healer = TRUE
  MaxHealAttempts = 2
  CacheEnabled = TRUE
  Strict = FALSE
  Hooks = TRUE
SPECIFICATION FairSpec
INVARIANTS
  HealedOnEvidence
  BarredStepsNeverAct
  SuggestionsAreTheHeals
PROPERTIES
  CacheLearnsFromHealsOnly
  ImplementsWorkflowRun
  RunReturns
