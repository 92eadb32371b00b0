CONSTANTS
  k1 = k1
  k2 = k2
  n = n
  Keys <- MCKeys
  Names <- MCNames
  Plans <- MCStrictPlans
  Replacements <- MCReplacements
  Healer = TRUE
  MaxHealAttempts = 4
  CacheEnabled = FALSE
  Strict = TRUE
  Hooks = FALSE
SPECIFICATION Spec
INVARIANTS
  TypeOK
  HealBudget
  RungsInOrder
  BigModelHadItsTry
