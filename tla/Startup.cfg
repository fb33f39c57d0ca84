\* Every command line over these options, every environment, both builds, and
\* a failure at every step.
SPECIFICATION Spec
CONSTANTS
  Texts <- MCTexts
  Cores <- MCCores
  LONG_MAX = 31
  INT_MAX = 7
  SIZE_MAX = 63
  WordSize = 4
  MaxThreads = 6
INVARIANTS TypeOK CleanExit ThreadsFit MergeArrayFits
