\* Three workers, four files, three languages for two slots; two extensions
\* share a language.  A load may lose the last slot, and may fail.
SPECIFICATION FairSpec
CONSTANTS
  Workers = {w1, w2, w3}
  first = w1
  Exts = {"h", "cc", "c", "py"}
  Literal <- MCLiteral
  Name <- MCName
  lit_c = lit_c
  lit_cpp = lit_cpp
  lit_py = lit_py
  NULL = NULL
  MAX_LANGS = 2
  Gets <- MCGets
INVARIANTS TypeOK SingleFlight HeldStaysRight NothingLeaks WaitersHaveLoader
PROPERTIES RefusedOnlyWhenFull EveryGetReturns
