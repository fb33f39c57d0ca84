SPECIFICATION Spec
CONSTANTS
  Workers = {w1, w2, w3}
  first = w1
  Exts = {"h", "py"}
  Literal <- MCLiteral
  Name <- MCName
  lit_c = lit_c
  lit_cpp = lit_cpp
  lit_py = lit_py
  NULL = NULL
  MAX_LANGS = 2
  Gets <- TwoEach
INVARIANTS LoadedOnce
