SPECIFICATION Spec
CONSTANTS
  Chars <- MCChars
  Sources <- MCPlainSources
  MAX_LINE_LEN = 2
  MAX_SRC_LINE_LEN = 5
INVARIANTS KindLineShown
