\* A line is cut two characters before and after the start of the name, and a
\* file with a line of six characters is skipped.
SPECIFICATION Spec
CONSTANTS
  Chars <- MCChars
  Sources <- MCSources
  MAX_LINE_LEN = 2
  MAX_SRC_LINE_LEN = 5
INVARIANTS FitsBuffer OneField ReadsBack LongLinesSkipped
