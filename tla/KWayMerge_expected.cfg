\* One worker, with room for the four lines of Expected.
SPECIFICATION Spec
CONSTANTS
  N = 1
  MaxLen = 4
  Lines = {1, 2, 3}
INVARIANTS ExpectedOutput
