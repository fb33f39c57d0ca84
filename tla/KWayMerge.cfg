\* At most five batches of at most three lines each, out of three: the heap gets
\* three levels deep, LineVecs repeat lines and batches share them.
SPECIFICATION Spec
CONSTANTS
  N = 5
  MaxLen = 3
  Lines = {1, 2, 3}
INVARIANTS HeapOrder OutputSorted OutputComplete
