CONSTANTS
  Vals = {0, 1, 2}
  MaxLen = 3
  MaxOuts = 2

SPECIFICATION Spec

INVARIANT MarkMatchesReference
