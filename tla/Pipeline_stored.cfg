SPECIFICATION Spec
CONSTANTS
  Whole = 2
  StdoutCap = 1
INVARIANT StoredRestores
