SPECIFICATION Spec
CONSTANTS
  b1 = b1
  b2 = b2
  Blocks = {b1, b2}
  NULL = NULL
  MaxAps = 2
INVARIANT
  ListedRecordsExist
