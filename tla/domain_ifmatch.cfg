SPECIFICATION Spec
CONSTANTS
  None = None
  Sessions = {a, b}
  r1 = r1
  r2 = r2
  Rows <- MCRows
  Batches <- MCBatches
  Verifying = {a}
  MaxActions = 1
  MaxMessages = 1
CHECK_DEADLOCK FALSE
PROPERTY IfMatchHonoured
