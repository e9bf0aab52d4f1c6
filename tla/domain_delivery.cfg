SPECIFICATION Spec
CONSTANTS
  None = None
  Sessions = {a, b}
  r1 = r1
  r2 = r2
  Rows <- MCOneRow
  Batches <- MCFewBatches
  Verifying = {}
  MaxActions = 2
  MaxMessages = 2
CHECK_DEADLOCK FALSE
INVARIANTS DeliveredInOrder DoneMeansDelivered
