SPECIFICATION Spec
CONSTANTS
  None = None
  Wf = Wf
  Commands = {c1, c2}
  Requests = {q1, q2}
  Orders <- MCOrders
  Events <- MCEvents
  MaxRestarts = 1
  States <- MCStates
  Barred <- MCBarred
CHECK_DEADLOCK FALSE
INVARIANTS TypeOK TransactionsAreWhole StartedOnce NumbersWithoutGaps
PROPERTIES StepsStay EverySessionEnds
