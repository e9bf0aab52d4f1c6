SPECIFICATION FairSpec
CONSTANTS
  None = None
  Jobs = {j}
  Workers = {u, v, w}
  MaxTries = 3
  Faults = {"crash", "shutdown", "timeout", "tracker", "redis"}
CHECK_DEADLOCK FALSE
INVARIANTS TypeOK RunsAtMostOnce RowTellsOutcome ResultIsTracked SubmittedMeansNotRun
PROPERTIES FinalStays EveryJobFinishes
