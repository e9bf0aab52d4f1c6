SPECIFICATION Spec
CONSTANTS
  None = None
  a = a
  b = b
  c = c
  Sessions = {a, b, c}
  Documents = {"d", "e"}
  Collections = {"A", "B"}
  NodeKeys = {"n", "m"}
  Elements = {"x", "y", "z"}
  Registered = {"x", "y"}
  Contents <- MCContents
  Payloads <- MCPayloads
  Menu <- MCMenu
  Seeds <- MCSeeds
CHECK_DEADLOCK FALSE
INVARIANTS TypeOK NoOrphans SubmittedIsLocked LastSubmissionWhole
PROPERTIES WritesHitTheirRow
