SPECIFICATION Spec
CONSTANTS
  None = None
  a = a
  b = b
  c = c
  Sessions = {a, b}
  Documents = {"d", "e"}
  Collections = {"A", "B"}
  NodeKeys = {"n", "m"}
  Elements = {"x", "y", "z"}
  Registered = {"x", "y"}
  Contents <- MCContents
  Payloads <- MCPayloads
  Menu <- MCMoves
  Seeds <- MCFiledTwice
CHECK_DEADLOCK FALSE
PROPERTIES MovedDocumentStaysFiled
