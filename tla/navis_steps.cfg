SPECIFICATION Spec
CONSTANTS
  None = None
  Wf = Wf
  SingleKeys = {"Step03"}
  MultiKeys = {"Step02"}
  Selectors = {}
  States <- MCStates
  Hooked <- MCHooked
  AllowedFrom <- MCAllowedFrom
  UnallowedFrom <- MCUnallowedFrom
  MemKeys = {}
  Vocabulary <- StepActions
  MaxMutations <- Deep
  MaxDepth = 3
CHECK_DEADLOCK FALSE
PROPERTIES StepsFrozenUnlessActive Lifecycle
