SPECIFICATION Spec
CONSTANTS
  None = None
  Wf = Wf
  SingleKeys = {"Step03"}
  MultiKeys = {"Step02"}
  Selectors = {st01}
  States <- MCStates
  Hooked <- MCHooked
  AllowedFrom <- MCAllowedFrom
  UnallowedFrom <- MCUnallowedFrom
  MemKeys = {"k"}
  Vocabulary <- EveryAction
  MaxMutations <- Wide
  MaxDepth = 2
CHECK_DEADLOCK FALSE
INVARIANTS TypeOK CtxDiscipline Replay AtomicCommit PersistSucceeds
