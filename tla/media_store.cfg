SPECIFICATION Spec
CONSTANTS
  None = None
  Tasks = {s, t}
  Methods = {gzip, bz2}
  MaxFiles = 2
CHECK_DEADLOCK FALSE
INVARIANTS TypeOK ReadsReturnWhatWasPut OnlyFailuresTear RemoveNeverWaits
SYMMETRY MCSymmetry
