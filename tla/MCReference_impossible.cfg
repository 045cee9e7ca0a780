\* Whether what was called impossible may still be certified.
SPECIFICATION ReferenceSpec
CONSTANTS
  Voters = {1, 2, 3}
  Approvals = 2
  Objections = 0
  Window = 1
  EpochStarts = 1
  EpochEnds = 2
  LastSlot = 2
  LastNonce = 2
INVARIANTS
  ImpossibleIsFinal
CHECK_DEADLOCK FALSE
