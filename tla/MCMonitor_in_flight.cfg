\* The claim that CommitWithoutActions proves the commit landed.
SPECIFICATION MonitorSpec
CONSTANTS
  a1 = a1
  a2 = a2
  Adapters <- Two
  ActionOrder <- InOrder
  MaxCohort = 3
  MaxLost = 1
  MaxTouches = 1
  Nonces = {7, 8, 9}
  CertNonce = 7
CHECK_DEADLOCK FALSE
INVARIANTS
  CommitHadLanded
