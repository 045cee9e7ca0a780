\* Early, repeated and late firings of the expiry task, with and without callers.
SPECIFICATION CrankFairSpec
CONSTANTS
  m1 = m1
  m2 = m2
  Members = {m1, m2}
  RequiredApprovals = 2
  MaximumRejections = 0
  ResponseWindow = 2
  CertificateLifetime = 2
  Routes = {"er"}
  ExitFamilies <- WholeFamily
  Redelegates = FALSE
  MaxSlot = 3
  MaxNonce = 1
  MaxIterations = 2
PROPERTIES
  FiringSettlesOrSkips
  TaskSettlesExpired
CHECK_DEADLOCK FALSE
