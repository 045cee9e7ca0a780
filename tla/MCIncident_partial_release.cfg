\* Exit lists that repeat a ballot.
SPECIFICATION Spec
CONSTANTS
  m1 = m1
  m2 = m2
  Members = {m1, m2}
  RequiredApprovals = 2
  MaximumRejections = 0
  ResponseWindow = 2
  CertificateLifetime = 2
  Routes = {"er"}
  ExitFamilies <- AnyFamily
  Redelegates = FALSE
  MaxSlot = 4
  MaxNonce = 2
INVARIANTS
  ReleaseTakesTheFamily
CHECK_DEADLOCK FALSE
