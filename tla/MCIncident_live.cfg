\* Fairness, without symmetry, for an opener who delegates once.
SPECIFICATION FairSpec
CONSTANTS
  m1 = m1
  m2 = m2
  Members = {m1, m2}
  RequiredApprovals = 2
  MaximumRejections = 0
  ResponseWindow = 2
  CertificateLifetime = 2
  Routes = {"er"}
  ExitFamilies <- WholeFamily
  Redelegates = FALSE
  MaxSlot = 3
  MaxNonce = 1
PROPERTIES
  Settles
  CertifiedIsPublished
CHECK_DEADLOCK FALSE
