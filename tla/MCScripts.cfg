\* Every proof script, with up to two things that go wrong around it.
SPECIFICATION DriverSpec
CONSTANTS
  alpha = alpha
  beta = beta
  gamma = gamma
  Members = {alpha, beta, gamma}
  ClaimPayer = "opener"
  Scripts = {"local", "per", "success", "fail_one", "suspend_one", "expire", "cancel", "seam", "seam_fail"}
  Most = 2
  RequiredApprovals = 2
  MaximumRejections = 1
  ResponseWindow = 1
  CertificateLifetime = 2
  Routes = {"er"}
  ExitFamilies <- WholeFamily
  Redelegates = FALSE
  MaxSlot = 2
  MaxNonce = 2
  MaxIterations = 4
  Requested = 4
  Interval = 2
  QuietWindow = 3
  WatchWindow = 3
  MaxOthers = 1
INVARIANTS
  DriverTypeOK
  VerdictIsEarned
  OnlyTroubleFails
  WatchIsRight
PROPERTIES
  ScriptEnds
CHECK_DEADLOCK FALSE
