\* Two members, permissions, every exit list the program accepts, families delegated again.
SPECIFICATION SealSpec
CONSTANTS
  m1 = m1
  m2 = m2
  Members = {m1, m2}
  RequiredApprovals = 1
  MaximumRejections = 0
  ResponseWindow = 1
  CertificateLifetime = 2
  Routes = {"er"}
  ExitFamilies <- AnyFamily
  Redelegates = TRUE
  MaxSlot = 3
  MaxNonce = 2
SYMMETRY Symmetry
INVARIANTS
  OutcomeMatchesBallots
  OutcomeIsEarned
  VotesInsideWindow
  NothingPrivateOnBase
  BaseTellsTheOutcome
PROPERTIES
  SealOutlivesSecret
  ScrubIsFinal
  QuarantineNeverHelps
  NoResurrection
  ImplementsSealedQuorum
CHECK_DEADLOCK FALSE
