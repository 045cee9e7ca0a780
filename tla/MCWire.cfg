\* What crosses a boundary: encodings, instructions, accounts, verification
\* and routing, one at a time.
SPECIFICATION Spec
CONSTANTS
  Top = 255
  Protocols = {1, 2, 3}
  Validators = {"er"}
  Runs = {1, 2}
  Elsewhere = Elsewhere
  Targets = {"a"}
  Required = 1
  MostRejections = 0
  MostBallots = 1
  Rollups = {"er1", "er2"}
  Attested = {"er1"}
  Configured = "er2"
  Attempts = 2
  MostMoves = 2
  Voters = {1, 2, 3}
  Approvals = 2
  Objections = 0
  Window = 1
  EpochStarts = 1
  EpochEnds = 2
  LastSlot = 2
  LastNonce = 2
INVARIANTS
  DriftIsSeen
  ReadsBackExactly
  CallsFitHandlers
  AccountsReadExactly
  VerifiedIsOneOperation
  ErrandsConcludeTruly
  TalliesAgree
  AnswersAgree
PROPERTIES
  SettlesAsEvaluated
CHECK_DEADLOCK FALSE
