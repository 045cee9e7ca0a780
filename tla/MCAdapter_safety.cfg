\* Two operations, two capabilities whose signers one market may register; the
\* market is opened with a demo authority or without one.
SPECIFICATION AdapterSpec
CONSTANTS
  o1 = o1
  o2 = o2
  c1 = c1
  c2 = c2
  m1 = m1
  t1 = t1
  None = None
  Operations = {o1, o2}
  Capabilities = {c1, c2}
  Markets = {m1}
  Terms = {t1}
  TermsOf <- OpTerms
  BoundTo <- CapTerms
  MarketOf <- OneMarket
  Windows <- TwoWindows
  Expiries = {1, 2}
  MaxSlot = 1
SYMMETRY Symmetry
INVARIANTS
  CountsAgree
  PauseIsStamped
  ReceiptsAreBacked
PROPERTIES
  ImplementsEffectLedger
CHECK_DEADLOCK FALSE
